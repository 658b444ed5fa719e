------------------------- MODULE DeviceEventsProofs -------------------------
(***************************************************************************)
(* Theorems about DeviceEvents and OtaSlots, for every number of clients,  *)
(* queue size, webhook list and number of alarms, uploads and resets.      *)
(***************************************************************************)
EXTENDS DeviceEvents, SelectionProofs

Images == {"good", "bad", "torn", "none"}
OtaStates == {"undefined", "new", "pending", "valid", "aborted"}
UploadRecord == [slot : Slots, image : Images, mixed : BOOLEAN]

SlotType ==
  /\ image \in [Slots -> Images]
  /\ ota \in [Slots -> OtaStates]
  /\ selected \in Slots
  /\ running \in Slots
  /\ uploads \in [Clients -> UploadRecord]

\* Every upload under way goes to the slot that does not run.
KeptInv ==
  /\ image[running] # "torn"
  /\ \A c \in Clients : uploads[c] # NoUpload => uploads[c].slot = Other(running)

\* The std firmware: a slot runs confirmed, and then it is good, or on trial,
\* and then it is the selected one, nothing is uploaded, and the other slot is
\* good and confirmed.
TrialInv ==
  program = "std" =>
    /\ wifi \in BOOLEAN
    /\ wifi => image[running] = "good"
    /\ ota[running] \in {"valid", "pending"}
    /\ ota[running] = "valid" =>
         /\ image[running] = "good"
         /\ selected = running \/ ota[Other(running)] \in {"new", "pending"}
    /\ ota[running] = "pending" =>
         /\ selected = running
         /\ ota[Other(running)] = "valid"
         /\ image[Other(running)] = "good"
         /\ \A c \in Clients : uploads[c] = NoUpload

\* Alarm and clear, as long as they have not overlapped.
LatchInv ==
  overlapped = FALSE =>
    /\ tick.pc = "emit" => clear.pc = "idle"
    /\ clear.pc = "emit" => active = FALSE
    /\ active = TRUE => tick.pc = "emit" \/ told = "fire"

Halfway == [pc : {"idle", "update", "emit"}, was_active : BOOLEAN]

LatchType ==
  /\ overlapped \in BOOLEAN
  /\ active \in BOOLEAN
  /\ tick \in Halfway
  /\ clear \in Halfway

SlotInv == SlotType /\ KeptInv /\ TrialInv

OtherFacts == \A s \in Slots : Other(s) \in Slots /\ Other(s) # s /\ Other(Other(s)) = s

LEMMA OtherSlot == OtherFacts
  BY DEF OtherFacts, Slots, Other

LEMMA NoUploadType == NoUpload \in UploadRecord
  BY DEF NoUpload, UploadRecord, Slots, Images

LEMMA SlotsInitially == Init => SlotInv
<1> SUFFICES ASSUME Init PROVE SlotInv
  OBVIOUS
<1>1. /\ image = [s \in Slots |-> IF s = 0 THEN "good" ELSE "torn"]
      /\ ota = [s \in Slots |-> IF s = 0 THEN "valid" ELSE "undefined"]
      /\ selected = 0 /\ running = 0 /\ uploads = [c \in Clients |-> NoUpload]
      /\ wifi = FALSE
  BY DEF Init, SlotsInit, NoUploads
<1>2. SlotType
  BY <1>1, NoUploadType DEF SlotType, Slots, Images, OtaStates
<1>3. image[0] = "good" /\ ota[0] = "valid"
  BY <1>1 DEF Slots
<1>4. KeptInv /\ TrialInv
  BY <1>1, <1>3 DEF KeptInv, TrialInv
<1>5. QED BY <1>2, <1>4 DEF SlotInv

\* The main loop confirms the running slot only while WiFi is up.
LEMMA MarkStep ==
  ASSUME SlotInv, NEW ok \in BOOLEAN, MainLoop(ok)
  PROVE  SlotInv'
<1>1. /\ program = "std" /\ program' = program /\ wifi' = wifi
      /\ image' = image /\ selected' = selected /\ running' = running
      /\ uploads' = uploads
  BY DEF MainLoop, fixed
<1>2. ota' = ota \/ (wifi /\ ota' = [ota EXCEPT ![running] = "valid"])
  BY DEF MainLoop, MarkValid, ShouldMark
<1>3. CASE ota' = ota
  BY <1>1, <1>3 DEF SlotInv, SlotType, KeptInv, TrialInv
<1>4. CASE wifi /\ ota' = [ota EXCEPT ![running] = "valid"]
  <2>1. running \in Slots /\ Other(running) \in Slots /\ Other(running) # running
        /\ image[running] = "good" /\ ota \in [Slots -> OtaStates]
    BY <1>1, <1>4, OtherSlot DEF SlotInv, SlotType, TrialInv, OtherFacts
  <2>2. ota' \in [Slots -> OtaStates] /\ ota'[running] = "valid"
        /\ ota'[Other(running)] = ota[Other(running)]
    BY <1>4, <2>1 DEF OtaStates
  <2>3. SlotType' /\ KeptInv'
    BY <1>1, <2>2 DEF SlotInv, SlotType, KeptInv
  <2>4. TrialInv'
    BY <1>1, <2>1, <2>2 DEF SlotInv, TrialInv
  <2>5. QED BY <2>3, <2>4 DEF SlotInv
<1>5. QED BY <1>2, <1>3, <1>4

\* An upload begins, in the slot that does not run.
LEMMA BeginStep == ASSUME SlotInv, OtaBegins PROVE SlotInv'
<1>1. PICK c \in Clients, img \in Uploads : UploadBegins(c, img)
  BY DEF OtaBegins
<1>2. /\ program' = program /\ wifi' = wifi
      /\ ota' = ota /\ selected' = selected /\ running' = running
      /\ image' = [image EXCEPT ![Other(running)] = "torn"]
      /\ uploads' = [d \in Clients |->
            IF d = c THEN [slot |-> Other(running), image |-> img,
                           mixed |-> Uploading # {}]
            ELSE IF d \in Uploading THEN [uploads[d] EXCEPT !.mixed = TRUE]
            ELSE NoUpload]
  BY <1>1 DEF OtaBegins, UploadBegins, InactiveSlot, boot, fixed
<1>3. /\ running \in Slots /\ Other(running) \in Slots /\ Other(running) # running
      /\ image \in [Slots -> Images] /\ uploads \in [Clients -> UploadRecord]
      /\ img \in Images
  BY OtherSlot, UploadsAssumption DEF SlotInv, SlotType, OtherFacts, Images
<1>4. image' \in [Slots -> Images] /\ image'[running] = image[running]
  BY <1>2, <1>3 DEF Images
<1>5. ASSUME NEW d \in Clients
      PROVE  /\ uploads'[d] \in UploadRecord
             /\ uploads'[d] # NoUpload => uploads'[d].slot = Other(running)
  <2>1. CASE d = c
    <3>1. uploads'[d] = [slot |-> Other(running), image |-> img,
                         mixed |-> Uploading # {}]
      BY <1>2, <2>1
    <3>2. (Uploading # {}) \in BOOLEAN
      OBVIOUS
    <3>3. QED BY <1>3, <3>1, <3>2 DEF UploadRecord
  <2>2. CASE d # c /\ d \in Uploading
    <3>1. uploads'[d] = [uploads[d] EXCEPT !.mixed = TRUE]
      BY <1>2, <2>2
    <3>2. uploads[d] \in UploadRecord /\ uploads[d].slot = Other(running)
      BY <1>3, <2>2 DEF SlotInv, KeptInv, Uploading
    <3>3. QED BY <3>1, <3>2 DEF UploadRecord
  <2>3. CASE d # c /\ d \notin Uploading
    BY <1>2, <2>3, NoUploadType
  <2>4. QED BY <2>1, <2>2, <2>3
<1>6. uploads' \in [Clients -> UploadRecord]
  BY <1>2, <1>5
<1>7. SlotType'
  BY <1>2, <1>4, <1>6 DEF SlotInv, SlotType
<1>8. KeptInv'
  BY <1>2, <1>4, <1>5 DEF SlotInv, KeptInv
<1>9. TrialInv'
  <2>1. program = "std" => ota[running] # "pending"
    BY DEF OtaBegins, Initiates
  <2>2. QED BY <1>2, <1>4, <2>1 DEF SlotInv, TrialInv
<1>10. QED BY <1>7, <1>8, <1>9 DEF SlotInv

\* What a finished or failed upload leaves: the running slot is not touched.
LEMMA UploadLeaves ==
  ASSUME SlotInv, NEW c \in Clients, uploads[c] # NoUpload,
         image' \in {image} \cup Written(uploads[c]),
         uploads' = [uploads EXCEPT ![c] = NoUpload],
         running' = running
  PROVE  /\ image' \in [Slots -> Images]
         /\ image'[running] = image[running]
         /\ uploads' \in [Clients -> UploadRecord]
         /\ \A d \in Clients : uploads'[d] # NoUpload => uploads'[d].slot = Other(running)
<1>1. /\ running \in Slots /\ Other(running) \in Slots /\ Other(running) # running
      /\ image \in [Slots -> Images] /\ uploads \in [Clients -> UploadRecord]
      /\ uploads[c].slot = Other(running) /\ uploads[c].image \in Images
  BY OtherSlot DEF SlotInv, SlotType, KeptInv, OtherFacts, UploadRecord
<1>2. image' = image \/ \E i \in Images : image' = [image EXCEPT ![Other(running)] = i]
  BY <1>1 DEF Written, Images
<1>3. image' \in [Slots -> Images] /\ image'[running] = image[running]
  BY <1>1, <1>2
<1>4. uploads' \in [Clients -> UploadRecord]
  BY <1>1, NoUploadType
<1>5. ASSUME NEW d \in Clients, uploads'[d] # NoUpload
      PROVE  uploads'[d].slot = Other(running)
  BY <1>1, <1>5 DEF SlotInv, KeptInv
<1>6. QED BY <1>3, <1>4, <1>5

LEMMA FailStep == ASSUME SlotInv, OtaFails PROVE SlotInv'
<1>1. PICK c \in Clients : UploadFails(c)
  BY DEF OtaFails
<1>2. /\ program' = program /\ wifi' = wifi
      /\ ota' = ota /\ selected' = selected /\ running' = running
      /\ uploads[c] # NoUpload
  BY <1>1 DEF OtaFails, UploadFails, boot, fixed
<1>3. /\ image' \in [Slots -> Images] /\ image'[running] = image[running]
      /\ uploads' \in [Clients -> UploadRecord]
      /\ \A d \in Clients : uploads'[d] # NoUpload => uploads'[d].slot = Other(running)
  BY <1>1, <1>2, UploadLeaves DEF UploadFails
<1>4. SlotType' /\ KeptInv'
  BY <1>2, <1>3 DEF SlotInv, SlotType, KeptInv
<1>5. TrialInv'
  BY <1>2, <1>3 DEF SlotInv, TrialInv
<1>6. QED BY <1>4, <1>5 DEF SlotInv

LEMMA CompleteStep ==
  ASSUME SlotInv, OtaCompletes \/ WriteImageCompletes
  PROVE  SlotInv'
<1>1. PICK c \in Clients :
        UploadCompletes(c, IF program = "std" THEN uploads[c].slot ELSE Other(selected))
  BY DEF OtaCompletes, WriteImageCompletes
<1> DEFINE slot == IF program = "std" THEN uploads[c].slot ELSE Other(selected)
<1>2. /\ program' = program /\ wifi' = wifi /\ selected' = slot /\ running' = running
      /\ uploads[c] # NoUpload /\ ota' = [ota EXCEPT ![slot] = "new"]
  BY <1>1 DEF OtaCompletes, WriteImageCompletes, UploadCompletes, boot, fixed
<1>3. /\ image' \in [Slots -> Images] /\ image'[running] = image[running]
      /\ uploads' \in [Clients -> UploadRecord]
      /\ \A d \in Clients : uploads'[d] # NoUpload => uploads'[d].slot = Other(running)
  BY <1>1, <1>2, UploadLeaves DEF UploadCompletes
<1>4. /\ running \in Slots /\ Other(running) \in Slots /\ Other(running) # running
      /\ Other(selected) \in Slots /\ ota \in [Slots -> OtaStates]
      /\ uploads[c].slot = Other(running)
  BY <1>2, OtherSlot DEF SlotInv, SlotType, KeptInv, OtherFacts
<1>5. slot \in Slots /\ (program = "std" => slot = Other(running))
  BY <1>1, <1>4
<1> HIDE DEF slot
<1>6. ota' \in [Slots -> OtaStates]
  BY <1>2, <1>4, <1>5 DEF OtaStates
<1>7. SlotType' /\ KeptInv'
  BY <1>2, <1>3, <1>5, <1>6 DEF SlotInv, SlotType, KeptInv
<1>8. TrialInv'
  <2>1. SUFFICES ASSUME program = "std" PROVE TrialInv'
    BY <1>2 DEF TrialInv
  <2>2. ota'[running] = ota[running] /\ ota'[Other(running)] = "new"
    BY <1>2, <1>4, <1>5, <2>1
  <2>3. ota[running] # "pending"
    BY <1>2, <2>1 DEF SlotInv, TrialInv
  <2>4. QED BY <1>2, <1>3, <2>1, <2>2, <2>3 DEF SlotInv, TrialInv
<1>9. QED BY <1>7, <1>8 DEF SlotInv

\* A whole image is there to boot as long as one of the slots has one.
LEMMA BootIsWhole ==
  ASSUME SlotInv
  PROVE  /\ NextSelected \in Slots /\ BootSlot \in Slots
         /\ image[BootSlot] # "torn"
<1>1. /\ selected \in Slots /\ Other(selected) \in Slots
      /\ running \in Slots /\ image[running] # "torn"
  BY OtherSlot DEF SlotInv, SlotType, KeptInv, OtherFacts
<1>2. NextSelected \in Slots
  BY <1>1 DEF NextSelected
<1>3. /\ Other(NextSelected) \in Slots
      /\ running = NextSelected \/ running = Other(NextSelected)
  BY <1>1, <1>2 DEF Slots, Other
<1>4. QED BY <1>1, <1>2, <1>3 DEF BootSlot

LEMMA ResetStep == ASSUME SlotInv, NEW why, Reset(why) PROVE SlotInv'
<1>1. /\ program' = program /\ wifi' = FALSE /\ image' = image
      /\ running' = BootSlot /\ selected' = NextSelected
      /\ uploads' = [c \in Clients |-> NoUpload]
      /\ ota' = Booted \/ ota' = [Booted EXCEPT ![NextSelected] = "valid"]
      /\ program = "std" => ota' = Booted
  BY DEF Reset, fixed, NoUploads, MarkValid
<1>2. /\ NextSelected \in Slots /\ BootSlot \in Slots /\ image[BootSlot] # "torn"
      /\ selected \in Slots /\ running \in Slots /\ ota \in [Slots -> OtaStates]
      /\ image \in [Slots -> Images]
  BY BootIsWhole DEF SlotInv, SlotType
<1>3. Booted \in [Slots -> OtaStates]
  BY <1>2 DEF Booted, OtaStates
<1>4. ota' \in [Slots -> OtaStates]
  BY <1>1, <1>2, <1>3 DEF OtaStates
<1>5. SlotType' /\ KeptInv'
  BY <1>1, <1>2, <1>4, NoUploadType DEF SlotType, KeptInv
<1>6. TrialInv'
  <2>1. SUFFICES ASSUME program = "std" PROVE TrialInv'
    BY <1>1 DEF TrialInv
  <2>2. \A c \in Clients : uploads'[c] = NoUpload
    BY <1>1
  <2> DEFINE o == Other(running)
  <2>3. o \in Slots /\ o # running /\ Other(o) = running
        /\ \A s \in Slots : s = running \/ s = o
    BY <1>2, OtherSlot DEF OtherFacts, Slots, Other
  <2>4. /\ ota[running] \in {"valid", "pending"}
        /\ ota[running] = "valid" =>
             /\ image[running] = "good"
             /\ selected = running \/ ota[o] \in {"new", "pending"}
        /\ ota[running] = "pending" =>
             selected = running /\ ota[o] = "valid" /\ image[o] = "good"
    BY <2>1 DEF SlotInv, TrialInv
  <2>5. \A s \in Slots :
          ota'[s] = IF s = NextSelected /\ ota[s] = "new" THEN "pending"
                    ELSE IF ota[s] = "pending" THEN "aborted"
                    ELSE ota[s]
    BY <1>1, <2>1 DEF Booted
  <2> HIDE DEF o
  <2>6. CASE ota[running] = "pending"
    <3>1. NextSelected = o /\ BootSlot = o
      BY <2>3, <2>4, <2>6 DEF NextSelected, BootSlot, o
    <3>2. ota'[o] = "valid" /\ image[o] = "good"
      BY <2>3, <2>4, <2>5, <2>6
    <3>3. QED BY <1>1, <2>2, <3>1, <3>2 DEF TrialInv
  <2>7. CASE ota[running] = "valid" /\ (selected = running \/ ota[selected] = "pending")
    <3>1. NextSelected = running /\ BootSlot = running
      BY <1>2, <2>3, <2>4, <2>7 DEF NextSelected, BootSlot, o, SlotInv, KeptInv
    <3>2. ota'[running] = "valid" /\ image[running] = "good"
      BY <1>2, <2>4, <2>5, <2>7
    <3>3. QED BY <1>1, <2>2, <3>1, <3>2 DEF TrialInv
  <2>8. CASE ota[running] = "valid" /\ selected = o /\ ota[o] = "new"
    <3>1. NextSelected = o
      BY <2>8 DEF NextSelected
    <3>2. ota'[o] = "pending" /\ ota'[running] = "valid" /\ image[running] = "good"
      BY <1>2, <2>3, <2>4, <2>5, <2>8, <3>1
    <3>3. BootSlot = o \/ BootSlot = running
      BY <2>3, <3>1 DEF BootSlot
    <3>4. CASE BootSlot = o
      BY <1>1, <2>2, <2>3, <3>1, <3>2, <3>4 DEF TrialInv
    <3>5. CASE BootSlot = running
      BY <1>1, <2>2, <3>2, <3>5 DEF TrialInv, o
    <3>6. QED BY <3>3, <3>4, <3>5
  <2>9. QED BY <1>2, <2>3, <2>4, <2>6, <2>7, <2>8
<1>7. QED BY <1>5, <1>6 DEF SlotInv

\* Everything else leaves the slots alone.
LEMMA OtherStep ==
  ASSUME SlotInv,
         \/ Tick \/ Clear \/ Write
         \/ \E kind \in TestKinds : WebhooksTest(kind)
         \/ Worker \/ WifiChanges \/ HeapLow \/ UNCHANGED vars
  PROVE  SlotInv'
<1>1. /\ program' = program
      /\ image' = image /\ ota' = ota /\ selected' = selected /\ running' = running
      /\ uploads' = uploads
      /\ wifi' = wifi \/ (wifi' = ~wifi /\ (wifi' => image[running] = "good"))
  BY DEF Tick, TickSnapshot, TickUpdate, TickEmit, Clear, ClearRead, ClearUpdate,
         ClearEmit, Write, ReplaceWebhooks, ReplaceEmit, WebhooksTest, Worker,
         WifiChanges, HeapLow, vars, slotVars, fixed, boot
<1>2. SlotType' /\ KeptInv'
  BY <1>1 DEF SlotInv, SlotType, KeptInv
<1>3. CASE wifi' = wifi
  BY <1>1, <1>2, <1>3 DEF SlotInv, TrialInv
<1>4. CASE wifi' = ~wifi /\ (wifi' => image[running] = "good")
  <2>1. wifi' \in BOOLEAN
    BY <1>4
  <2>2. QED BY <1>1, <1>2, <1>4, <2>1 DEF SlotInv, TrialInv
<1>5. QED BY <1>1, <1>3, <1>4

LEMMA SlotsCorrect == Spec => []SlotInv
<1>1. SlotInv /\ [Next]_vars => SlotInv'
  BY MarkStep, BeginStep, FailStep, CompleteStep, ResetStep, OtherStep
     DEF Next, OtaReboot, Crash
<1>2. QED BY <1>1, SlotsInitially, PTL DEF Spec

(* Whatever POST /api/ota is sent and however its uploads end or overlap,  *)
(* the image that runs stays whole, and the bootloader finds a whole one.  *)
THEOREM KeptImage == Spec => []RunningIsKept
<1>1. SlotInv => RunningIsKept
  BY BootIsWhole DEF SlotInv, KeptInv, RunningIsKept
<1>2. QED BY <1>1, SlotsCorrect, PTL

(* The main loop of the std firmware never confirms an image that cannot   *)
(* get onto the network, and while such an image runs the next reset       *)
(* brings the previous one back.                                           *)
THEOREM RolledBack == Spec => []BadImageLeft
<1>1. SlotInv => BadImageLeft
  <2> SUFFICES ASSUME SlotInv, program = "std"
               PROVE  /\ ota[selected] = "valid" => image[selected] # "bad"
                      /\ image[running] = "bad" =>
                           BootSlot # running /\ image[BootSlot] = "good"
    BY DEF BadImageLeft
  <2> DEFINE o == Other(running)
  <2>1. /\ running \in Slots /\ selected \in Slots /\ o # running
        /\ \A s \in Slots : s = running \/ s = o
    BY OtherSlot DEF SlotInv, SlotType, OtherFacts, Slots, Other
  <2>2. /\ ota[running] \in {"valid", "pending"}
        /\ ota[running] = "valid" =>
             /\ image[running] = "good"
             /\ selected = running \/ ota[o] \in {"new", "pending"}
        /\ ota[running] = "pending" =>
             selected = running /\ ota[o] = "valid" /\ image[o] = "good"
    BY DEF SlotInv, TrialInv
  <2> HIDE DEF o
  <2>3. CASE ota[running] = "valid"
    BY <2>1, <2>2, <2>3
  <2>4. CASE ota[running] = "pending"
    <3>1. NextSelected = o /\ BootSlot = o
      BY <2>2, <2>4 DEF NextSelected, BootSlot, o
    <3>2. QED BY <2>1, <2>2, <2>4, <3>1
  <2>5. QED BY <2>2, <2>3, <2>4
<1>2. QED BY <1>1, SlotsCorrect, PTL

-----------------------------------------------------------------------------
(* The alarm's latch and what is told of it.                               *)

LEMMA Resting0 == AtRest \in Halfway /\ AtRest.pc = "idle"
  BY DEF AtRest, Halfway

\* One of the two handlers takes a step of its own.
LEMMA Advance ==
  ASSUME NEW r \in Halfway, NEW p \in {"idle", "update", "emit"}
  PROVE  [r EXCEPT !.pc = p] \in Halfway /\ [r EXCEPT !.pc = p].pc = p
  BY DEF Halfway

LEMMA Begun ==
  ASSUME LatchType
  PROVE  /\ [pc |-> "update", was_active |-> active] \in Halfway
         /\ [pc |-> "update", was_active |-> active].pc = "update"
  BY DEF LatchType, Halfway

LEMMA LatchInit == Init => LatchType /\ LatchInv
<1> SUFFICES ASSUME Init PROVE LatchType /\ LatchInv
  OBVIOUS
<1>1. active = FALSE /\ overlapped = FALSE /\ tick = AtRest /\ clear = AtRest
  BY DEF Init
<1>2. LatchType
  BY <1>1, Resting0 DEF LatchType
<1>3. LatchInv
  BY <1>1, Resting0 DEF LatchInv
<1>4. QED BY <1>2, <1>3

\* evaluate_flow_alarm, under its two locks and after them.
LEMMA TickStep == ASSUME LatchType, LatchInv, Tick PROVE LatchType' /\ LatchInv'
<1>1. CASE TickSnapshot
  <2>1. /\ tick.pc = "idle" /\ tick' = [pc |-> "update", was_active |-> active]
        /\ clear' = clear /\ active' = active /\ told' = told
        /\ overlapped' = overlapped
    BY <1>1 DEF TickSnapshot, ghosts
  <2>2. tick' \in Halfway /\ tick'.pc = "update"
    BY <2>1, Begun
  <2>3. LatchType'
    BY <2>1, <2>2 DEF LatchType
  <2>4. LatchInv'
    BY <2>1, <2>2 DEF LatchInv
  <2>5. QED BY <2>3, <2>4
<1>2. ASSUME NEW high \in BOOLEAN, TickUpdate(high) PROVE LatchType' /\ LatchInv'
  <2>1. tick.pc = "update" /\ clear' = clear /\ told' = told
    BY <1>2 DEF TickUpdate
  <2>2. CASE ~tick.was_active /\ high
    <3>1. /\ tick' = [tick EXCEPT !.pc = "emit"] /\ active' = TRUE
          /\ overlapped' = (overlapped \/ clear.pc # "idle")
      BY <1>2, <2>2 DEF TickUpdate
    <3>2. tick' \in Halfway /\ tick'.pc = "emit"
      BY <3>1, Advance DEF LatchType
    <3>3. LatchType'
      BY <2>1, <3>1, <3>2 DEF LatchType
    <3>4. LatchInv'
      BY <2>1, <3>1, <3>2 DEF LatchInv
    <3>5. QED BY <3>3, <3>4
  <2>3. CASE ~(~tick.was_active /\ high)
    <3>1. tick' = AtRest /\ active' = active /\ overlapped' = overlapped
      BY <1>2, <2>3 DEF TickUpdate
    <3>2. LatchType'
      BY <2>1, <3>1, Resting0 DEF LatchType
    <3>3. LatchInv'
      BY <2>1, <3>1, Resting0 DEF LatchInv
    <3>4. QED BY <3>2, <3>3
  <2>4. QED BY <2>2, <2>3
<1>3. CASE TickEmit
  <2>1. /\ tick' = AtRest /\ clear' = clear /\ active' = active
        /\ told' = "fire" /\ overlapped' = overlapped
        /\ tick.pc = "emit"
    BY <1>3 DEF TickEmit
  <2>2. LatchType'
    BY <2>1, Resting0 DEF LatchType
  <2>3. LatchInv'
    BY <2>1, Resting0 DEF LatchInv
  <2>4. QED BY <2>2, <2>3
<1>4. QED BY <1>1, <1>2, <1>3 DEF Tick

\* clear_flow_alarm, which reads the latch and resets it under two locks.
LEMMA ClearStep == ASSUME LatchType, LatchInv, Clear PROVE LatchType' /\ LatchInv'
<1>1. CASE ClearRead
  <2>1. /\ clear.pc = "idle" /\ clear' = [pc |-> "update", was_active |-> active]
        /\ tick' = tick /\ active' = active /\ told' = told
        /\ overlapped' = (overlapped \/ tick.pc # "idle")
    BY <1>1 DEF ClearRead
  <2>2. clear' \in Halfway /\ clear'.pc = "update"
    BY <2>1, Begun
  <2>3. LatchType'
    BY <2>1, <2>2 DEF LatchType
  <2>4. ASSUME overlapped' = FALSE PROVE overlapped = FALSE /\ tick.pc = "idle"
    BY <2>1, <2>4 DEF LatchType
  <2>5. LatchInv'
    BY <2>1, <2>2, <2>4 DEF LatchInv
  <2>6. QED BY <2>3, <2>5
<1>2. CASE ClearUpdate
  <2>1. /\ clear.pc = "update" /\ active' = FALSE /\ tick' = tick /\ told' = told
        /\ overlapped' = overlapped
        /\ clear' = AtRest \/ clear' = [clear EXCEPT !.pc = "emit"]
    BY <1>2 DEF ClearUpdate, ghosts
  <2>2. clear' \in Halfway
    BY <2>1, Resting0, Advance DEF LatchType
  <2>3. LatchType'
    BY <2>1, <2>2 DEF LatchType
  <2>4. LatchInv'
    BY <2>1 DEF LatchInv
  <2>5. QED BY <2>3, <2>4
<1>3. CASE ClearEmit
  <2>1. /\ clear.pc = "emit" /\ clear' = AtRest /\ tick' = tick
        /\ active' = active /\ overlapped' = overlapped
    BY <1>3 DEF ClearEmit
  <2>2. LatchType'
    BY <2>1, Resting0 DEF LatchType
  <2>3. LatchInv'
    BY <2>1, Resting0 DEF LatchInv
  <2>4. QED BY <2>2, <2>3
<1>4. QED BY <1>1, <1>2, <1>3 DEF Clear

LEMMA LatchReset ==
  ASSUME LatchType, LatchInv, NEW why, Reset(why)
  PROVE  LatchType' /\ LatchInv'
<1>1. active' = FALSE /\ overlapped' = FALSE /\ tick' = AtRest /\ clear' = AtRest
  BY DEF Reset
<1>2. LatchType'
  BY <1>1, Resting0 DEF LatchType
<1>3. LatchInv'
  BY <1>1, Resting0 DEF LatchInv
<1>4. QED BY <1>2, <1>3

LEMMA LatchKept ==
  ASSUME LatchType, LatchInv,
         \/ \E ok \in BOOLEAN : MainLoop(ok)
         \/ Write \/ (\E kind \in TestKinds : WebhooksTest(kind)) \/ Worker
         \/ OtaBegins \/ OtaFails \/ OtaCompletes \/ WriteImageCompletes
         \/ WifiChanges \/ HeapLow \/ UNCHANGED vars
  PROVE  LatchType' /\ LatchInv'
<1>1. /\ active' = active /\ overlapped' = overlapped /\ tick' = tick
      /\ clear' = clear /\ told' = told
  BY DEF MainLoop, Write, ReplaceWebhooks, ReplaceEmit, WebhooksTest, Worker,
         OtaBegins, OtaFails, OtaCompletes, WriteImageCompletes, WifiChanges,
         HeapLow, vars, threads, ghosts
<1>2. LatchType'
  BY <1>1 DEF LatchType
<1>3. LatchInv'
  BY <1>1 DEF LatchInv
<1>4. QED BY <1>2, <1>3

(* When the alarm is latched and nobody is in the middle of changing that, *)
(* its firing was the last thing told, unless clear_flow_alarm and         *)
(* evaluate_flow_alarm overlapped since the boot.                          *)
THEOREM AnnouncedLatch == Spec => []LatchIsAnnounced
<1>1. LatchType /\ LatchInv /\ [Next]_vars => LatchType' /\ LatchInv'
  BY TickStep, ClearStep, LatchReset, LatchKept DEF Next, OtaReboot, Crash
<1>2. LatchType /\ LatchInv => LatchIsAnnounced
  <2> SUFFICES ASSUME LatchType, LatchInv, active, tick.pc = "idle", ~overlapped
               PROVE  told = "fire"
    BY DEF LatchIsAnnounced
  <2>1. overlapped = FALSE /\ active = TRUE
    BY DEF LatchType
  <2>2. QED BY <2>1 DEF LatchInv
<1>3. QED BY <1>1, <1>2, LatchInit, PTL DEF Spec

-----------------------------------------------------------------------------
(* The webhook queue.                                                      *)

\* No configuration names a receiver twice: here a receiver is its name.
NamedOnce ==
  \A ws \in WebhookLists : \A i, j \in DOMAIN ws : ws[i].name = ws[j].name => i = j

Event == [kind : Events, n : Nat]
Mail == [queue : Seq(Event), emitted : Nat, dropped : SUBSET Nat]
Job == [event : [kind : Events \cup {"none"}, n : Nat], subs : Seq(Webhook)]

QueueType ==
  /\ program \in {"std", "embassy", "host"}
  /\ webhooks \in WebhookLists
  /\ mail \in Mail
  /\ job \in Job
  /\ sent \in [Hooks -> Seq(Nat)]
  /\ due \in [Hooks -> Seq(Nat)]

\* The queue holds the newest events, in order.
MailOrder(m) ==
  /\ \A i, j \in DOMAIN m.queue : i < j => m.queue[i].n < m.queue[j].n
  /\ \A i \in DOMAIN m.queue : m.queue[i].n <= m.emitted

\* What the worker has taken was emitted before what is still in the queue.
TakenBefore(m) ==
  \A h \in Hooks : \A j \in DOMAIN due[h] :
    /\ due[h][j] <= m.emitted
    /\ \A i \in DOMAIN m.queue : due[h][j] < m.queue[i].n

\* Each receiver to come is served once, and with an event newer than any it
\* was sent.
JobInv ==
  /\ job = Free \/ job.subs # <<>>
  /\ \A i, j \in DOMAIN job.subs : job.subs[i].name = job.subs[j].name => i = j
  /\ \A i \in DOMAIN job.subs :
       \E ws \in WebhookLists : \E k \in DOMAIN ws : job.subs[i] = ws[k]
  /\ \A i \in DOMAIN job.subs :
       /\ \E j \in DOMAIN due[job.subs[i].name] :
            due[job.subs[i].name][j] = job.event.n
       /\ \A j \in DOMAIN sent[job.subs[i].name] :
            sent[job.subs[i].name][j] < job.event.n

SentInv ==
  \A h \in Hooks :
    /\ Increasing(sent[h])
    /\ \A i \in DOMAIN sent[h] : \E j \in DOMAIN due[h] : due[h][j] = sent[h][i]

\* Every webhook of the receiver is one that goes out.
Served(h) ==
  \A ws \in WebhookLists : \A i \in DOMAIN ws : ws[i].name = h => GoesOut(ws[i])

\* What a receiver is due was sent, or is about to be, or met a reset.
PendingInv ==
  \A h \in Hooks : Served(h) =>
    \A j \in DOMAIN due[h] :
      \/ due[h][j] \in mail.dropped
      \/ \E i \in DOMAIN sent[h] : sent[h][i] = due[h][j]
      \/ due[h][j] = job.event.n /\ \E i \in DOMAIN job.subs : job.subs[i].name = h

QueueInv ==
  /\ QueueType /\ MailOrder(mail) /\ TakenBefore(mail)
  /\ JobInv /\ SentInv /\ PendingInv

LEMMA QueueInitially == Init => QueueInv
<1> SUFFICES ASSUME Init PROVE QueueInv
  OBVIOUS
<1>1. /\ program \in {"std", "embassy", "host"} /\ webhooks \in WebhookLists
      /\ mail = [queue |-> <<>>, emitted |-> 0, dropped |-> {}]
      /\ job = Free
      /\ sent = [h \in Hooks |-> <<>>] /\ due = [h \in Hooks |-> <<>>]
  BY DEF Init, QueueInit, EmptyMail
<1>2. job.subs = <<>> /\ job \in Job
  BY <1>1 DEF Free, NoEvent, Job
<1>3. /\ mail.queue = <<>> /\ mail.emitted = 0 /\ mail.dropped = {} /\ mail \in Mail
      /\ \A h \in Hooks : sent[h] = <<>> /\ due[h] = <<>>
  BY <1>1 DEF Mail
<1>4. QueueType
  BY <1>1, <1>2, <1>3 DEF QueueType
<1>5. MailOrder(mail) /\ TakenBefore(mail)
  BY <1>3 DEF MailOrder, TakenBefore
<1>6. JobInv
  BY <1>1, <1>2 DEF JobInv
<1>7. SentInv /\ PendingInv
  BY <1>3 DEF SentInv, PendingInv, Increasing
<1>8. QED BY <1>4, <1>5, <1>6, <1>7 DEF QueueInv

\* App::emit_event: the event is the newest, in the queue or dropped.
LEMMA EmittedLast ==
  ASSUME NEW m \in Mail, MailOrder(m), TakenBefore(m), NEW kind \in Events,
         due \in [Hooks -> Seq(Nat)]
  PROVE  /\ Emitted(m, kind) \in Mail
         /\ MailOrder(Emitted(m, kind)) /\ TakenBefore(Emitted(m, kind))
         /\ m.dropped \subseteq Emitted(m, kind).dropped
<1> DEFINE n == m.emitted + 1
           e == Emitted(m, kind)
           new == [kind |-> kind, n |-> n]
<1>1. n \in Nat /\ m.emitted \in Nat /\ m.emitted < n /\ new \in Event /\ new.n = n
      /\ m.queue \in Seq(Event) /\ m.dropped \subseteq Nat
  BY DEF Mail, Event
<1>2. \A i \in DOMAIN m.queue : m.queue[i].n \in Nat /\ m.queue[i].n < n
  <2>1. ASSUME NEW i \in DOMAIN m.queue PROVE m.queue[i].n \in Nat
    <3>1. m.queue[i] \in Event
      BY <1>1
    <3>2. QED BY <3>1 DEF Event
  <2>2. \A i \in DOMAIN m.queue : m.queue[i].n <= m.emitted
    BY DEF MailOrder
  <2> HIDE DEF new
  <2>3. QED BY <1>1, <2>1, <2>2
<1>3. ASSUME NEW h \in Hooks, NEW j \in DOMAIN due[h]
      PROVE  /\ due[h][j] \in Nat /\ due[h][j] < n
             /\ \A i \in DOMAIN m.queue : due[h][j] < m.queue[i].n
  <2>1. due[h][j] \in Nat
    OBVIOUS
  <2>2. QED BY <1>1, <2>1 DEF TakenBefore
<1>4. CASE Len(m.queue) < QueueCap[program]
  <2>1. e = [m EXCEPT !.queue = Append(m.queue, new), !.emitted = n]
    BY <1>4 DEF Emitted
  <2>2. e.queue = Append(m.queue, new) /\ e.emitted = n /\ e.dropped = m.dropped
        /\ e \in Mail
    <3>1. e = [queue |-> Append(m.queue, new), emitted |-> n, dropped |-> m.dropped]
      BY <2>1 DEF Mail
    <3>2. Append(m.queue, new) \in Seq(Event)
      BY <1>1
    <3>3. QED BY <1>1, <3>1, <3>2 DEF Mail
  <2> HIDE DEF n, e, new
  <2>3. /\ \A i \in DOMAIN e.queue : i \in DOMAIN m.queue \/ i = Len(m.queue) + 1
        /\ \A i \in DOMAIN m.queue : e.queue[i] = m.queue[i] /\ i < Len(m.queue) + 1
        /\ e.queue[Len(m.queue) + 1] = new
        /\ Len(m.queue) \in Nat
        /\ DOMAIN m.queue = 1 .. Len(m.queue) /\ DOMAIN e.queue = 1 .. (Len(m.queue) + 1)
    BY <1>1, <2>2
  <2>4. ASSUME NEW i \in DOMAIN e.queue, NEW j \in DOMAIN e.queue, i < j
        PROVE  e.queue[i].n < e.queue[j].n
    <3>1. i \in DOMAIN m.queue
      BY <2>3, <2>4
    <3>2. CASE j \in DOMAIN m.queue
      BY <2>3, <2>4, <3>1, <3>2 DEF MailOrder
    <3>3. CASE j = Len(m.queue) + 1
      BY <1>1, <1>2, <2>3, <3>1, <3>3
    <3>4. QED BY <2>3, <3>2, <3>3
  <2>5. \A i \in DOMAIN e.queue : e.queue[i].n <= e.emitted
    BY <1>1, <1>2, <2>2, <2>3
  <2>6. MailOrder(e)
    BY <2>4, <2>5 DEF MailOrder
  <2>7. TakenBefore(e)
    BY <1>1, <1>3, <2>2, <2>3 DEF TakenBefore
  <2>8. QED BY <2>2, <2>6, <2>7 DEF e
<1>5. CASE ~(Len(m.queue) < QueueCap[program])
  <2>1. e = [m EXCEPT !.dropped = m.dropped \cup {n}, !.emitted = n]
    BY <1>5 DEF Emitted
  <2>2. e.queue = m.queue /\ e.emitted = n /\ e.dropped = m.dropped \cup {n}
        /\ e \in Mail
    BY <1>1, <2>1 DEF Mail
  <2> HIDE DEF n, e
  <2>3. MailOrder(e)
    BY <1>1, <1>2, <2>2 DEF MailOrder
  <2>4. TakenBefore(e)
    BY <1>1, <1>3, <2>2 DEF TakenBefore
  <2>5. QED BY <2>2, <2>3, <2>4 DEF e
<1>6. QED BY <1>4, <1>5

LEMMA ServedFixed ==
  ASSUME program' = program, tls' = tls
  PROVE  \A h \in Hooks : Served(h)' = Served(h)
BY DEF Served, GoesOut, PostGoesOut, HostPostGoesOut, DeliverGoesOut, ParseUrl

\* Emitting, or writing the configuration, is all one and the same to the worker.
LEMMA ProducerStep ==
  ASSUME QueueInv, mail' \in Mail, MailOrder(mail)', TakenBefore(mail)',
         mail.dropped \subseteq mail'.dropped, webhooks' \in WebhookLists,
         UNCHANGED <<program, tls, job, sent, due>>
  PROVE  QueueInv'
<1>1. program' = program /\ tls' = tls /\ job' = job /\ sent' = sent /\ due' = due
  OBVIOUS
<1>2. QueueType'
  BY <1>1 DEF QueueInv, QueueType
<1>3. JobInv' /\ SentInv'
  BY <1>1 DEF QueueInv, JobInv, SentInv
<1>4. \A h \in Hooks : Served(h)' = Served(h)
  BY <1>1, ServedFixed
<1>5. PendingInv'
  BY <1>1, <1>4 DEF QueueInv, PendingInv
<1>6. QED BY <1>2, <1>3, <1>5 DEF QueueInv

\* Who subscribes: entries of the configured list, none of them twice.
LEMMA SubscribersNamed ==
  ASSUME NamedOnce, webhooks \in WebhookLists, NEW kind
  PROVE  LET subs == Subscribers(kind)
         IN  /\ subs \in Seq(Webhook)
             /\ \A i \in DOMAIN subs : \E k \in DOMAIN webhooks : subs[i] = webhooks[k]
             /\ \A i, j \in DOMAIN subs : subs[i].name = subs[j].name => i = j
<1> DEFINE T == {w \in Webhook : w.enabled /\ kind \in w.events}
           subs == SelectIn(webhooks, T)
<1>1. webhooks \in Seq(Webhook)
  BY QueueAssumption
<1>2. Subscribers(kind) = subs
  BY DEF Subscribers
<1> HIDE DEF T
<1>3. subs \in Seq(Webhook) /\ \E at : Selects(subs, at, webhooks, T, Len(webhooks))
  BY <1>1, SelectInSelects
<1>4. PICK at : Selects(subs, at, webhooks, T, Len(webhooks))
  BY <1>3
<1> HIDE DEF subs
<1>5. /\ DOMAIN subs = 1 .. Len(subs) /\ Len(subs) \in Nat
      /\ DOMAIN webhooks = 1 .. Len(webhooks) /\ Len(webhooks) \in Nat
  BY <1>1, <1>3
<1>6. \A i \in DOMAIN subs : at[i] \in DOMAIN webhooks /\ subs[i] = webhooks[at[i]]
                             /\ at[i] \in Nat
  BY <1>4, <1>5 DEF Selects
<1>7. ASSUME NEW i \in DOMAIN subs, NEW j \in DOMAIN subs, subs[i].name = subs[j].name
      PROVE  i = j
  <2>1. at[i] = at[j]
    BY <1>6, <1>7 DEF NamedOnce
  <2>2. i \in Nat /\ j \in Nat /\ (i < j => at[i] < at[j]) /\ (j < i => at[j] < at[i])
    BY <1>4, <1>5 DEF Selects
  <2>3. at[i] \in Nat /\ at[j] \in Nat
    BY <1>6
  <2>4. ~(i < j) /\ ~(j < i)
    BY <2>1, <2>2, <2>3
  <2>5. QED BY <2>2, <2>4
<1>8. QED BY <1>2, <1>3, <1>6, <1>7

Named(ws, h) == \E i \in DOMAIN ws : ws[i].name = h

Longer(t, s, n) ==
  /\ DOMAIN t = DOMAIN s \cup {Len(s) + 1}
  /\ \A j \in DOMAIN s : t[j] = s[j] /\ j < Len(s) + 1
  /\ t[Len(s) + 1] = n

\* What Append1 makes of the receivers' lists.
LEMMA Appended ==
  ASSUME NEW f \in [Hooks -> Seq(Nat)], NEW ws \in Seq(Webhook), NEW n \in Nat
  PROVE  /\ Append1(f, ws, n) \in [Hooks -> Seq(Nat)]
         /\ \A h \in Hooks : ~Named(ws, h) => Append1(f, ws, n)[h] = f[h]
         /\ \A h \in Hooks : Named(ws, h) => Longer(Append1(f, ws, n)[h], f[h], n)
<1> DEFINE g == Append1(f, ws, n)
<1>1. g = [h \in Hooks |-> IF Named(ws, h) THEN Append(f[h], n) ELSE f[h]]
  BY DEF Append1, Named
<1> HIDE DEF g
<1>2. ASSUME NEW h \in Hooks
      PROVE  /\ g[h] \in Seq(Nat)
             /\ ~Named(ws, h) => g[h] = f[h]
             /\ Named(ws, h) => Longer(g[h], f[h], n)
  <2>1. f[h] \in Seq(Nat) /\ Len(f[h]) \in Nat /\ DOMAIN f[h] = 1 .. Len(f[h])
    OBVIOUS
  <2>2. CASE Named(ws, h)
    <3>1. g[h] = Append(f[h], n)
      BY <1>1, <2>2
    <3>2. g[h] \in Seq(Nat) /\ Longer(g[h], f[h], n)
      BY <2>1, <3>1 DEF Longer
    <3>3. QED BY <2>2, <3>2
  <2>3. CASE ~Named(ws, h)
    BY <1>1, <2>1, <2>3
  <2>4. QED BY <2>2, <2>3
<1>3. g \in [Hooks -> Seq(Nat)]
  BY <1>1, <1>2
<1>4. QED BY <1>2, <1>3 DEF g

\* handle_event begins: the oldest event, newer than any that was sent.
LEMMA TakeStep ==
  ASSUME NamedOnce, QueueInv, TakeEvent, UNCHANGED <<program, tls, webhooks>>
  PROVE  QueueInv'
<1> DEFINE event == Head(mail.queue)
           n == event.n
           subs == Subscribers(event.kind)
<1>1. /\ job = Free /\ mail.queue # <<>>
      /\ job' = IF subs = <<>> THEN Free ELSE [event |-> event, subs |-> subs]
      /\ due' = Append1(due, subs, n)
      /\ mail' = [mail EXCEPT !.queue = Tail(mail.queue)]
      /\ sent' = sent /\ program' = program /\ tls' = tls /\ webhooks' = webhooks
  BY DEF TakeEvent
<1>2. /\ mail \in Mail /\ mail.queue \in Seq(Event) /\ webhooks \in WebhookLists
      /\ due \in [Hooks -> Seq(Nat)] /\ sent \in [Hooks -> Seq(Nat)]
      /\ MailOrder(mail) /\ TakenBefore(mail)
  BY DEF QueueInv, QueueType, Mail
<1>3. /\ event \in Event /\ event = mail.queue[1] /\ 1 \in DOMAIN mail.queue
      /\ Tail(mail.queue) \in Seq(Event)
      /\ \A i \in DOMAIN Tail(mail.queue) :
           i + 1 \in DOMAIN mail.queue /\ Tail(mail.queue)[i] = mail.queue[i + 1]
           /\ i \in Nat /\ 1 < i + 1
  BY <1>1, <1>2
<1>4. n \in Nat
  BY <1>3 DEF Event
<1>5. /\ subs \in Seq(Webhook)
      /\ \A i \in DOMAIN subs : \E k \in DOMAIN webhooks : subs[i] = webhooks[k]
      /\ \A i, j \in DOMAIN subs : subs[i].name = subs[j].name => i = j
  BY <1>2, SubscribersNamed
<1> HIDE DEF event, subs
<1>6. /\ mail'.queue = Tail(mail.queue) /\ mail'.emitted = mail.emitted
      /\ mail'.dropped = mail.dropped /\ mail' \in Mail
  BY <1>1, <1>2, <1>3 DEF Mail
<1>7. /\ due' \in [Hooks -> Seq(Nat)]
      /\ \A h \in Hooks : ~Named(subs, h) => due'[h] = due[h]
      /\ \A h \in Hooks : Named(subs, h) => Longer(due'[h], due[h], n)
  <2> HIDE DEF n
  <2>1. due \in [Hooks -> Seq(Nat)] /\ subs \in Seq(Webhook) /\ n \in Nat
        /\ due' = Append1(due, subs, n)
    BY <1>1, <1>2, <1>4, <1>5
  <2>2. /\ Append1(due, subs, n) \in [Hooks -> Seq(Nat)]
        /\ \A h \in Hooks : ~Named(subs, h) => Append1(due, subs, n)[h] = due[h]
        /\ \A h \in Hooks : Named(subs, h) =>
             Longer(Append1(due, subs, n)[h], due[h], n)
    BY <2>1, Appended
  <2>3. QED BY <2>1, <2>2
<1>8. job'.subs = subs /\ (subs # <<>> => job'.event.n = n) /\ job' \in Job
      /\ (job' = Free \/ subs # <<>>)
  <2>1. CASE subs = <<>>
    BY <1>1, <2>1 DEF Free, NoEvent, Job
  <2>2. CASE subs # <<>>
    BY <1>1, <1>3, <1>5, <2>2 DEF Job, Event
  <2>3. QED BY <2>1, <2>2
\* The lists of what is due: longer, by n or not at all.
<1>9. ASSUME NEW h \in Hooks
      PROVE  /\ \A j \in DOMAIN due'[h] :
                  \/ j \in DOMAIN due[h] /\ due'[h][j] = due[h][j]
                  \/ Named(subs, h) /\ due'[h][j] = n
             /\ \A j \in DOMAIN due[h] : j \in DOMAIN due'[h] /\ due'[h][j] = due[h][j]
             /\ Named(subs, h) => \E j \in DOMAIN due'[h] : due'[h][j] = n
  <2>1. CASE Named(subs, h)
    BY <1>7, <2>1 DEF Longer
  <2>2. CASE ~Named(subs, h)
    BY <1>7, <2>2
  <2>3. QED BY <2>1, <2>2
<1>10. ASSUME NEW h \in Hooks
       PROVE  /\ \A j \in DOMAIN due[h] : due[h][j] \in Nat /\ due[h][j] < n
              /\ \A j \in DOMAIN sent[h] : sent[h][j] < n
  <2>1. \A j \in DOMAIN due[h] : due[h][j] < n
    BY <1>2, <1>3 DEF TakenBefore
  <2>2. \A j \in DOMAIN sent[h] : sent[h][j] < n
    BY <2>1 DEF QueueInv, SentInv
  <2>3. \A j \in DOMAIN due[h] : due[h][j] \in Nat
    BY <1>2
  <2>4. QED BY <2>1, <2>2, <2>3
<1>11. \A i \in DOMAIN subs : subs[i].name \in Hooks /\ Named(subs, subs[i].name)
  <2>1. \A i \in DOMAIN subs : subs[i] \in Webhook
    BY <1>5
  <2>2. QED BY <2>1 DEF Named, Webhook
<1>12. QueueType'
  BY <1>1, <1>2, <1>6, <1>7, <1>8 DEF QueueInv, QueueType
<1>13. MailOrder(mail)'
  <2>1. ASSUME NEW i \in DOMAIN mail'.queue, NEW j \in DOMAIN mail'.queue, i < j
        PROVE  mail'.queue[i].n < mail'.queue[j].n
    <3>1. i + 1 \in DOMAIN mail.queue /\ j + 1 \in DOMAIN mail.queue /\ i + 1 < j + 1
          /\ mail'.queue[i] = mail.queue[i + 1] /\ mail'.queue[j] = mail.queue[j + 1]
      BY <1>3, <1>6, <2>1
    <3>2. QED BY <1>2, <3>1 DEF MailOrder
  <2>2. ASSUME NEW i \in DOMAIN mail'.queue PROVE mail'.queue[i].n <= mail'.emitted
    BY <1>2, <1>3, <1>6 DEF MailOrder
  <2>3. QED BY <2>1, <2>2 DEF MailOrder
<1>14. TakenBefore(mail)'
  <2>1. ASSUME NEW h \in Hooks, NEW j \in DOMAIN due'[h]
        PROVE  /\ due'[h][j] <= mail'.emitted
               /\ \A i \in DOMAIN mail'.queue : due'[h][j] < mail'.queue[i].n
    <3>1. CASE j \in DOMAIN due[h] /\ due'[h][j] = due[h][j]
      BY <1>2, <1>3, <1>6, <3>1 DEF TakenBefore
    <3>2. CASE due'[h][j] = n
      <4>1. n <= mail.emitted
        BY <1>2, <1>3 DEF MailOrder
      <4>2. ASSUME NEW i \in DOMAIN mail'.queue PROVE n < mail'.queue[i].n
        BY <1>2, <1>3, <1>6 DEF MailOrder
      <4>3. QED BY <1>6, <3>2, <4>1, <4>2
    <3>3. QED BY <1>9, <3>1, <3>2
  <2>2. QED BY <2>1 DEF TakenBefore
<1>15. JobInv'
  <2>1. \A i \in DOMAIN subs : \E ws \in WebhookLists : \E k \in DOMAIN ws : subs[i] = ws[k]
    BY <1>2, <1>5
  <2>2. ASSUME NEW i \in DOMAIN subs
        PROVE  /\ \E j \in DOMAIN due'[subs[i].name] : due'[subs[i].name][j] = job'.event.n
               /\ \A j \in DOMAIN sent'[subs[i].name] :
                    sent'[subs[i].name][j] < job'.event.n
    <3>1. subs # <<>> /\ job'.event.n = n
      BY <1>5, <1>8
    <3>2. QED BY <1>1, <1>9, <1>10, <1>11, <3>1
  <2>3. QED BY <1>5, <1>8, <2>1, <2>2 DEF JobInv
<1>16. SentInv'
  <2>1. ASSUME NEW h \in Hooks, NEW i \in DOMAIN sent[h]
        PROVE  \E j \in DOMAIN due'[h] : due'[h][j] = sent[h][i]
    <3>1. PICK j \in DOMAIN due[h] : due[h][j] = sent[h][i]
      BY DEF QueueInv, SentInv
    <3>2. QED BY <1>9, <3>1
  <2>2. \A h \in Hooks : Increasing(sent[h])
    BY DEF QueueInv, SentInv
  <2>3. QED BY <1>1, <2>1, <2>2 DEF SentInv
<1>17. PendingInv'
  <2>1. ASSUME NEW h \in Hooks, Served(h)', NEW j \in DOMAIN due'[h]
        PROVE  \/ due'[h][j] \in mail'.dropped
               \/ \E i \in DOMAIN sent'[h] : sent'[h][i] = due'[h][j]
               \/ /\ due'[h][j] = job'.event.n
                  /\ \E i \in DOMAIN job'.subs : job'.subs[i].name = h
    <3>1. Served(h)
      BY <1>1, <2>1, ServedFixed
    <3>2. job.subs = <<>>
      BY <1>1 DEF Free
    <3>3. CASE j \in DOMAIN due[h] /\ due'[h][j] = due[h][j]
      <4>1. due[h][j] \in mail.dropped \/ \E i \in DOMAIN sent[h] : sent[h][i] = due[h][j]
        BY <3>1, <3>2, <3>3 DEF QueueInv, PendingInv
      <4>2. QED BY <1>1, <1>6, <3>3, <4>1
    <3>4. CASE Named(subs, h) /\ due'[h][j] = n
      <4>1. PICK i \in DOMAIN subs : subs[i].name = h
        BY <3>4 DEF Named
      <4>2. subs # <<>>
        BY <1>5, <4>1
      <4>3. QED BY <1>8, <3>4, <4>1, <4>2
    <3>5. QED BY <1>9, <3>3, <3>4
  <2>2. QED BY <2>1 DEF PendingInv
<1>18. QED BY <1>12, <1>13, <1>14, <1>15, <1>16, <1>17 DEF QueueInv

\* post or deliver: one request to the first of the receivers to come.
LEMMA PostStep ==
  ASSUME QueueInv, NEW ok \in BOOLEAN, PostNext(ok),
         UNCHANGED <<program, tls, webhooks>>
  PROVE  QueueInv'
<1> DEFINE w == Head(job.subs)
           n == job.event.n
           rest == Tail(job.subs)
<1>1. /\ job # Free
      /\ sent' = IF GoesOut(w) THEN Append1(sent, <<w>>, n) ELSE sent
      /\ job' = IF Len(job.subs) = 1 THEN Free ELSE [job EXCEPT !.subs = rest]
      /\ mail' = mail /\ due' = due
      /\ program' = program /\ tls' = tls /\ webhooks' = webhooks
  BY DEF PostNext, AfterPost
<1>2. /\ job \in Job /\ job.subs \in Seq(Webhook) /\ job.subs # <<>> /\ n \in Nat
      /\ due \in [Hooks -> Seq(Nat)] /\ sent \in [Hooks -> Seq(Nat)]
  BY <1>1 DEF QueueInv, QueueType, JobInv, Job
<1>3. /\ rest \in Seq(Webhook) /\ w = job.subs[1] /\ 1 \in DOMAIN job.subs /\ w \in Webhook
      /\ \A i \in DOMAIN rest : i + 1 \in DOMAIN job.subs /\ rest[i] = job.subs[i + 1]
                                /\ i \in Nat /\ i + 1 # 1
      /\ \A i \in DOMAIN job.subs : i # 1 => \E k \in DOMAIN rest : rest[k] = job.subs[i]
  <2>1. /\ Len(job.subs) \in Nat /\ Len(job.subs) >= 1
        /\ DOMAIN job.subs = 1 .. Len(job.subs)
        /\ rest \in Seq(Webhook) /\ DOMAIN rest = 1 .. (Len(job.subs) - 1)
        /\ \A k \in 1 .. (Len(job.subs) - 1) : rest[k] = job.subs[k + 1]
        /\ w = job.subs[1]
    BY <1>2
  <2>2. ASSUME NEW i \in DOMAIN job.subs, i # 1
        PROVE  \E k \in DOMAIN rest : rest[k] = job.subs[i]
    <3>1. i - 1 \in DOMAIN rest /\ (i - 1) + 1 = i
      BY <2>1, <2>2
    <3>2. QED BY <2>1, <3>1
  <2> HIDE DEF rest, w
  <2>3. 1 \in DOMAIN job.subs /\ w \in Webhook
    BY <1>2, <2>1
  <2>4. ASSUME NEW i \in DOMAIN rest
        PROVE  i + 1 \in DOMAIN job.subs /\ rest[i] = job.subs[i + 1]
               /\ i \in Nat /\ i + 1 # 1
    BY <2>1
  <2>5. QED BY <2>1, <2>2, <2>3, <2>4
<1>4. job'.subs = rest /\ (rest # <<>> => job'.event.n = n) /\ job' \in Job
      /\ (job' = Free \/ rest # <<>>)
  <2>0. Len(rest) = Len(job.subs) - 1 /\ Len(job.subs) \in Nat
    BY <1>2
  <2> HIDE DEF rest
  <2>1. CASE Len(job.subs) = 1
    <3>1. rest = <<>>
      BY <1>3, <2>0, <2>1
    <3>2. QED BY <1>1, <2>1, <3>1 DEF Free, NoEvent, Job
  <2>2. CASE Len(job.subs) # 1
    <3>1. rest # <<>>
      <4>1. Len(<<>>) = 0
        OBVIOUS
      <4>2. Len(rest) # 0
        BY <2>0, <2>2
      <4>3. QED BY <4>1, <4>2
    <3>2. job' = [job EXCEPT !.subs = rest]
      BY <1>1, <2>2
    <3>3. job'.subs = rest /\ job'.event = job.event /\ job' \in Job
      BY <1>2, <1>3, <3>2 DEF Job
    <3>4. QED BY <3>1, <3>3
  <2>3. QED BY <2>1, <2>2
<1> HIDE DEF rest, w, n
<1>5. w.name \in Hooks
  BY <1>3 DEF Webhook
\* What was sent: longer by n for this receiver, if the request goes out.
<1>6. /\ sent' \in [Hooks -> Seq(Nat)]
      /\ \A h \in Hooks : h # w.name \/ ~GoesOut(w) => sent'[h] = sent[h]
      /\ GoesOut(w) => Longer(sent'[w.name], sent[w.name], n)
  <2>1. CASE GoesOut(w)
    <3>1. <<w>> \in Seq(Webhook) /\ DOMAIN <<w>> = {1} /\ <<w>>[1] = w
      BY <1>3
    <3>2. \A h \in Hooks : Named(<<w>>, h) <=> h = w.name
      BY <3>1 DEF Named
    <3>3. sent' = Append1(sent, <<w>>, n)
      BY <1>1, <2>1
    <3>4. /\ Append1(sent, <<w>>, n) \in [Hooks -> Seq(Nat)]
          /\ \A h \in Hooks : ~Named(<<w>>, h) => Append1(sent, <<w>>, n)[h] = sent[h]
          /\ \A h \in Hooks : Named(<<w>>, h) =>
               Longer(Append1(sent, <<w>>, n)[h], sent[h], n)
      BY <1>2, <3>1, Appended
    <3>5. QED BY <1>5, <2>1, <3>2, <3>3, <3>4
  <2>2. CASE ~GoesOut(w)
    BY <1>1, <1>2, <2>2
  <2>3. QED BY <2>1, <2>2
<1>7. /\ \E j \in DOMAIN due[w.name] : due[w.name][j] = n
      /\ \A j \in DOMAIN sent[w.name] : sent[w.name][j] < n
  BY <1>3 DEF QueueInv, JobInv, n
<1>8. QueueType' /\ MailOrder(mail)' /\ TakenBefore(mail)'
  BY <1>1, <1>4, <1>6 DEF QueueInv, QueueType, MailOrder, TakenBefore
<1>9. JobInv'
  <2>1. ASSUME NEW i \in DOMAIN rest, NEW j \in DOMAIN rest, rest[i].name = rest[j].name
        PROVE  i = j
    <3>1. i + 1 = j + 1 /\ i \in Nat /\ j \in Nat
      BY <1>3, <2>1 DEF QueueInv, JobInv
    <3>2. QED BY <3>1
  <2>2. ASSUME NEW i \in DOMAIN rest
        PROVE  /\ \E ws \in WebhookLists : \E k \in DOMAIN ws : rest[i] = ws[k]
               /\ \E j \in DOMAIN due'[rest[i].name] : due'[rest[i].name][j] = job'.event.n
               /\ \A j \in DOMAIN sent'[rest[i].name] :
                    sent'[rest[i].name][j] < job'.event.n
    <3>1. i + 1 \in DOMAIN job.subs /\ rest[i] = job.subs[i + 1] /\ i + 1 # 1
      BY <1>3
    <3>2. rest[i].name # w.name /\ rest[i].name \in Hooks
      <4>1. rest[i].name # w.name
        BY <1>3, <3>1 DEF QueueInv, JobInv
      <4>2. rest[i] \in Webhook
        BY <1>3
      <4>3. QED BY <4>1, <4>2 DEF Webhook
    <3>3. sent'[rest[i].name] = sent[rest[i].name]
      BY <1>6, <3>2
    <3>4. rest # <<>> /\ job'.event.n = n
      BY <1>3, <1>4
    <3>5. /\ \E ws \in WebhookLists : \E k \in DOMAIN ws : rest[i] = ws[k]
          /\ \E j \in DOMAIN due[rest[i].name] : due[rest[i].name][j] = n
          /\ \A j \in DOMAIN sent[rest[i].name] : sent[rest[i].name][j] < n
      <4>1. /\ \E ws \in WebhookLists : \E k \in DOMAIN ws : job.subs[i + 1] = ws[k]
            /\ \E j \in DOMAIN due[job.subs[i + 1].name] :
                 due[job.subs[i + 1].name][j] = n
            /\ \A j \in DOMAIN sent[job.subs[i + 1].name] :
                 sent[job.subs[i + 1].name][j] < n
        BY <3>1 DEF QueueInv, JobInv, n
      <4>2. QED BY <3>1, <4>1
    <3>6. QED BY <1>1, <3>3, <3>4, <3>5
  <2>3. QED BY <1>4, <2>1, <2>2 DEF JobInv
<1>10. SentInv'
  <2>1. ASSUME NEW h \in Hooks
        PROVE  /\ Increasing(sent'[h])
               /\ \A i \in DOMAIN sent'[h] : \E j \in DOMAIN due[h] : due[h][j] = sent'[h][i]
    <3>1. /\ Increasing(sent[h])
          /\ \A i \in DOMAIN sent[h] : \E j \in DOMAIN due[h] : due[h][j] = sent[h][i]
      BY DEF QueueInv, SentInv
    <3>2. CASE h # w.name \/ ~GoesOut(w)
      BY <1>6, <3>1, <3>2
    <3>3. CASE h = w.name /\ GoesOut(w)
      <4>1. Longer(sent'[h], sent[h], n)
        BY <1>6, <3>3
      <4>2. DOMAIN sent[h] = 1 .. Len(sent[h]) /\ Len(sent[h]) \in Nat
        BY <1>2
      <4>3. ASSUME NEW i \in DOMAIN sent'[h], NEW j \in DOMAIN sent'[h], i < j
            PROVE  sent'[h][i] < sent'[h][j]
        <5>1. i \in DOMAIN sent[h] /\ sent'[h][i] = sent[h][i]
          BY <4>1, <4>2, <4>3 DEF Longer
        <5>2. CASE j \in DOMAIN sent[h]
          BY <3>1, <4>1, <4>3, <5>1, <5>2 DEF Longer, Increasing
        <5>3. CASE j = Len(sent[h]) + 1
          BY <1>7, <3>3, <4>1, <5>1, <5>3 DEF Longer
        <5>4. QED BY <4>1, <5>2, <5>3 DEF Longer
      <4>4. ASSUME NEW i \in DOMAIN sent'[h]
            PROVE  \E j \in DOMAIN due[h] : due[h][j] = sent'[h][i]
        BY <1>7, <3>1, <3>3, <4>1 DEF Longer
      <4>5. QED BY <4>3, <4>4 DEF Increasing
    <3>4. QED BY <3>2, <3>3
  <2>2. QED BY <1>1, <2>1 DEF SentInv
<1>11. PendingInv'
  <2>1. ASSUME NEW h \in Hooks, Served(h)', NEW j \in DOMAIN due[h]
        PROVE  \/ due[h][j] \in mail.dropped
               \/ \E i \in DOMAIN sent'[h] : sent'[h][i] = due[h][j]
               \/ due[h][j] = job'.event.n /\ \E i \in DOMAIN rest : rest[i].name = h
    <3>1. Served(h)
      BY <1>1, <2>1, ServedFixed
    <3>2. \/ due[h][j] \in mail.dropped
          \/ \E i \in DOMAIN sent[h] : sent[h][i] = due[h][j]
          \/ due[h][j] = n /\ \E i \in DOMAIN job.subs : job.subs[i].name = h
      BY <3>1 DEF QueueInv, PendingInv, n
    <3>3. \A i \in DOMAIN sent[h] : i \in DOMAIN sent'[h] /\ sent'[h][i] = sent[h][i]
      <4>1. CASE h # w.name \/ ~GoesOut(w)
        BY <1>6, <4>1
      <4>2. CASE h = w.name /\ GoesOut(w)
        BY <1>6, <4>2 DEF Longer
      <4>3. QED BY <4>1, <4>2
    <3>4. CASE \E i \in DOMAIN sent[h] : sent[h][i] = due[h][j]
      BY <3>3, <3>4
    <3>5. ASSUME NEW i \in DOMAIN job.subs, job.subs[i].name = h, due[h][j] = n
          PROVE  \/ \E k \in DOMAIN sent'[h] : sent'[h][k] = due[h][j]
                 \/ due[h][j] = job'.event.n /\ \E k \in DOMAIN rest : rest[k].name = h
      <4>1. CASE i = 1
        <5>1. w.name = h
          BY <1>3, <3>5, <4>1
        <5>2. \E ws \in WebhookLists : \E k \in DOMAIN ws : w = ws[k]
          BY <1>3 DEF QueueInv, JobInv
        <5>3. GoesOut(w)
          BY <3>1, <5>1, <5>2 DEF Served
        <5>4. QED BY <1>6, <3>5, <5>1, <5>3 DEF Longer
      <4>2. CASE i # 1
        <5>1. PICK k \in DOMAIN rest : rest[k] = job.subs[i]
          BY <1>3, <4>2
        <5>2. rest # <<>>
          BY <1>3, <5>1
        <5>3. QED BY <1>4, <3>5, <5>1, <5>2
      <4>3. QED BY <4>1, <4>2
    <3>6. QED BY <3>2, <3>4, <3>5
  <2>2. QED BY <1>1, <1>4, <2>1 DEF PendingInv
<1>12. QED BY <1>8, <1>9, <1>10, <1>11 DEF QueueInv

\* A reset: what was in the queue or under way is dropped.
LEMMA QueueResetStep == ASSUME QueueInv, NEW why, Reset(why) PROVE QueueInv'
<1> DEFINE lost == {mail.queue[i].n : i \in DOMAIN mail.queue}
                   \cup (IF job = Free THEN {} ELSE {job.event.n})
<1>1. /\ mail' = [mail EXCEPT !.queue = <<>>, !.dropped = mail.dropped \cup lost]
      /\ job' = Free /\ sent' = sent /\ due' = due
      /\ program' = program /\ tls' = tls /\ webhooks' = webhooks
  BY DEF Reset, QueueReset, fixed
<1>2. mail \in Mail /\ mail.queue \in Seq(Event) /\ job \in Job
  BY DEF QueueInv, QueueType, Mail
<1>3. lost \subseteq Nat
  <2>1. \A i \in DOMAIN mail.queue : mail.queue[i] \in Event
    BY <1>2
  <2>2. \A i \in DOMAIN mail.queue : mail.queue[i].n \in Nat
    BY <2>1 DEF Event
  <2>3. job.event.n \in Nat
    BY <1>2 DEF Job
  <2>4. QED BY <2>2, <2>3
<1>4. job # Free => job.event.n \in lost
  OBVIOUS
<1> HIDE DEF lost
<1>5. mail'.queue = <<>> /\ mail'.emitted = mail.emitted
      /\ mail'.dropped = mail.dropped \cup lost /\ mail' \in Mail
  <2>1. mail' = [queue |-> <<>>, emitted |-> mail.emitted,
                 dropped |-> mail.dropped \cup lost]
    BY <1>1, <1>2 DEF Mail
  <2>2. <<>> \in Seq(Event)
    OBVIOUS
  <2>3. QED BY <1>2, <1>3, <2>1, <2>2 DEF Mail
<1>6. job'.subs = <<>> /\ job' \in Job
  BY <1>1 DEF Free, NoEvent, Job
<1>7. QueueType'
  BY <1>1, <1>5, <1>6 DEF QueueInv, QueueType
<1>8. MailOrder(mail)' /\ TakenBefore(mail)'
  BY <1>1, <1>5 DEF QueueInv, MailOrder, TakenBefore
<1>9. JobInv' /\ SentInv'
  BY <1>1, <1>6 DEF QueueInv, JobInv, SentInv
<1>10. PendingInv'
  <2>1. ASSUME NEW h \in Hooks, Served(h)', NEW j \in DOMAIN due[h]
        PROVE  \/ due[h][j] \in mail'.dropped
               \/ \E i \in DOMAIN sent[h] : sent[h][i] = due[h][j]
    <3>1. Served(h)
      BY <1>1, <2>1, ServedFixed
    <3>2. \/ due[h][j] \in mail.dropped
          \/ \E i \in DOMAIN sent[h] : sent[h][i] = due[h][j]
          \/ due[h][j] = job.event.n /\ \E i \in DOMAIN job.subs : job.subs[i].name = h
      BY <3>1 DEF QueueInv, PendingInv
    <3>3. job = Free => job.subs = <<>>
      BY DEF Free
    <3>4. QED BY <1>4, <1>5, <3>2, <3>3
  <2>2. QED BY <1>1, <2>1 DEF PendingInv
<1>11. QED BY <1>7, <1>8, <1>9, <1>10 DEF QueueInv

\* What all the rest does to the queue: it emits, or writes the webhooks, or
\* neither.
LEMMA EmitterStep ==
  ASSUME QueueInv,
         \/ \E ok \in BOOLEAN : MainLoop(ok)
         \/ Tick \/ Clear \/ Write
         \/ \E kind \in TestKinds : WebhooksTest(kind)
         \/ OtaBegins \/ OtaFails \/ OtaCompletes \/ WriteImageCompletes
         \/ WifiChanges \/ HeapLow \/ UNCHANGED vars
  PROVE  QueueInv'
<1>1. /\ program' = program /\ tls' = tls /\ job' = job /\ sent' = sent /\ due' = due
      /\ webhooks' = webhooks \/ webhooks' \in WebhookLists
  BY DEF MainLoop, Tick, TickSnapshot, TickUpdate, TickEmit, Clear, ClearRead,
         ClearUpdate, ClearEmit, Write, ReplaceWebhooks, ReplaceEmit, WebhooksTest,
         OtaBegins, OtaFails, OtaCompletes, WriteImageCompletes, WifiChanges,
         HeapLow, vars, queueVars, fixed
<1>2. \/ mail' = mail
      \/ \E k \in Events : mail' = Emitted(mail, k)
      \/ \E k, l \in Events : mail' = Emitted(Emitted(mail, k), l)
  <2>1. ASSUME NEW ok \in BOOLEAN, MainLoop(ok)
        PROVE  \/ mail' = mail
               \/ \E k \in Events : mail' = Emitted(mail, k)
               \/ \E k, l \in Events : mail' = Emitted(Emitted(mail, k), l)
    <3>1. BootKind \in Events /\ "ota.completed" \in Events
      BY DEF BootKind, Events
    <3>2. \/ mail' = mail
          \/ mail' = Emitted(mail, BootKind)
          \/ mail' = Emitted(mail, "ota.completed")
          \/ mail' = Emitted(Emitted(mail, BootKind), "ota.completed")
      BY <2>1 DEF MainLoop
    <3>3. QED BY <3>1, <3>2
  <2>2. CASE Tick
    <3>1. mail' = mail \/ mail' = Emitted(mail, "flow_alarm.fire")
      BY <2>2 DEF Tick, TickSnapshot, TickUpdate, TickEmit, queueVars
    <3>2. QED BY <3>1 DEF Events
  <2>3. CASE Clear
    <3>1. mail' = mail \/ mail' = Emitted(mail, "flow_alarm.clear")
      BY <2>3 DEF Clear, ClearRead, ClearUpdate, ClearEmit, queueVars
    <3>2. QED BY <3>1 DEF Events
  <2>4. CASE Write
    <3>1. mail' = mail \/ mail' = Emitted(mail, "config.changed")
      BY <2>4 DEF Write, ReplaceWebhooks, ReplaceEmit, queueVars
    <3>2. QED BY <3>1 DEF Events
  <2>5. ASSUME NEW kind \in TestKinds, WebhooksTest(kind)
        PROVE  \E k \in Events : mail' = Emitted(mail, k)
    BY <2>5, EventsAssumption DEF WebhooksTest
  <2>6. CASE OtaBegins \/ OtaFails \/ OtaCompletes \/ WriteImageCompletes
             \/ WifiChanges \/ HeapLow \/ UNCHANGED vars
    BY <2>6 DEF OtaBegins, OtaFails, OtaCompletes, WriteImageCompletes, WifiChanges,
                HeapLow, vars, queueVars
  <2>7. QED BY <2>1, <2>2, <2>3, <2>4, <2>5, <2>6
<1>3. /\ mail \in Mail /\ MailOrder(mail) /\ TakenBefore(mail)
      /\ due \in [Hooks -> Seq(Nat)] /\ webhooks \in WebhookLists
  BY DEF QueueInv, QueueType
<1>4. /\ mail' \in Mail /\ MailOrder(mail') /\ TakenBefore(mail')
      /\ mail.dropped \subseteq mail'.dropped
  <2>1. CASE mail' = mail
    BY <1>3, <2>1
  <2>2. ASSUME NEW k \in Events
        PROVE  /\ Emitted(mail, k) \in Mail
               /\ MailOrder(Emitted(mail, k)) /\ TakenBefore(Emitted(mail, k))
               /\ mail.dropped \subseteq Emitted(mail, k).dropped
    BY <1>3, EmittedLast
  <2>3. ASSUME NEW k \in Events, NEW l \in Events, mail' = Emitted(Emitted(mail, k), l)
        PROVE  /\ mail' \in Mail /\ MailOrder(mail') /\ TakenBefore(mail')
               /\ mail.dropped \subseteq mail'.dropped
    <3> DEFINE m == Emitted(mail, k)
    <3>1. m \in Mail /\ MailOrder(m) /\ TakenBefore(m) /\ mail.dropped \subseteq m.dropped
      BY <2>2
    <3> HIDE DEF m
    <3>2. /\ Emitted(m, l) \in Mail
          /\ MailOrder(Emitted(m, l)) /\ TakenBefore(Emitted(m, l))
          /\ m.dropped \subseteq Emitted(m, l).dropped
      BY <1>3, <3>1, EmittedLast
    <3>3. mail' = Emitted(m, l)
      BY <2>3 DEF m
    <3>4. QED BY <3>1, <3>2, <3>3
  <2>4. QED BY <1>2, <2>1, <2>2, <2>3
<1>5. MailOrder(mail)' /\ TakenBefore(mail)'
  BY <1>1, <1>4 DEF MailOrder, TakenBefore
<1>6. QED BY <1>1, <1>3, <1>4, <1>5, ProducerStep

LEMMA WorkerStep == ASSUME NamedOnce, QueueInv, Worker PROVE QueueInv'
<1>1. UNCHANGED <<program, tls, webhooks>>
  BY DEF Worker, fixed
<1>2. QED BY <1>1, TakeStep, PostStep DEF Worker

(* Every receiver is sent each event it was subscribed to when the worker  *)
(* took it, once, in the order in which they were emitted, in all three    *)
(* programs: handle_event gives up no receiver for another's failure, and  *)
(* what is missing met a full queue, a reset, or a webhook that does not   *)
(* go out.                                                                 *)
THEOREM OnceAndInOrder == ASSUME NamedOnce PROVE Spec => []DeliveredOnce
<1>1. QueueInv /\ [Next]_vars => QueueInv'
  BY EmitterStep, WorkerStep, QueueResetStep DEF Next, OtaReboot, Crash
<1>2. QueueInv => DeliveredOnce
  <2> SUFFICES ASSUME QueueInv, NEW h \in Hooks
      PROVE  /\ Increasing(sent[h])
             /\ \A i \in DOMAIN sent[h] : \E j \in DOMAIN due[h] : due[h][j] = sent[h][i]
             /\ job = Free /\ Served(h)
                  => \A j \in DOMAIN due[h] :
                       \/ due[h][j] \in mail.dropped
                       \/ \E i \in DOMAIN sent[h] : sent[h][i] = due[h][j]
    BY DEF DeliveredOnce, Served
  <2>1. job = Free => job.subs = <<>>
    BY DEF Free
  <2>2. QED BY <2>1 DEF QueueInv, SentInv, PendingInv
<1>3. QED BY <1>1, <1>2, QueueInitially, PTL DEF Spec
=============================================================================
