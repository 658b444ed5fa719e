------------------------------ MODULE OtaSlots ------------------------------
(***************************************************************************)
(* Over-the-air update: the two application slots, the selection in        *)
(* otadata, the uploads into the slot that is not running, and the         *)
(* bootloader with its rollback.  The slot operations and the bootloader   *)
(* are the ESP-IDF's and esp-bootloader's (external); the handlers that    *)
(* drive them are those of POST /api/ota.                                  *)
(*                                                                         *)
(* An image is good, bad (it runs, but never gets onto the network) or     *)
(* torn (incomplete, or put together from two uploads).                    *)
(***************************************************************************)
EXTENDS Naturals

CONSTANTS
  Uploads,  \* the images that may be uploaded
  Clients   \* the connections that may upload at the same time

ASSUME UploadsAssumption == Uploads \subseteq {"good", "bad"}

VARIABLES
  image,    \* slot -> its image
  ota,      \* slot -> its state in otadata
  selected, \* the slot otadata selects
  running,  \* the slot that runs
  uploads   \* client -> the upload under way: its slot and image, and
            \* whether another one wrote to the slot meanwhile

slotVars == <<image, ota, selected, running, uploads>>

Slots == {0, 1}
Other(s) == 1 - s
NoUpload == [slot |-> 0, image |-> "none", mixed |-> FALSE]
NoUploads == [c \in Clients |-> NoUpload]

SlotsInit ==
  /\ image = [s \in Slots |-> IF s = 0 THEN "good" ELSE "torn"]
  /\ ota = [s \in Slots |-> IF s = 0 THEN "valid" ELSE "undefined"]
  /\ selected = 0
  /\ running = 0
  /\ uploads = NoUploads

\* Mutant of InactiveSlot: the slot after the selected one.
SlotAfterSelected == Other(selected)

\* initiate_update, inactive_slot: the slot that is not running.
InactiveSlot == Other(running)

Uploading == {c \in Clients : uploads[c] # NoUpload}

\* The std firmware: EspOta is taken by one upload at a time, and refuses to
\* start while the running image is unconfirmed.
Initiates == Uploading = {} /\ ota[running] # "pending"

\* The first writes: the slot no longer holds what it held.
UploadBegins(c, img) ==
  /\ uploads[c] = NoUpload
  /\ uploads' = [d \in Clients |->
       IF d = c THEN [slot |-> InactiveSlot, image |-> img, mixed |-> Uploading # {}]
       ELSE IF d \in Uploading THEN [uploads[d] EXCEPT !.mixed = TRUE]
       ELSE NoUpload]
  /\ image' = [image EXCEPT ![InactiveSlot] = "torn"]
  /\ UNCHANGED <<ota, selected, running>>

\* What an upload that has written all its sectors leaves in its slot.
Written(u) ==
  {[image EXCEPT ![u.slot] = i] : i \in {u.image} \cup (IF u.mixed THEN {"torn"} ELSE {})}

\* A read or a write fails, or the image is refused, or it cannot be
\* activated: the handler answers with an error and leaves the slot.
UploadFails(c) ==
  /\ uploads[c] # NoUpload
  /\ image' \in {image} \cup Written(uploads[c])
  /\ uploads' = [uploads EXCEPT ![c] = NoUpload]
  /\ UNCHANGED <<ota, selected, running>>

\* complete() selects the slot that was written; activate_inactive_slot the
\* one after the slot selected so far.  It is new there.
UploadCompletes(c, slot) ==
  /\ uploads[c] # NoUpload
  /\ image' \in Written(uploads[c])
  /\ ota' = [ota EXCEPT ![slot] = "new"]
  /\ selected' = slot
  /\ uploads' = [uploads EXCEPT ![c] = NoUpload]
  /\ UNCHANGED running

\* mark_app_valid: the running slot; confirm_running: otadata's selected entry.
MarkValid(o, s) == [o EXCEPT ![s] = "valid"]

-----------------------------------------------------------------------------
(* The bootloader: an image that was tried and not confirmed before the    *)
(* reset is given up, a new one is tried, and a slot without a whole image *)
(* is passed over.                                                         *)

NextSelected == IF ota[selected] = "pending" THEN Other(selected) ELSE selected

BootSlot ==
  IF image[NextSelected] # "torn" THEN NextSelected ELSE Other(NextSelected)

Booted ==
  [s \in Slots |->
     IF s = NextSelected /\ ota[s] = "new" THEN "pending"
     ELSE IF ota[s] = "pending" THEN "aborted"
     ELSE ota[s]]
=============================================================================
