----------------------------- MODULE RescueBoot -----------------------------
(***************************************************************************)
(* The one-shot rescue boot of the Kali Pi (RescueBootManager): an         *)
(* operator arms one boot in next-boot.json, the early service consumes    *)
(* it into active-boot.json, and the gadget service exports the active     *)
(* image.  The gadget only "Wants" the early service, so it starts when    *)
(* the early service failed as well.                                       *)
(*                                                                         *)
(* State files are replaced atomically (_write_json); what happens between *)
(* two of them is what the power can cut.  Faults says which faults occur: *)
(*   "tamper"    an image file changes after its import                    *)
(*   "damage"    next-boot.json is unreadable after a power cut            *)
(*   "writefail" a state file cannot be replaced (a full or failing card)  *)
(* Every arming has a number, which the code does not store: it is there   *)
(* to tell two armings of one image apart.                                 *)
(***************************************************************************)
EXTENDS Naturals, FiniteSets

CONSTANTS Images, Contents, NoImage, Faults, MaxArms, MaxBoots

ASSUME RescueAssumption == MaxArms \in Nat /\ MaxBoots \in Nat

VARIABLES
  registered,  \* images.json: the checksum an image was imported with
  stored,      \* the file in the image store: its content
  importing,   \* the images whose import has copied the file only
  pending,     \* next-boot.json
  active,      \* active-boot.json
  early,       \* where the early service is in this boot
  loaded,      \* the pending state it read
  chosen,      \* an arming under way: verified, not yet written
  exported,    \* the arming whose image the gadget shows
  boots, arms, \* bounded counters
  shown,       \* the boots in which each arming was exported
  failed,      \* the boots whose early service gave up before active-boot.json
  withdrawn    \* armings replaced while nobody had read them

rescueVars == <<registered, stored, importing, pending, active, early, loaded,
                chosen, exported, boots, arms, shown, failed, withdrawn>>
imageVars == <<registered, stored, importing>>
operatorVars == <<chosen, arms>>
bootVars == <<early, loaded, exported, boots, shown, failed>>

Arming == [image : Images, arm : 1..MaxArms]
Normal == [image |-> NoImage, arm |-> 0]
Damaged == [image |-> NoImage, arm |-> MaxArms + 1]
Pending == Arming \cup {Normal, Damaged}

RescueInit ==
  /\ registered = [i \in Images |-> NoImage]
  /\ stored = [i \in Images |-> NoImage]
  /\ importing = {}
  /\ pending = Normal /\ active = Normal /\ loaded = Normal
  /\ early = "done" /\ exported = Normal /\ chosen = Normal
  /\ boots = 0 /\ arms = 0
  /\ shown = [a \in 1..MaxArms |-> {}]
  /\ failed = {} /\ withdrawn = {}

-----------------------------------------------------------------------------
(* The image store.                                                        *)

(* _verify_image: the file is there and has the registered checksum.       *)
ImageMatches(i) == registered[i] # NoImage /\ stored[i] = registered[i]

(* import_image copies the file under its final name and registers its     *)
(* checksum in a second file.                                              *)
ImportCopies(i, content) ==
  /\ i \notin importing
  /\ stored' = [stored EXCEPT ![i] = content]
  /\ importing' = importing \cup {i}
  /\ UNCHANGED <<registered, pending, active, operatorVars, bootVars, withdrawn>>

(* The checksum it registers is that of the source, which the copy had.    *)
ImportRegisters(i, content) ==
  /\ i \in importing
  /\ registered' = [registered EXCEPT ![i] = content]
  /\ importing' = importing \ {i}
  /\ UNCHANGED <<stored, pending, active, operatorVars, bootVars, withdrawn>>

Tamper(i) ==
  /\ "tamper" \in Faults
  /\ \E content \in Contents \ {stored[i]} : stored' = [stored EXCEPT ![i] = content]
  /\ i \notin importing /\ registered[i] # NoImage
  /\ UNCHANGED <<registered, importing, pending, active, operatorVars, bootVars,
                 withdrawn>>

-----------------------------------------------------------------------------
(* The operator: the web server and the command line, at any time.         *)

(* What a writer of next-boot.json takes away before anybody read it.      *)
Unread == IF pending \in Arming /\ ~(loaded = pending /\ early # "done")
          THEN {pending.arm} ELSE {}

ArmSelects(i) ==
  /\ chosen = Normal /\ arms < MaxArms
  /\ ImageMatches(i)
  /\ arms' = arms + 1
  /\ chosen' = [image |-> i, arm |-> arms + 1]
  /\ UNCHANGED <<imageVars, pending, active, bootVars, withdrawn>>

ArmWrites ==
  /\ chosen # Normal
  /\ pending' = chosen
  /\ withdrawn' = withdrawn \cup Unread
  /\ chosen' = Normal
  /\ UNCHANGED <<imageVars, active, arms, bootVars>>

Cancel ==
  /\ pending # Normal
  /\ pending' = Normal
  /\ withdrawn' = withdrawn \cup Unread
  /\ UNCHANGED <<imageVars, active, operatorVars, bootVars>>

(* reboot_normal then removes the active state; cut off in between it is a *)
(* Cancel.  The reboot it may ask for is a PowerCut.                       *)
RebootNormal ==
  /\ pending # Normal \/ active # Normal
  /\ pending' = Normal
  /\ active' = Normal
  /\ withdrawn' = withdrawn \cup Unread
  /\ UNCHANGED <<imageVars, operatorVars, bootVars>>

(* An operator's replacement that fails restores the file and raises.      *)
RescueArmFails ==
  /\ "writefail" \in Faults
  /\ chosen # Normal
  /\ chosen' = Normal
  /\ UNCHANGED <<imageVars, pending, active, arms, bootVars, withdrawn>>

-----------------------------------------------------------------------------
(* The early service: consume_early_boot.                                  *)

ConsumeLoads ==
  /\ early = "load"
  /\ IF pending = Damaged
     THEN /\ pending' = Normal    \* "invalid-pending-state", then raises
          /\ early' = "done"
          /\ failed' = failed \cup {boots}
          /\ UNCHANGED loaded
     ELSE /\ loaded' = pending
          /\ early' = "reset"
          /\ UNCHANGED <<pending, failed>>
  /\ UNCHANGED <<imageVars, active, operatorVars, exported, boots, shown, withdrawn>>

ConsumeResets ==
  /\ early = "reset"
  /\ pending' = Normal
  /\ withdrawn' = IF pending = loaded THEN withdrawn ELSE withdrawn \cup Unread
  /\ early' = "record"
  /\ UNCHANGED <<imageVars, active, operatorVars, loaded, exported, boots, shown,
                 failed>>

(* A normal boot that leaves the active state in place.                    *)
ConsumeRecordsKeeping ==
  /\ early = "record"
  /\ active' = IF loaded # Normal /\ ImageMatches(loaded.image) THEN loaded ELSE active
  /\ early' = "done"
  /\ UNCHANGED <<imageVars, pending, operatorVars, loaded, exported, boots, shown,
                 failed, withdrawn>>

(* A normal boot removes the active state; a rescue boot writes it, or     *)
(* removes it when the image is not the registered one.                    *)
ConsumeRecords ==
  /\ early = "record"
  /\ active' = IF loaded # Normal /\ ImageMatches(loaded.image) THEN loaded ELSE Normal
  /\ early' = "done"
  /\ UNCHANGED <<imageVars, pending, operatorVars, loaded, exported, boots, shown,
                 failed, withdrawn>>

(* The reset of next-boot.json fails: the exception leaves before anything *)
(* else happens.  A failing write of active-boot.json removes it.          *)
ConsumeFails ==
  /\ "writefail" \in Faults
  /\ \/ early \in {"reset", "record"}
     \/ early = "load" /\ pending = Damaged
  /\ early' = "done"
  /\ active' = IF early = "record" THEN Normal ELSE active
  /\ failed' = IF early = "record" THEN failed ELSE failed \cup {boots}
  /\ UNCHANGED <<imageVars, pending, operatorVars, loaded, exported, boots, shown,
                 withdrawn>>

-----------------------------------------------------------------------------
(* External: systemd starts the gadget once per boot, after the early      *)
(* service ended either way; boxbrain-usb-composite.sh asks active_image.  *)

GadgetStarts ==
  /\ early = "done" /\ exported = Normal
  /\ active # Normal
  /\ ImageMatches(active.image)
  /\ exported' = active
  /\ shown' = [shown EXCEPT ![active.arm] = @ \cup {boots}]
  /\ UNCHANGED <<imageVars, pending, active, operatorVars, early, loaded, boots,
                 failed, withdrawn>>

(* The power fails, or somebody reboots, at any point.                     *)
PowerCut ==
  /\ boots < MaxBoots
  /\ boots' = boots + 1
  /\ early' = "load" /\ loaded' = Normal /\ exported' = Normal
  /\ chosen' = Normal /\ importing' = {}
  /\ \/ UNCHANGED pending
     \/ "damage" \in Faults /\ pending' = Damaged
  /\ UNCHANGED <<registered, stored, active, arms, shown, failed, withdrawn>>

RescueNext ==
  \/ \E i \in Images, c \in Contents : ImportCopies(i, c)
  \/ \E i \in importing : ImportRegisters(i, stored[i])
  \/ \E i \in Images : Tamper(i) \/ ArmSelects(i)
  \/ ArmWrites \/ RescueArmFails \/ Cancel \/ RebootNormal
  \/ ConsumeLoads \/ ConsumeResets \/ ConsumeRecords \/ ConsumeFails
  \/ GadgetStarts \/ PowerCut

RescueSpec == RescueInit /\ [][RescueNext]_rescueVars

-----------------------------------------------------------------------------
RescueTypeOK ==
  /\ registered \in [Images -> Contents \cup {NoImage}]
  /\ stored \in [Images -> Contents \cup {NoImage}]
  /\ importing \subseteq Images
  /\ pending \in Pending /\ loaded \in Arming \cup {Normal}
  /\ {active, chosen, exported} \subseteq Arming \cup {Normal}
  /\ early \in {"load", "reset", "record", "done"}
  /\ boots \in 0..MaxBoots /\ arms \in 0..MaxArms
  /\ shown \in [1..MaxArms -> SUBSET (1..MaxBoots)]
  /\ failed \subseteq 1..MaxBoots /\ withdrawn \subseteq 1..MaxArms

(* What the code keeps of it when its writes may fail: an arming is shown  *)
(* again only in a boot whose early service gave up, because its first     *)
(* write failed or next-boot.json could not be read, and left the active   *)
(* state of an earlier boot to the gadget.                                 *)
ShownOnceUnlessFailed == \A a \in 1..MaxArms : Cardinality(shown[a] \ failed) <= 1

(* An arming that was cancelled or replaced before a boot read it is never *)
(* shown, in no boot and by no interleaving with the early service.        *)
WithdrawnStays == \A a \in withdrawn : shown[a] = {}

(* The one-shot contract of the rescue boot with its types.                *)
RescueHolds == RescueTypeOK /\ ShownOnceUnlessFailed /\ WithdrawnStays
=============================================================================
