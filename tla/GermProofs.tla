----------------------------- MODULE GermProofs -----------------------------
(***************************************************************************)
(* What the guardian of the A/B slots keeps, for every value of the        *)
(* constants, however the commands of its processes overlap.               *)
(***************************************************************************)
EXTENDS GermGuardian, TLAPS

-----------------------------------------------------------------------------
(* What a command under way may still do to the disk                       *)

\* slots.json as restore-previous leaves it.
PreviousRestored(d) == [d EXCEPT !.active = d.previous, !.lkg = d.previous, !.previous = d.lkg]

\* A state a command has prepared from slots.json d, to be saved after a switch.
Prepared(next, d, im) ==
    \/ next = RolledBack(d)
    \/ d.trial # NONE /\ BootsLeft(d) /\ next = TrialBoot(d)
    \/ d.trial = NONE /\ d.previous # NONE /\ im[d.previous] # NONE /\ next = PreviousRestored(d)

\* A command about to switch the link, to save, in the health check, in a
\* regrow, and about to arm, over slots.json d and the slots im.
SwitchFits(c, d, im) ==
    c.at = "switch" =>
        /\ c.img = NONE
        /\ im[c.slot] # NONE
        /\ c.next = NONE => c.slot = d.active /\ d.trial = NONE
        /\ c.next # NONE => c.slot = c.next.active /\ Prepared(c.next, d, im)
SaveFits(c, d, im) ==
    c.at = "save" =>
        /\ c.img = NONE => Prepared(c.next, d, im)
        /\ c.img # NONE =>
             c.img = im[d.trial] /\ d.trial # NONE /\ d.active = d.trial /\ c.next = Promoted(d)
HealthFits(c, d, im) ==
    c.at = "health" =>
        c.next = d /\ d.trial # NONE /\ d.active = d.trial /\ c.img = im[d.trial]
RegrowFits(c, d) ==
    c.at \in {"snapshot", "install"} =>
        d.trial = NONE /\ c.slot \notin {d.active, d.lkg}
ArmFits(c, d, im) ==
    c.at = "armed" =>
        d.trial = NONE /\ c.slot \notin {d.active, d.lkg} /\ im[c.slot] # NONE
        /\ c.next = Armed(d, c.slot)
Fits(c, d, im) ==
    /\ SwitchFits(c, d, im) /\ SaveFits(c, d, im) /\ HealthFits(c, d, im)
    /\ RegrowFits(c, d) /\ ArmFits(c, d, im)

\* What is true of a command even when the disk has changed under it.
Sound(d) == d.active \in {d.lkg, d.trial} /\ d.trial # d.lkg
Shaped(c) ==
    /\ c.at \in {"switch", "snapshot", "install", "arm", "armed"} => c.slot # NONE
    /\ c.at \in {"save", "armed", "health"} => c.next # NONE
    /\ c.at = "health" => c.next.trial # NONE
    /\ c.next # NONE => Sound(c.next)

\* Commands run when the machine is up, the boot's own after the preflight.
Phases ==
    /\ \A p \in Processes :
          /\ Busy(p) => phase # "preflight" /\ (p # "boot" => phase = "up")
          /\ overtaken[p] => phase = "up"
    /\ cmd["boot"].at \notin {"snapshot", "install", "arm", "armed"}
    /\ cmd["boot"].at = "health" => phase = "up"

\* slots.json is one that the machine can boot from.
Bootable(d, im) ==
    im[d.lkg] # NONE /\ (d.trial # NONE => im[d.trial] # NONE)

\* Process p has moved the link and not yet saved slots.json.
Between(p) == cmd[p].at = "save" /\ cmd[p].img = NONE

\* The link is what slots.json says, unless a command is between its two writes
\* or the boot has not come to the switch.
LinkAgrees ==
    /\ \A p \in Processes :
          cmd[p].at = "save" /\ ~overtaken[p] =>
             \/ link = cmd[p].next.active
             \/ cmd[p].img # NONE /\ \E q \in Processes : Between(q)
    /\ phase # "preflight" /\ journal = "ok" =>
          \/ link = disk.active
          \/ \E q \in Processes : Between(q)
          \/ phase = "starting" /\ cmd["boot"].at = "switch"

\* A trial has come up no more often than slots.json counts, and the boot that
\* is about to come up is already counted.
BootsCounted ==
    disk.trial # NONE =>
        /\ runs <= disk.boots
        /\ phase = "starting" /\ journal = "ok" /\ ~Busy("boot") => runs < disk.boots

\* As long as no command has clashed, a command that was not overtaken fits
\* what is on the disk.
Agreement ==
    /\ Bootable(disk, image) /\ LinkAgrees /\ BootsCounted
    /\ \A p \in Processes : overtaken[p] \/ Fits(cmd[p], disk, image)

GermInv ==
    /\ GermTypeOK /\ Phases /\ Sound(disk)
    /\ \A p \in Processes : Shaped(cmd[p])
    /\ ~clash => Agreement

-----------------------------------------------------------------------------
(* Records                                                                 *)

\* Every state a command prepares is a slots.json, with these fields.
LEMMA NextStates ==
    ASSUME NEW d \in SlotState
    PROVE  /\ d.active \in Slots /\ d.lkg \in Slots /\ d.previous \in Slots \cup {NONE}
           /\ d.trial \in Slots \cup {NONE} /\ d.boots \in 0..MaxTrialBoots
           /\ d # NONE /\ NONE \notin Slots
           /\ RolledBack(d) \in SlotState
           /\ RolledBack(d).active = d.lkg /\ RolledBack(d).lkg = d.lkg
           /\ RolledBack(d).trial = NONE
           /\ d.trial # NONE /\ BootsLeft(d) =>
                /\ TrialBoot(d) \in SlotState
                /\ TrialBoot(d).active = d.trial /\ TrialBoot(d).lkg = d.lkg
                /\ TrialBoot(d).trial = d.trial /\ TrialBoot(d).boots = d.boots + 1
           /\ d.previous # NONE =>
                /\ PreviousRestored(d) \in SlotState
                /\ PreviousRestored(d).active = d.previous
                /\ PreviousRestored(d).lkg = d.previous
                /\ PreviousRestored(d).trial = d.trial
           /\ d.trial # NONE =>
                /\ Promoted(d) \in SlotState
                /\ Promoted(d).active = d.trial /\ Promoted(d).lkg = d.trial
                /\ Promoted(d).trial = NONE
           /\ \A s \in Slots :
                /\ Armed(d, s) \in SlotState
                /\ Armed(d, s).active = d.active /\ Armed(d, s).lkg = d.lkg
                /\ Armed(d, s).trial = s /\ Armed(d, s).boots = 0
<1>1. /\ d.active \in Slots /\ d.lkg \in Slots /\ d.previous \in Slots \cup {NONE}
      /\ d.trial \in Slots \cup {NONE} /\ d.boots \in 0..MaxTrialBoots
      /\ d # NONE /\ NONE \notin Slots /\ 0 \in 0..MaxTrialBoots
  BY NoneAssumption, GermAssumption DEF SlotState, Slots
<1> DEFINE none == 0
           next == d.boots + 1
<1>2. /\ RolledBack(d) \in SlotState
      /\ RolledBack(d).active = d.lkg /\ RolledBack(d).lkg = d.lkg
      /\ RolledBack(d).trial = NONE
  <2>1. /\ RolledBack(d) = [d EXCEPT !.active = d.lkg, !.trial = NONE, !.boots = none]
        /\ none \in 0..MaxTrialBoots
    BY <1>1 DEF RolledBack
  <2> HIDE DEF none
  <2> QED BY <1>1, <2>1 DEF SlotState
<1>3. ASSUME d.trial # NONE, BootsLeft(d)
      PROVE  /\ TrialBoot(d) \in SlotState
             /\ TrialBoot(d).active = d.trial /\ TrialBoot(d).lkg = d.lkg
             /\ TrialBoot(d).trial = d.trial /\ TrialBoot(d).boots = d.boots + 1
  <2>1. /\ TrialBoot(d) = [d EXCEPT !.active = d.trial, !.boots = next]
        /\ next \in 0..MaxTrialBoots /\ next = d.boots + 1
    BY <1>1, <1>3, GermAssumption DEF TrialBoot, BootsLeft
  <2> HIDE DEF next
  <2> QED BY <1>1, <1>3, <2>1 DEF SlotState
<1>4. ASSUME d.previous # NONE
      PROVE  /\ PreviousRestored(d) \in SlotState
             /\ PreviousRestored(d).active = d.previous
             /\ PreviousRestored(d).lkg = d.previous
             /\ PreviousRestored(d).trial = d.trial
  BY <1>1, <1>4 DEF PreviousRestored, SlotState
<1>5. ASSUME d.trial # NONE
      PROVE  /\ Promoted(d) \in SlotState
             /\ Promoted(d).active = d.trial /\ Promoted(d).lkg = d.trial
             /\ Promoted(d).trial = NONE
  <2>1. /\ Promoted(d) = [d EXCEPT !.previous = d.lkg, !.lkg = d.trial, !.active = d.trial,
                                    !.trial = NONE, !.boots = none]
        /\ none \in 0..MaxTrialBoots
    BY <1>1 DEF Promoted
  <2> HIDE DEF none
  <2> QED BY <1>1, <1>5, <2>1 DEF SlotState
<1>6. ASSUME NEW s \in Slots
      PROVE  /\ Armed(d, s) \in SlotState
             /\ Armed(d, s).active = d.active /\ Armed(d, s).lkg = d.lkg
             /\ Armed(d, s).trial = s /\ Armed(d, s).boots = 0
  <2>1. Armed(d, s) = [d EXCEPT !.trial = s, !.boots = none] /\ none \in 0..MaxTrialBoots /\ none = 0
    BY <1>1 DEF Armed
  <2> HIDE DEF none
  <2> QED BY <1>1, <1>6, <2>1 DEF SlotState
<1> QED BY <1>1, <1>2, <1>3, <1>4, <1>5, <1>6

\* A prepared state does not contradict itself, and the machine can boot from it.
LEMMA PreparedSound ==
    ASSUME NEW d \in SlotState, NEW im, Sound(d), NEW next, Prepared(next, d, im)
    PROVE  /\ next \in SlotState /\ Sound(next) /\ next # NONE
           /\ next.trial # NONE => d.trial # NONE /\ next.boots = d.boots + 1
           /\ Bootable(d, im) => Bootable(next, im)
<1>1. CASE next = RolledBack(d)
  <2>1. /\ next \in SlotState /\ next # NONE /\ d.lkg \in Slots /\ NONE \notin Slots
        /\ next.active = d.lkg /\ next.lkg = d.lkg /\ next.trial = NONE
    BY <1>1, NextStates
  <2> QED BY <2>1 DEF Bootable, Sound
<1>2. CASE d.trial # NONE /\ BootsLeft(d) /\ next = TrialBoot(d)
  BY <1>2, NextStates DEF Bootable, Sound
<1>3. CASE d.trial = NONE /\ d.previous # NONE /\ im[d.previous] # NONE /\ next = PreviousRestored(d)
  BY <1>3, NextStates DEF Bootable, Sound
<1> QED BY <1>1, <1>2, <1>3 DEF Prepared

\* An ended command, and the rollback.
LEMMA EndedCommand ==
    ASSUME NEW outcome \in {"done", "failed"}
    PROVE  /\ Ended(outcome) \in Command /\ Ended(outcome).at = outcome
           /\ Ended(outcome).img = NONE /\ Shaped(Ended(outcome))
           /\ \A d, im : Fits(Ended(outcome), d, im)
<1>1. /\ Ended(outcome) \in Command /\ Ended(outcome).at = outcome /\ Ended(outcome).img = NONE
      /\ Ended(outcome).next = NONE
  BY DEF Ended, Command
<1> QED BY <1>1 DEF Fits, SwitchFits, SaveFits, HealthFits, RegrowFits, ArmFits, Shaped

LEMMA FinishEnds ==
    ASSUME NEW p \in Processes, NEW outcome \in {"done", "failed"}, Finish(p, outcome)
    PROVE  \E c \in Command : /\ cmd' = [cmd EXCEPT ![p] = c] /\ c.at \in {"done", "failed"}
                              /\ Shaped(c) /\ \A d, im : Fits(c, d, im)
BY EndedCommand DEF Finish

LEMMA RollbackFits ==
    ASSUME disk \in SlotState, Sound(disk)
    PROVE  /\ RollbackCommand \in Command /\ RollbackCommand.at = "switch"
           /\ Shaped(RollbackCommand)
           /\ Bootable(disk, image) => Fits(RollbackCommand, disk, image)
<1> DEFINE next == RolledBack(disk)
<1>1. /\ next \in SlotState /\ next.active = disk.lkg /\ disk.lkg \in Slots /\ next # NONE
      /\ NONE \notin Slots /\ Sound(next)
  BY NextStates DEF Sound
<1>2. Prepared(next, disk, image)
  BY DEF Prepared
<1> HIDE DEF next
<1>3. RollbackCommand = [at |-> "switch", slot |-> disk.lkg, img |-> NONE, next |-> next]
  BY DEF RollbackCommand, next
<1>4. /\ RollbackCommand \in Command /\ RollbackCommand.at = "switch"
      /\ RollbackCommand.slot = disk.lkg /\ RollbackCommand.img = NONE
      /\ RollbackCommand.next = next
  BY <1>1, <1>3 DEF Command
<1> QED BY <1>1, <1>2, <1>4
        DEF Bootable, Fits, SwitchFits, SaveFits, HealthFits, RegrowFits, ArmFits, Shaped

-----------------------------------------------------------------------------
(* A step of one process                                                   *)

\* What is known of the machine in every state.
LEMMA Known ==
    ASSUME GermInv
    PROVE  /\ image \in [Slots -> Runtimes \cup {NONE}] /\ link \in Slots /\ disk \in SlotState
           /\ journal \in {"ok", "damaged"} /\ phase \in {"preflight", "starting", "up"}
           /\ checked \in BOOLEAN /\ cmd \in [Processes -> Command]
           /\ serving \in Requests \cup {NONE} /\ consumed \subseteq Requests
           /\ runs \in 0..(MaxTrialBoots + 1)
           /\ overtaken \in [Processes -> BOOLEAN] /\ clash \in BOOLEAN
           /\ Sound(disk) /\ NONE \notin Slots
           /\ \A p \in Processes : cmd[p] \in Command /\ Shaped(cmd[p])
           /\ "boot" \in Processes /\ "poller" \in Processes /\ "console" \in Processes
<1>1. NONE \notin Slots /\ "boot" \in Processes /\ "poller" \in Processes /\ "console" \in Processes
  BY GermAssumption DEF Slots, Processes
<1> QED BY <1>1 DEF GermInv, GermTypeOK

\* The parts of the invariant that say nothing of the disk.
LEMMA ShapeKept ==
    ASSUME GermInv, NEW p \in Processes, NEW c \in Command, cmd' = [cmd EXCEPT ![p] = c],
           serving' \in Requests \cup {NONE}, p # "poller" => serving' = serving,
           image' \in [Slots -> Runtimes \cup {NONE}], link' \in Slots, disk' \in SlotState,
           journal' \in {"ok", "damaged"}, phase' \in {"preflight", "starting", "up"},
           checked' \in BOOLEAN, consumed' \subseteq Requests, runs' \in 0..(MaxTrialBoots + 1),
           overtaken' \in [Processes -> BOOLEAN], clash' \in BOOLEAN,
           Shaped(c), Sound(disk'),
           c.at \notin {"done", "failed"} \/ (p = "poller" /\ serving' # NONE) =>
              phase' # "preflight" /\ (p # "boot" => phase' = "up"),
           phase' = phase \/ \A q \in Processes : q # p => ~Busy(q),
           \A q \in Processes : overtaken'[q] => phase' = "up",
           p = "boot" => c.at \notin {"snapshot", "install", "arm", "armed"},
           p = "boot" /\ c.at = "health" => phase' = "up",
           p # "boot" => phase' = phase
    PROVE  GermTypeOK' /\ Phases' /\ Sound(disk)' /\ \A q \in Processes : Shaped(cmd[q])'
<1>1. /\ cmd \in [Processes -> Command] /\ cmd' \in [Processes -> Command] /\ cmd'[p] = c
      /\ \A q \in Processes : q # p => cmd'[q] = cmd[q]
      /\ "boot" \in Processes
  BY Known
<1>2. GermTypeOK'
  BY <1>1 DEF GermTypeOK
<1>3. \A q \in Processes : Shaped(cmd'[q])
  BY <1>1, Known
<1>4. ASSUME NEW q \in Processes, Busy(q)'
      PROVE  phase' # "preflight" /\ (q # "boot" => phase' = "up")
  <2>1. CASE q = p
    BY <1>1, <1>4, <2>1 DEF Busy
  <2>2. CASE q # p
    <3>1. Busy(q)
      BY <1>1, <1>4, <2>2 DEF Busy
    <3> QED BY <2>2, <3>1 DEF GermInv, Phases
  <2> QED BY <2>1, <2>2
<1>5. /\ cmd'["boot"].at \notin {"snapshot", "install", "arm", "armed"}
      /\ cmd'["boot"].at = "health" => phase' = "up"
  <2>1. /\ cmd["boot"].at \notin {"snapshot", "install", "arm", "armed"}
        /\ cmd["boot"].at = "health" => phase = "up"
    BY DEF GermInv, Phases
  <2> QED BY <1>1, <2>1
<1>6. Phases'
  BY <1>4, <1>5 DEF Phases
<1> QED BY <1>2, <1>3, <1>6

\* A process decides, or goes on, and writes nothing: commands that were not
\* overtaken still fit.
LEMMA CommandKeeps ==
    ASSUME GermInv, NEW p \in Processes, NEW c \in Command, cmd' = [cmd EXCEPT ![p] = c],
           phase = "up",
           UNCHANGED <<image, link, disk, journal, phase, runs, clash>>,
           overtaken' = overtaken \/ overtaken' = [overtaken EXCEPT ![p] = FALSE],
           serving' \in Requests \cup {NONE}, p # "poller" => serving' = serving,
           checked' \in BOOLEAN, consumed' \subseteq Requests,
           cmd[p].at # "save", Shaped(c),
           p = "boot" => c.at \notin {"snapshot", "install", "arm", "armed"},
           c.at = "save" => c.img # NONE /\ journal = "ok",
           Agreement => overtaken'[p] \/ Fits(c, disk, image)
    PROVE  GermInv'
<1>1. /\ cmd'[p] = c /\ \A q \in Processes : q # p => cmd'[q] = cmd[q]
      /\ overtaken' \in [Processes -> BOOLEAN]
      /\ \A q \in Processes : q # p => overtaken'[q] = overtaken[q]
      /\ disk' = disk /\ image' = image /\ link' = link /\ journal' = journal /\ phase' = "up"
      /\ runs' = runs /\ clash' = clash
  BY Known
<1>2. GermTypeOK' /\ Phases' /\ Sound(disk)' /\ \A q \in Processes : Shaped(cmd[q])'
  BY <1>1, Known, ShapeKept
<1>3. ASSUME Agreement PROVE Agreement'
  <2>1. Bootable(disk', image') /\ BootsCounted'
    BY <1>1, <1>3 DEF Agreement, Bootable, BootsCounted
  <2>2. \A q \in Processes : overtaken'[q] \/ Fits(cmd'[q], disk', image')
    BY <1>1, <1>3 DEF Agreement
  <2>3. \A q \in Processes : Between(q) => q # p /\ Between(q)'
    BY <1>1 DEF Between
  <2>4. journal = "ok" => link = disk.active \/ \E q \in Processes : Between(q)
    BY <1>3 DEF Agreement, LinkAgrees
  <2>5. ASSUME c.at = "save", ~overtaken'[p]
        PROVE  link = c.next.active \/ \E q \in Processes : Between(q)
    <3>1. c.next = Promoted(disk) /\ disk.trial # NONE /\ disk.active = disk.trial
      BY <1>3, <2>5 DEF Fits, SaveFits
    <3>2. c.next.active = disk.active
      BY <3>1, Known, NextStates
    <3> QED BY <2>4, <2>5, <3>2
  <2>6. LinkAgrees'
    <3>1. ASSUME NEW q \in Processes, cmd'[q].at = "save", ~overtaken'[q]
          PROVE  link' = cmd'[q].next.active
                 \/ (cmd'[q].img # NONE /\ \E o \in Processes : Between(o)')
      <4>1. CASE q = p
        BY <1>1, <2>3, <2>5, <3>1, <4>1
      <4>2. CASE q # p
        BY <1>1, <1>3, <2>3, <3>1, <4>2 DEF Agreement, LinkAgrees
      <4> QED BY <4>1, <4>2
    <3> QED BY <1>1, <2>3, <2>4, <3>1 DEF LinkAgrees
  <2> QED BY <2>1, <2>2, <2>6 DEF Agreement
<1> QED BY <1>1, <1>2, <1>3 DEF GermInv

\* A process writes: if it was not overtaken, what it had decided fits, and
\* every other command under way is overtaken now.
LEMMA WriteKeeps ==
    ASSUME GermInv, NEW p \in Processes, NEW c \in Command, cmd' = [cmd EXCEPT ![p] = c],
           Busy(p), Writes(p),
           image' \in [Slots -> Runtimes \cup {NONE}], link' \in Slots, disk' \in SlotState,
           runs' \in 0..(MaxTrialBoots + 1),
           UNCHANGED <<journal, phase, checked, serving, consumed>>,
           Shaped(c), Sound(disk'), c.at # "health",
           p = "boot" => c.at \notin {"snapshot", "install", "arm", "armed"},
           Agreement /\ ~overtaken[p] =>
             /\ Fits(c, disk', image') /\ Bootable(disk', image') /\ BootsCounted'
             /\ c.at = "save" => c.img = NONE /\ link' = c.next.active
             /\ phase # "preflight" /\ journal = "ok" =>
                  \/ link' = disk'.active \/ c.at = "save"
                  \/ \E q \in Processes \ {p} : Between(q)
    PROVE  GermInv'
<1>1. /\ cmd'[p] = c /\ \A q \in Processes : q # p => cmd'[q] = cmd[q]
      /\ phase # "preflight" /\ (p # "boot" => phase = "up") /\ phase' = phase
      /\ journal' = journal /\ serving' = serving
  BY Known DEF GermInv, Phases
<1>2. /\ overtaken' \in [Processes -> BOOLEAN] /\ clash' \in BOOLEAN
      /\ \A q \in Processes : overtaken'[q] => overtaken[q] \/ (q # p /\ Busy(q))
      /\ clash' = (clash \/ overtaken[p])
      /\ ~clash' => \A q \in Processes : q # p /\ Busy(q) => overtaken'[q]
  BY Known DEF Writes
<1>3. \A q \in Processes : overtaken'[q] => phase' = "up"
  BY <1>1, <1>2 DEF GermInv, Phases
<1>4. GermTypeOK' /\ Phases' /\ Sound(disk)' /\ \A q \in Processes : Shaped(cmd[q])'
  BY <1>1, <1>2, <1>3, Known, ShapeKept
<1>5. ASSUME ~clash' PROVE Agreement'
  <2>1. ~overtaken[p] /\ Agreement
    BY <1>2, <1>5 DEF GermInv
  <2>2. ASSUME NEW q \in Processes, q # p
        PROVE  overtaken'[q] \/ cmd'[q].at \in {"done", "failed"}
    BY <1>1, <1>2, <1>5, <2>2 DEF Busy
  <2>3. \A q \in Processes : overtaken'[q] \/ Fits(cmd'[q], disk', image')
    BY <1>1, <2>1, <2>2 DEF Fits, SwitchFits, SaveFits, HealthFits, RegrowFits, ArmFits
  <2>4. \A q \in Processes : q # p /\ Between(q) => Between(q)'
    BY <1>1 DEF Between
  <2>5. c.at = "save" => Between(p)'
    BY <1>1, <2>1 DEF Between
  <2>6. LinkAgrees'
    BY <1>1, <2>1, <2>2, <2>4, <2>5 DEF LinkAgrees
  <2> QED BY <2>1, <2>3, <2>6 DEF Agreement
<1> QED BY <1>4, <1>5 DEF GermInv

-----------------------------------------------------------------------------
(* The actions                                                             *)

\* The end of a command that wrote nothing.
LEMMA EndKeeps ==
    ASSUME GermInv, NEW p \in Processes, NEW outcome \in {"done", "failed"},
           Finish(p, outcome), phase = "up", NoWrite, cmd[p].at # "save",
           UNCHANGED <<image, link, disk, journal, phase, checked, consumed, runs>>,
           serving' \in Requests \cup {NONE}, p # "poller" => serving' = serving
    PROVE  GermInv'
<1>1. PICK c \in Command : /\ cmd' = [cmd EXCEPT ![p] = c] /\ c.at \in {"done", "failed"}
                          /\ Shaped(c) /\ \A d, im : Fits(c, d, im)
  BY FinishEnds
<1>2. checked' \in BOOLEAN /\ consumed' \subseteq Requests /\ overtaken' = overtaken
      /\ clash' = clash
  BY Known DEF NoWrite
<1> QED BY <1>1, <1>2, CommandKeeps

LEMMA SwitchKeeps ==
    ASSUME GermInv, NEW p \in Processes, SwitchActive(p)
    PROVE  GermInv'
<1>1. /\ cmd[p].at = "switch" /\ Busy(p) /\ cmd[p] \in Command /\ Shaped(cmd[p])
      /\ cmd[p].slot \in Slots
      /\ UNCHANGED <<image, disk, journal, phase, checked, serving, consumed, runs>>
  BY Known DEF SwitchActive, Busy, Shaped, Command
<1>2. Agreement /\ ~overtaken[p] => SwitchFits(cmd[p], disk, image)
  BY DEF Agreement, Fits
<1>3. phase # "preflight" /\ (p # "boot" => phase = "up") /\ (overtaken[p] => phase = "up")
  BY <1>1 DEF GermInv, Phases
<1>4. CASE image[cmd[p].slot] = NONE
  <2>1. Finish(p, "failed") /\ NoWrite /\ UNCHANGED link
    BY <1>1, <1>4 DEF SwitchActive
  <2>2. CASE phase = "up"
    BY <1>1, <2>1, <2>2, EndKeeps, Known
  <2>3. CASE phase # "up"
    <3>1. p = "boot" /\ phase = "starting" /\ ~overtaken[p]
      BY <1>3, <2>3, Known
    <3>2. clash
      BY <1>1, <1>2, <1>4, <3>1 DEF GermInv, SwitchFits
    <3>3. PICK c \in Command : /\ cmd' = [cmd EXCEPT ![p] = c] /\ c.at \in {"done", "failed"}
                              /\ Shaped(c)
      BY <2>1, FinishEnds
    <3>4. overtaken' = overtaken /\ clash' = clash /\ phase' = phase
          /\ \A q \in Processes : overtaken[q] => phase = "up"
      BY <1>1, <2>1 DEF NoWrite, GermInv, Phases
    <3>5. p # "poller"
      BY <3>1
    <3>6. GermTypeOK' /\ Phases' /\ Sound(disk)' /\ \A q \in Processes : Shaped(cmd[q])'
      BY <1>1, <1>3, <2>1, <3>1, <3>3, <3>4, <3>5, Known, ShapeKept
    <3> QED BY <3>2, <3>4, <3>6 DEF GermInv
  <2> QED BY <2>2, <2>3
<1>5. CASE image[cmd[p].slot] # NONE
  <2> DEFINE c == IF cmd[p].next = NONE THEN Ended("done") ELSE [cmd[p] EXCEPT !.at = "save"]
  <2>1. link' = cmd[p].slot /\ cmd' = [cmd EXCEPT ![p] = c] /\ Writes(p)
    BY <1>1, <1>5 DEF SwitchActive
  <2>2. link' \in Slots
    BY <1>1, <2>1
  <2>3. CASE cmd[p].next = NONE
    <3>1. c = Ended("done")
      BY <2>3
    <3> HIDE DEF c
    <3>2. c \in Command /\ c.at = "done" /\ Shaped(c) /\ Fits(c, disk, image)
      BY <3>1, EndedCommand
    <3>3. Agreement /\ ~overtaken[p] =>
            /\ link' = disk.active /\ disk.trial = NONE
            /\ Bootable(disk, image) /\ BootsCounted'
      BY <1>1, <1>2, <2>1, <2>3 DEF SwitchFits, Agreement, BootsCounted
    <3> QED BY <1>1, <2>1, <2>2, <3>2, <3>3, Known, WriteKeeps
  <2>4. CASE cmd[p].next # NONE
    <3>1. /\ c.at = "save" /\ c.next = cmd[p].next /\ c.img = cmd[p].img /\ c \in Command
          /\ c.next # NONE
      BY <1>1, <2>4 DEF Command
    <3> HIDE DEF c
    <3>2. Shaped(c)
      BY <1>1, <3>1 DEF Shaped
    <3>3. Agreement /\ ~overtaken[p] =>
            /\ Fits(c, disk, image) /\ c.img = NONE /\ link' = c.next.active
            /\ Bootable(disk, image)
      BY <1>1, <1>2, <2>1, <2>4, <3>1
         DEF SwitchFits, Agreement, Fits, SaveFits, HealthFits, RegrowFits, ArmFits
    <3>4. Busy(p)' /\ (p # "boot" => "boot" # p /\ phase = "up")
      BY <1>3, <2>1, <3>1, Known DEF Busy
    <3>5. Agreement => BootsCounted'
      BY <1>1, <3>4 DEF Agreement, BootsCounted
    <3> QED BY <1>1, <2>1, <2>2, <3>1, <3>2, <3>3, <3>5, Known, WriteKeeps
  <2> QED BY <2>3, <2>4
<1> QED BY <1>4, <1>5

LEMMA SaveKeeps ==
    ASSUME GermInv, NEW p \in Processes, SaveState(p)
    PROVE  GermInv'
<1>1. /\ cmd[p].at = "save" /\ Busy(p) /\ cmd[p] \in Command /\ Shaped(cmd[p])
      /\ disk' = cmd[p].next /\ Finish(p, "done") /\ Writes(p)
      /\ runs' = IF disk'.trial = NONE THEN 0 ELSE runs
      /\ UNCHANGED <<image, link, journal, phase, checked, serving, consumed>>
  BY Known DEF SaveState, Busy
<1>2. disk' \in SlotState /\ Sound(disk')
  BY <1>1 DEF Shaped, Command
<1>3. PICK c \in Command : /\ cmd' = [cmd EXCEPT ![p] = c] /\ c.at \in {"done", "failed"}
                          /\ Shaped(c) /\ \A d, im : Fits(c, d, im)
  BY <1>1, FinishEnds
<1>4. runs' \in 0..(MaxTrialBoots + 1)
  <2>1. 0 \in 0..(MaxTrialBoots + 1) /\ runs \in 0..(MaxTrialBoots + 1)
    BY Known, GermAssumption
  <2> QED BY <1>1, <2>1
<1>5. ASSUME Agreement, ~overtaken[p]
      PROVE  /\ Bootable(disk', image') /\ BootsCounted'
             /\ phase # "preflight" /\ journal = "ok" =>
                  link' = disk'.active \/ \E q \in Processes \ {p} : Between(q)
  <2>1. SaveFits(cmd[p], disk, image) /\ Bootable(disk, image)
        /\ (disk.trial # NONE => runs <= disk.boots)
    BY <1>5 DEF Agreement, Fits, BootsCounted
  <2>2. /\ Bootable(disk', image)
        /\ disk'.trial # NONE => disk.trial # NONE /\ disk'.boots = disk.boots + 1
    <3>1. CASE cmd[p].img = NONE
      BY <1>1, <2>1, <3>1, Known, PreparedSound DEF SaveFits
    <3>2. CASE cmd[p].img # NONE
      <4>1. /\ disk' = Promoted(disk) /\ disk.trial # NONE
        BY <1>1, <2>1, <3>2 DEF SaveFits
      <4>2. disk'.lkg = disk.trial /\ disk'.trial = NONE
        BY <4>1, Known, NextStates
      <4> QED BY <2>1, <4>1, <4>2 DEF Bootable
    <3> QED BY <3>1, <3>2
  <2>3. BootsCounted'
    <3>1. runs \in Nat /\ disk.boots \in Nat
      BY Known, GermAssumption DEF SlotState
    <3>2. disk'.trial # NONE => runs' < disk'.boots
      BY <1>1, <2>1, <2>2, <3>1
    <3>3. disk'.boots \in Nat /\ runs' \in Nat
      BY <1>2, <1>4, GermAssumption DEF SlotState
    <3> QED BY <3>2, <3>3 DEF BootsCounted
  <2>4. link = disk'.active \/ \E q \in Processes \ {p} : Between(q)
    <3>1. link = cmd[p].next.active \/ (cmd[p].img # NONE /\ \E q \in Processes : Between(q))
      BY <1>1, <1>5 DEF Agreement, LinkAgrees
    <3> QED BY <1>1, <3>1 DEF Between
  <2> QED BY <1>1, <2>2, <2>3, <2>4
<1> QED BY <1>1, <1>2, <1>3, <1>4, <1>5, Known, WriteKeeps

LEMMA RebootKeeps ==
    ASSUME GermInv, Reboot
    PROVE  GermInv'
<1> DEFINE c == Ended("done")
<1>1. /\ phase' = "preflight" /\ checked' = FALSE /\ serving' = NONE
      /\ cmd' = [p \in Processes |-> c] /\ overtaken' = [p \in Processes |-> FALSE]
      /\ UNCHANGED <<image, link, disk, journal, consumed, runs, clash>>
  BY DEF Reboot
<1>2. c \in Command /\ c.at = "done" /\ Shaped(c) /\ \A d, im : Fits(c, d, im)
  BY EndedCommand
<1> HIDE DEF c
<1>3. /\ GermTypeOK' /\ Sound(disk)'
      /\ \A p \in Processes : cmd'[p] = c /\ ~overtaken'[p]
      /\ "boot" \in Processes
  BY <1>1, <1>2, Known DEF GermTypeOK
<1>4. Phases'
  BY <1>1, <1>2, <1>3 DEF Phases, Busy
<1>5. Agreement => Agreement'
  <2>1. \A p \in Processes : cmd'[p].at # "save"
    BY <1>2, <1>3
  <2>2. LinkAgrees'
    BY <1>1, <2>1 DEF LinkAgrees
  <2>3. Agreement => Bootable(disk, image)' /\ BootsCounted'
    BY <1>1 DEF Agreement, Bootable, BootsCounted
  <2> QED BY <1>2, <1>3, <2>2, <2>3 DEF Agreement
<1> QED BY <1>1, <1>2, <1>3, <1>4, <1>5 DEF GermInv

\* The preflight's command is one of these, and fits.
LEMMA PreflightFits ==
    ASSUME GermInv
    PROVE  /\ PreflightCommand \in Command /\ Shaped(PreflightCommand)
           /\ PreflightCommand.at \in {"done", "failed", "switch"}
           /\ Bootable(disk, image) => Fits(PreflightCommand, disk, image)
           /\ PreflightCommand.at \in {"done", "failed"} /\ journal = "ok" =>
                disk.trial = NONE /\ link = disk.active
<1> DEFINE c == PreflightCommand
<1>1. CASE disk.trial = NONE /\ link = disk.active /\ image[link] # NONE
  <2>1. c = Ended("done")
    BY <1>1 DEF PreflightCommand
  <2> QED BY <1>1, <2>1, EndedCommand
<1>2. CASE disk.trial = NONE /\ ~(link = disk.active /\ image[link] # NONE)
  <2>1. c = [at |-> "switch", slot |-> disk.active, img |-> NONE, next |-> NONE]
    BY <1>2 DEF PreflightCommand
  <2>2. disk.active \in Slots /\ NONE \notin Slots /\ disk.active = disk.lkg
    BY <1>2, Known, NextStates DEF Sound
  <2> HIDE DEF c
  <2>3. /\ c \in Command /\ c.at = "switch" /\ c.slot = disk.active /\ c.img = NONE
        /\ c.next = NONE
    BY <2>1, <2>2 DEF Command
  <2>4. Shaped(c) /\ (Bootable(disk, image) => Fits(c, disk, image))
    BY <1>2, <2>2, <2>3
       DEF Bootable, Shaped, Fits, SwitchFits, SaveFits, HealthFits, RegrowFits, ArmFits
  <2> QED BY <2>3, <2>4 DEF c
<1>3. CASE disk.trial # NONE /\ ~BootsLeft(disk)
  <2>1. c = RollbackCommand
    BY <1>3 DEF PreflightCommand
  <2> QED BY <2>1, Known, RollbackFits
<1>4. CASE disk.trial # NONE /\ BootsLeft(disk) /\ journal = "damaged"
  <2>1. c = Ended("failed")
    BY <1>4 DEF PreflightCommand
  <2> QED BY <1>4, <2>1, EndedCommand
<1>5. CASE disk.trial # NONE /\ BootsLeft(disk) /\ journal # "damaged"
  <2> DEFINE next == TrialBoot(disk)
  <2>1. c = [at |-> "switch", slot |-> disk.trial, img |-> NONE, next |-> next]
    BY <1>5 DEF PreflightCommand
  <2>2. Prepared(next, disk, image)
    BY <1>5 DEF Prepared
  <2>3. /\ next \in SlotState /\ next.active = disk.trial /\ next # NONE /\ Sound(next)
        /\ disk.trial \in Slots /\ NONE \notin Slots
    BY <1>5, <2>2, Known, NextStates, PreparedSound
  <2> HIDE DEF c, next
  <2>4. /\ c \in Command /\ c.at = "switch" /\ c.slot = disk.trial /\ c.img = NONE
        /\ c.next = next
    BY <2>1, <2>3 DEF Command
  <2>5. Shaped(c) /\ (Bootable(disk, image) => Fits(c, disk, image))
    BY <1>5, <2>2, <2>3, <2>4
       DEF Bootable, Shaped, Fits, SwitchFits, SaveFits, HealthFits, RegrowFits, ArmFits
  <2> QED BY <2>4, <2>5 DEF c
<1> QED BY <1>1, <1>2, <1>3, <1>4, <1>5

LEMMA PreflightKeeps ==
    ASSUME GermInv, Preflight
    PROVE  GermInv'
<1> DEFINE c == PreflightCommand
<1>1. /\ phase = "preflight" /\ phase' = "starting" /\ cmd' = [cmd EXCEPT !["boot"] = c]
      /\ overtaken' = [overtaken EXCEPT !["boot"] = FALSE]
      /\ UNCHANGED <<checked, runs, image, link, disk, journal, serving, consumed, clash>>
  BY DEF Preflight, Untouched, Decides
<1>2. /\ c \in Command /\ Shaped(c) /\ c.at \in {"done", "failed", "switch"}
      /\ Bootable(disk, image) => Fits(c, disk, image)
      /\ c.at \in {"done", "failed"} /\ journal = "ok" => disk.trial = NONE /\ link = disk.active
  BY PreflightFits
<1> HIDE DEF c
<1>3. /\ \A q \in Processes : ~Busy(q) /\ ~overtaken[q]
      /\ overtaken' \in [Processes -> BOOLEAN] /\ \A q \in Processes : ~overtaken'[q]
      /\ cmd'["boot"] = c /\ \A q \in Processes : q # "boot" => cmd'[q] = cmd[q]
  BY <1>1, Known DEF GermInv, Phases
<1>4. GermTypeOK' /\ Phases' /\ Sound(disk)' /\ \A q \in Processes : Shaped(cmd[q])'
  BY <1>1, <1>2, <1>3, Known, ShapeKept
<1>5. ASSUME Agreement PROVE Agreement'
  <2>1. \A q \in Processes : cmd'[q].at # "save"
    BY <1>2, <1>3 DEF Busy
  <2>2. \A q \in Processes : Fits(cmd'[q], disk', image')
    BY <1>1, <1>2, <1>3, <1>5 DEF Agreement
  <2>3. LinkAgrees'
    BY <1>1, <1>2, <1>3, <2>1 DEF LinkAgrees
  <2>4. ~Busy("boot")' => c.at \in {"done", "failed"}
    BY <1>3, Known DEF Busy
  <2>5. BootsCounted' /\ Bootable(disk, image)'
    BY <1>1, <1>2, <1>5, <2>4 DEF Agreement, BootsCounted, Bootable
  <2> QED BY <2>2, <2>3, <2>5 DEF Agreement
<1> QED BY <1>1, <1>4, <1>5 DEF GermInv

\* A step that leaves the commands where they are.
LEMMA CommandsRest ==
    ASSUME GermInv, NEW p \in Processes, UNCHANGED cmd
    PROVE  cmd' = [cmd EXCEPT ![p] = cmd[p]]
BY Known

LEMMA ComeUpKeeps ==
    ASSUME GermInv, ComeUp
    PROVE  GermInv'
<1> DEFINE c == cmd["boot"]
<1>1. /\ phase = "starting" /\ ~Busy("boot") /\ phase' = "up" /\ cmd' = cmd
      /\ runs' = IF link = disk.trial /\ image[link] # NONE /\ journal = "ok" /\ runs <= MaxTrialBoots
                 THEN runs + 1 ELSE runs
      /\ UNCHANGED <<checked, image, link, disk, journal, serving, consumed, overtaken, clash>>
  BY DEF ComeUp, Untouched, NoWrite
<1>2. cmd' = [cmd EXCEPT !["boot"] = c] /\ c.at \in {"done", "failed"}
  BY <1>1, Known, CommandsRest DEF Busy
<1>3. runs' \in 0..(MaxTrialBoots + 1)
  BY <1>1, Known, GermAssumption
<1>4. \A q \in Processes : ~Busy(q)
  BY <1>1 DEF GermInv, Phases
<1>5. c \in Command /\ Shaped(c)
  BY Known
<1> HIDE DEF c
<1>6. GermTypeOK' /\ Phases' /\ Sound(disk)' /\ \A q \in Processes : Shaped(cmd[q])'
  BY <1>1, <1>2, <1>3, <1>4, <1>5, Known, ShapeKept
<1>7. ASSUME Agreement PROVE Agreement'
  <2>1. \A q \in Processes : cmd[q].at \in {"done", "failed"}
    BY <1>4 DEF Busy
  <2>2. LinkAgrees'
    BY <1>1, <1>7, <2>1, Known DEF Agreement, LinkAgrees, Between
  <2>3. BootsCounted'
    <3>1. disk.trial # NONE => runs <= disk.boots /\ (journal = "ok" => runs < disk.boots)
      BY <1>1, <1>7 DEF Agreement, BootsCounted
    <3>2. runs \in Nat /\ disk.boots \in Nat
      BY Known, GermAssumption DEF SlotState
    <3>3. disk.trial # NONE => runs' <= disk.boots
      BY <1>1, <3>1, <3>2
    <3> QED BY <1>1, <3>3 DEF BootsCounted
  <2> QED BY <1>1, <1>7, <2>2, <2>3 DEF Agreement, Bootable
<1> QED BY <1>1, <1>6, <1>7 DEF GermInv

\* The health check has read slots.json, or has nothing to do.
LEMMA HealthStartsKeeps ==
    ASSUME GermInv, HealthStarts
    PROVE  GermInv'
<1>1. /\ phase = "up" /\ ~Busy("boot") /\ checked' = TRUE
      /\ overtaken' = [overtaken EXCEPT !["boot"] = FALSE]
      /\ UNCHANGED <<image, link, disk, journal, phase, serving, consumed, runs, clash>>
  BY DEF HealthStarts, Untouched, Decides
<1>2. cmd["boot"].at # "save"
  BY <1>1 DEF Busy
<1>3. CASE HealthUndue
  <2>1. cmd' = [cmd EXCEPT !["boot"] = Ended("done")]
    BY <1>3 DEF HealthStarts
  <2> DEFINE c == Ended("done")
  <2>2. /\ c \in Command /\ c.at = "done" /\ Shaped(c) /\ Fits(c, disk, image)
        /\ cmd' = [cmd EXCEPT !["boot"] = c]
    BY <2>1, EndedCommand
  <2> HIDE DEF c
  <2> QED BY <1>1, <1>2, <2>2, Known, CommandKeeps
<1>4. CASE ~HealthUndue
  <2> DEFINE c == [at |-> "health", slot |-> disk.trial, img |-> image[disk.trial], next |-> disk]
  <2>1. cmd' = [cmd EXCEPT !["boot"] = c] /\ disk.trial # NONE /\ disk.active = disk.trial
    BY <1>4 DEF HealthStarts, HealthUndue
  <2>2. /\ disk.trial \in Slots /\ disk # NONE /\ image[disk.trial] \in Runtimes \cup {NONE}
        /\ disk \in SlotState
    BY <2>1, Known, NextStates
  <2>3. /\ c \in Command /\ c.at = "health" /\ c.img = image[disk.trial] /\ c.next = disk
    BY <2>2 DEF Command
  <2> HIDE DEF c
  <2>4. Shaped(c) /\ Fits(c, disk, image)
    BY <2>1, <2>2, <2>3, Known
       DEF Shaped, Fits, SwitchFits, SaveFits, HealthFits, RegrowFits, ArmFits
  <2> QED BY <1>1, <1>2, <2>1, <2>3, <2>4, Known, CommandKeeps
<1> QED BY <1>3, <1>4

LEMMA HealthPassesKeeps ==
    ASSUME GermInv, HealthPasses
    PROVE  GermInv'
<1>1. /\ cmd["boot"].at = "health" /\ cmd["boot"].img # NONE
      /\ UNCHANGED <<image, link, disk, journal, phase, checked, serving, consumed, runs,
                     overtaken, clash>>
  BY DEF HealthPasses, Untouched, NoWrite
<1>2. phase = "up" /\ cmd["boot"] \in Command /\ Shaped(cmd["boot"])
  BY <1>1, Known DEF GermInv, Phases
<1>3. CASE journal = "damaged"
  <2> DEFINE c == Ended("failed")
  <2>1. /\ c \in Command /\ c.at = "failed" /\ Shaped(c) /\ Fits(c, disk, image)
        /\ cmd' = [cmd EXCEPT !["boot"] = c]
    BY <1>3, EndedCommand DEF HealthPasses
  <2> HIDE DEF c
  <2> QED BY <1>1, <1>2, <2>1, Known, CommandKeeps
<1>4. CASE journal # "damaged"
  <2> DEFINE read == cmd["boot"].next
             next == Promoted(read)
             c == [cmd["boot"] EXCEPT !.at = "save", !.next = next]
  <2>1. cmd' = [cmd EXCEPT !["boot"] = c]
    BY <1>4 DEF HealthPasses
  <2>2. read \in SlotState /\ read.trial # NONE
    BY <1>1, <1>2 DEF Shaped, Command
  <2>3. /\ next \in SlotState /\ next # NONE /\ next.active = next.lkg /\ next.trial = NONE
        /\ next.lkg # NONE
    BY <2>2, NextStates
  <2>4. Agreement => overtaken["boot"] \/ HealthFits(cmd["boot"], disk, image)
    BY Known DEF Agreement, Fits
  <2>5. Agreement => overtaken["boot"] \/
          /\ next = Promoted(disk) /\ disk.trial # NONE /\ disk.active = disk.trial
          /\ cmd["boot"].img = image[disk.trial]
    BY <1>1, <2>4 DEF HealthFits
  <2> HIDE DEF next
  <2>6. c \in Command /\ c.at = "save" /\ c.img = cmd["boot"].img /\ c.next = next
    BY <1>2, <2>3 DEF Command
  <2> HIDE DEF c
  <2>7. Shaped(c)
    BY <2>3, <2>6 DEF Shaped, Sound
  <2>8. Agreement => overtaken["boot"] \/ Fits(c, disk, image)
    BY <1>1, <2>5, <2>6 DEF Fits, SwitchFits, SaveFits, HealthFits, RegrowFits, ArmFits
  <2>9. journal = "ok"
    BY <1>4, Known
  <2> QED BY <1>1, <1>2, <2>1, <2>6, <2>7, <2>8, <2>9, Known, CommandKeeps
<1> QED BY <1>3, <1>4

\* A rollback begins.
LEMMA RollbackBegins ==
    ASSUME GermInv, NEW p \in Processes, cmd' = [cmd EXCEPT ![p] = RollbackCommand],
           phase = "up", cmd[p].at # "save", Decides(p),
           UNCHANGED <<image, link, disk, journal, phase, checked, consumed, runs>>,
           serving' \in Requests \cup {NONE}, p # "poller" => serving' = serving
    PROVE  GermInv'
<1> DEFINE c == RollbackCommand
<1>1. /\ c \in Command /\ c.at = "switch" /\ Shaped(c)
      /\ Bootable(disk, image) => Fits(c, disk, image)
      /\ cmd' = [cmd EXCEPT ![p] = c]
  BY Known, RollbackFits
<1> HIDE DEF c
<1>2. overtaken' = [overtaken EXCEPT ![p] = FALSE] /\ clash' = clash
  BY DEF Decides
<1>3. Agreement => Fits(c, disk, image)
  BY <1>1 DEF Agreement
<1> QED BY <1>1, <1>2, <1>3, Known, CommandKeeps

LEMMA HealthFailsKeeps ==
    ASSUME GermInv, HealthFails
    PROVE  GermInv'
<1>1. /\ cmd["boot"].at = "health" /\ cmd' = [cmd EXCEPT !["boot"] = RollbackCommand]
      /\ Decides("boot")
      /\ UNCHANGED <<image, link, disk, journal, phase, checked, serving, consumed, runs>>
  BY DEF HealthFails, Untouched
<1>2. phase = "up"
  BY <1>1 DEF GermInv, Phases
<1> QED BY <1>1, <1>2, Known, RollbackBegins

\* A process in a regrow: not the boot's, in a machine that is up; the link is
\* as before.
LEMMA InRegrow ==
    ASSUME GermInv, NEW p \in Processes,
           cmd[p].at \in {"snapshot", "install", "arm", "armed"}
    PROVE  /\ p # "boot" /\ phase = "up" /\ Busy(p) /\ cmd[p].slot \in Slots
           /\ cmd[p] \in Command
           /\ Agreement /\ journal = "ok" =>
                link = disk.active \/ \E q \in Processes \ {p} : Between(q)
<1>1. Busy(p) /\ p # "boot" /\ phase = "up"
  BY DEF Busy, GermInv, Phases
<1>2. cmd[p].slot \in Slots /\ cmd[p] \in Command
  BY Known DEF Shaped, Command
<1>3. Agreement /\ journal = "ok" => link = disk.active \/ \E q \in Processes \ {p} : Between(q)
  BY <1>1 DEF Agreement, LinkAgrees, Between
<1> QED BY <1>1, <1>2, <1>3

\* A slot is written by the regrow that has decided on it.
LEMMA SlotWritten ==
    ASSUME GermInv, NEW p \in Processes, cmd[p].at \in {"snapshot", "install"},
           NEW at \in {"install", "arm"}, cmd' = [cmd EXCEPT ![p].at = at],
           NEW img \in Runtimes \cup {NONE}, image' = [image EXCEPT ![cmd[p].slot] = img],
           Writes(p), SlotsOnly
    PROVE  GermInv'
<1> DEFINE c == [cmd[p] EXCEPT !.at = at]
<1>1. /\ Busy(p) /\ p # "boot" /\ phase = "up" /\ cmd[p].slot \in Slots /\ cmd[p] \in Command
      /\ Shaped(cmd[p])
      /\ Agreement /\ journal = "ok" =>
            link = disk.active \/ \E q \in Processes \ {p} : Between(q)
      /\ UNCHANGED <<link, disk, journal, phase, checked, serving, consumed, runs>>
  BY Known, InRegrow DEF SlotsOnly
<1>2. cmd' = [cmd EXCEPT ![p] = c]
  BY Known
<1>3. /\ c \in Command /\ c.at = at /\ c.slot = cmd[p].slot /\ c.next = cmd[p].next
      /\ c.img = cmd[p].img
  BY <1>1 DEF Command
<1> HIDE DEF c
<1>4. image' \in [Slots -> Runtimes \cup {NONE}] /\ link' \in Slots /\ disk' \in SlotState
      /\ runs' \in 0..(MaxTrialBoots + 1) /\ Sound(disk')
  BY <1>1, Known
<1>5. Shaped(c)
  BY <1>1, <1>3 DEF Shaped
<1>6. ASSUME Agreement, ~overtaken[p]
      PROVE  Fits(c, disk', image') /\ Bootable(disk', image') /\ BootsCounted'
  <2>1. disk.trial = NONE /\ cmd[p].slot \notin {disk.active, disk.lkg}
    BY <1>6 DEF Agreement, Fits, RegrowFits
  <2>2. Fits(c, disk', image')
    BY <1>1, <1>3, <2>1 DEF Fits, SwitchFits, SaveFits, HealthFits, RegrowFits, ArmFits
  <2>3. Bootable(disk', image') /\ BootsCounted'
    <3>1. image'[disk.lkg] = image[disk.lkg]
      BY <2>1, Known, NextStates
    <3> QED BY <1>1, <1>6, <2>1, <3>1 DEF Agreement, Bootable, BootsCounted
  <2> QED BY <2>2, <2>3
<1> QED BY <1>1, <1>2, <1>3, <1>4, <1>5, <1>6, WriteKeeps

LEMMA EmptySlotKeeps ==
    ASSUME GermInv, NEW p \in Processes, EmptySlot(p)
    PROVE  GermInv'
<1>1. /\ cmd[p].at = "snapshot" /\ phase = "up"
      /\ UNCHANGED <<link, disk, journal, phase, checked, serving, consumed, runs>>
  BY InRegrow DEF EmptySlot, SlotsOnly
<1>2. CASE Finish(p, "failed") /\ NoWrite /\ UNCHANGED image
  BY <1>1, <1>2, Known, EndKeeps
<1>3. CASE /\ image' = [image EXCEPT ![cmd[p].slot] = NONE]
           /\ cmd' = [cmd EXCEPT ![p].at = "install"] /\ Writes(p)
  BY <1>1, <1>3, SlotWritten DEF SlotsOnly
<1> QED BY <1>2, <1>3 DEF EmptySlot

LEMMA FillSlotKeeps ==
    ASSUME GermInv, NEW p \in Processes, FillSlot(p)
    PROVE  GermInv'
<1>1. /\ cmd[p].at = "install" /\ phase = "up" /\ cmd[p].img \in Runtimes \cup {NONE}
      /\ UNCHANGED <<link, disk, journal, phase, checked, serving, consumed, runs>>
  BY Known, InRegrow DEF FillSlot, SlotsOnly, Command
<1>2. CASE Finish(p, "failed") /\ NoWrite /\ UNCHANGED image
  BY <1>1, <1>2, Known, EndKeeps
<1>3. CASE /\ image' = [image EXCEPT ![cmd[p].slot] = cmd[p].img]
           /\ cmd' = [cmd EXCEPT ![p].at = "arm"] /\ Writes(p)
  BY <1>1, <1>3, SlotWritten DEF SlotsOnly
<1> QED BY <1>2, <1>3 DEF FillSlot

LEMMA ArmTrialKeeps ==
    ASSUME GermInv, NEW p \in Processes, ArmTrial(p)
    PROVE  GermInv'
<1> DEFINE next == Armed(disk, cmd[p].slot)
           c == IF Armable(cmd[p].slot) THEN [cmd[p] EXCEPT !.at = "armed", !.next = next]
                ELSE Ended(IF p = "poller" THEN "failed" ELSE "done")
<1>1. /\ cmd[p].at = "arm" /\ cmd' = [cmd EXCEPT ![p] = c]
      /\ overtaken' = [overtaken EXCEPT ![p] = FALSE]
      /\ UNCHANGED <<image, link, disk, journal, phase, checked, serving, consumed, runs, clash>>
  BY DEF ArmTrial, Decides, SlotsOnly, Finish
<1>2. /\ phase = "up" /\ p # "boot" /\ cmd[p].slot \in Slots /\ cmd[p] \in Command
  BY <1>1, InRegrow
<1>3. CASE Armable(cmd[p].slot)
  <2>1. /\ next \in SlotState /\ next # NONE /\ next.active = disk.active
        /\ next.lkg = disk.lkg /\ next.trial = cmd[p].slot
        /\ disk.active \in Slots /\ NONE \notin Slots
    <3>1. disk \in SlotState
      BY Known
    <3> QED BY <1>2, <3>1, NextStates, NoneAssumption
  <2>2. /\ disk.trial = NONE /\ cmd[p].slot \notin {disk.active, disk.lkg}
        /\ image[cmd[p].slot] # NONE
    BY <1>3 DEF Armable
  <2>3. next = Armed(disk, cmd[p].slot) /\ Sound(next) /\ cmd[p].slot # NONE
    <3>1. disk.active = disk.lkg
      BY <2>1, <2>2, Known DEF Sound
    <3> HIDE DEF next
    <3>2. Sound(next) /\ cmd[p].slot # NONE
      BY <1>2, <2>1, <2>2, <3>1 DEF Sound
    <3> QED BY <3>2 DEF next
  <2> HIDE DEF next
  <2>4. c = [cmd[p] EXCEPT !.at = "armed", !.next = next]
    BY <1>3
  <2> HIDE DEF c
  <2>5. /\ c \in Command /\ c.at = "armed" /\ c.slot = cmd[p].slot /\ c.next = next
    BY <1>2, <2>1, <2>4 DEF Command
  <2>6. Shaped(c) /\ Fits(c, disk, image)
    BY <2>1, <2>2, <2>3, <2>5
       DEF Shaped, Fits, SwitchFits, SaveFits, HealthFits, RegrowFits, ArmFits
  <2> QED BY <1>1, <1>2, <2>5, <2>6, Known, CommandKeeps
<1>4. CASE ~Armable(cmd[p].slot)
  <2>1. c = Ended(IF p = "poller" THEN "failed" ELSE "done")
    BY <1>4
  <2> HIDE DEF c
  <2>2. c \in Command /\ c.at \in {"done", "failed"} /\ Shaped(c) /\ Fits(c, disk, image)
    BY <2>1, EndedCommand
  <2> QED BY <1>1, <1>2, <2>2, Known, CommandKeeps
<1> QED BY <1>3, <1>4

LEMMA SaveTrialKeeps ==
    ASSUME GermInv, NEW p \in Processes, SaveTrial(p)
    PROVE  GermInv'
<1> DEFINE ended == Ended("done")
           img == cmd[p].img
           c == IF p = "poller" THEN [ended EXCEPT !.img = img] ELSE ended
           none == 0
<1>1. /\ cmd[p].at = "armed" /\ disk' = cmd[p].next /\ runs' = none
      /\ cmd' = [cmd EXCEPT ![p] = c] /\ Writes(p)
      /\ UNCHANGED <<image, link, journal, phase, checked, serving, consumed>>
  BY DEF SaveTrial
<1>2. /\ p # "boot" /\ phase = "up" /\ Busy(p) /\ cmd[p].slot \in Slots
      /\ cmd[p] \in Command /\ Shaped(cmd[p])
      /\ Agreement /\ journal = "ok" =>
            link = disk.active \/ \E q \in Processes \ {p} : Between(q)
  BY <1>1, Known, InRegrow
<1>3. img \in Runtimes \cup {NONE} /\ ended \in Command /\ ended.at = "done" /\ ended.next = NONE
  BY <1>2, EndedCommand DEF Command, Ended
<1> HIDE DEF ended, img
<1>4. c \in Command /\ c.at = "done" /\ c.next = NONE
  BY <1>3 DEF Command
<1> HIDE DEF c
<1>5. Shaped(c) /\ \A d, im : Fits(c, d, im)
  BY <1>4 DEF Shaped, Fits, SwitchFits, SaveFits, HealthFits, RegrowFits, ArmFits
<1>6. disk' \in SlotState /\ Sound(disk')
  BY <1>1, <1>2 DEF Shaped, Command
<1>7. ASSUME Agreement, ~overtaken[p]
      PROVE  /\ Bootable(disk', image') /\ BootsCounted'
             /\ journal = "ok" => link' = disk'.active \/ \E q \in Processes \ {p} : Between(q)
  <2>1. /\ disk' = Armed(disk, cmd[p].slot) /\ image[cmd[p].slot] # NONE
        /\ Bootable(disk, image)
    BY <1>1, <1>7 DEF Agreement, Fits, ArmFits
  <2>2. disk'.active = disk.active /\ disk'.lkg = disk.lkg /\ disk'.trial = cmd[p].slot
        /\ disk'.boots = 0
    <3>1. disk \in SlotState
      BY Known
    <3> QED BY <1>2, <2>1, <3>1, NextStates
  <2>3. BootsCounted'
    BY <1>1, <1>2, <2>2 DEF BootsCounted
  <2> QED BY <1>1, <1>2, <1>7, <2>1, <2>2, <2>3 DEF Bootable
<1>8. runs' \in 0..(MaxTrialBoots + 1)
  BY <1>1, GermAssumption
<1> HIDE DEF none
<1> QED BY <1>1, <1>2, <1>4, <1>5, <1>6, <1>7, <1>8, Known, WriteKeeps

\* A command begins with a decision that fits.
LEMMA BeginKeeps ==
    ASSUME GermInv, NEW p \in Processes, NEW r \in Requests \cup {NONE}, NEW c \in Command,
           Begin(p, r, c), Shaped(c), Agreement => Fits(c, disk, image), c.at # "save"
    PROVE  GermInv'
<1>1. /\ p # "boot" /\ phase = "up" /\ ~Busy(p) /\ cmd' = [cmd EXCEPT ![p] = c]
      /\ serving' = IF p = "poller" THEN r ELSE serving
      /\ overtaken' = [overtaken EXCEPT ![p] = FALSE]
      /\ UNCHANGED <<image, link, disk, journal, phase, checked, consumed, runs, clash>>
  BY DEF Begin, MayCommand, Decides, OnlyCommands
<1>2. cmd[p].at # "save"
  BY <1>1 DEF Busy
<1> QED BY <1>1, <1>2, Known, CommandKeeps

LEMMA RollbackKeeps ==
    ASSUME GermInv, NEW p \in Processes \ {"boot"}, NEW r \in Requests \cup {NONE}, Rollback(p, r)
    PROVE  GermInv'
<1> DEFINE c == IF p = "poller" /\ Steady THEN Ended("done") ELSE RollbackCommand
<1>1. Begin(p, r, c)
  BY DEF Rollback
<1>2. c \in Command /\ c.at # "save" /\ Shaped(c) /\ (Agreement => Fits(c, disk, image))
  BY EndedCommand, RollbackFits, Known DEF Agreement
<1> HIDE DEF c
<1> QED BY <1>1, <1>2, BeginKeeps

LEMMA RestorePreviousKeeps ==
    ASSUME GermInv, NEW p \in Processes \ {"boot"}, NEW r \in Requests \cup {NONE},
           RestorePrevious(p, r)
    PROVE  GermInv'
<1> DEFINE next == PreviousRestored(disk)
           c == [at |-> "switch", slot |-> disk.previous, img |-> NONE, next |-> next]
<1>1. /\ Begin(p, r, c) /\ disk.trial = NONE /\ disk.previous # NONE
      /\ image[disk.previous] # NONE
  BY DEF RestorePrevious, Steady, PreviousRestored
<1>2. Prepared(next, disk, image)
  BY <1>1 DEF Prepared
<1>3. /\ next \in SlotState /\ next # NONE /\ Sound(next) /\ next.active = disk.previous
      /\ disk.previous \in Slots /\ NONE \notin Slots
  BY <1>1, <1>2, Known, NextStates, PreparedSound
<1> HIDE DEF next
<1>4. /\ c \in Command /\ c.at = "switch" /\ c.slot = disk.previous /\ c.img = NONE
      /\ c.next = next
  BY <1>3 DEF Command
<1> HIDE DEF c
<1>5. Shaped(c) /\ Fits(c, disk, image)
  BY <1>1, <1>2, <1>3, <1>4
     DEF Shaped, Fits, SwitchFits, SaveFits, HealthFits, RegrowFits, ArmFits
<1> QED BY <1>1, <1>4, <1>5, BeginKeeps

\* A regrow, or the drill, begins to build in the inactive slot.
LEMMA GrowthKeeps ==
    ASSUME GermInv, NEW p \in Processes \ {"boot"}, NEW r \in Requests \cup {NONE},
           NEW img \in Runtimes, disk.trial = NONE, Inactive(disk) # disk.lkg,
           Begin(p, r, [at |-> "snapshot", slot |-> Inactive(disk), img |-> img, next |-> NONE])
    PROVE  GermInv'
<1> DEFINE s == Inactive(disk)
           c == [at |-> "snapshot", slot |-> s, img |-> img, next |-> NONE]
<1>1. s \in Slots /\ s # disk.active /\ s # disk.lkg /\ s # NONE
  BY Known, NextStates DEF Inactive, Other, Slots
<1> HIDE DEF s
<1>2. c \in Command /\ c.at = "snapshot" /\ c.slot = s /\ c.next = NONE
  BY <1>1 DEF Command
<1>3. Begin(p, r, c)
  BY DEF s
<1> HIDE DEF c
<1>4. Shaped(c) /\ Fits(c, disk, image)
  BY <1>1, <1>2 DEF Shaped, Fits, SwitchFits, SaveFits, HealthFits, RegrowFits, ArmFits
<1> QED BY <1>2, <1>3, <1>4, BeginKeeps

LEMMA PollKeeps ==
    ASSUME GermInv, PollMismatch \/ PollConsume \/ PollFailed
    PROVE  GermInv'
<1>1. serving # NONE /\ cmd["poller"].at \in {"done", "failed"}
  BY DEF PollMismatch, PollConsume, PollFailed
<1>2. Busy("poller") /\ phase = "up" /\ cmd["poller"].at # "save"
  BY <1>1, Known DEF Busy, GermInv, Phases
<1>3. CASE PollMismatch
  <2>1. /\ cmd' = [cmd EXCEPT !["poller"] = RollbackCommand] /\ serving' = NONE
        /\ Decides("poller")
        /\ UNCHANGED <<image, link, disk, journal, phase, checked, consumed, runs>>
    BY <1>3 DEF PollMismatch, OnlyCommands
  <2> QED BY <1>2, <2>1, Known, RollbackBegins
<1>4. CASE PollFailed
  <2>1. /\ Finish("poller", "done") /\ NoWrite /\ serving' = NONE
        /\ UNCHANGED <<image, link, disk, journal, phase, checked, consumed, runs>>
    BY <1>4 DEF PollFailed, OnlyCommands
  <2> QED BY <1>2, <2>1, Known, EndKeeps
<1>5. CASE PollConsume
  <2>1. /\ Finish("poller", "done") /\ NoWrite /\ serving' = NONE
        /\ consumed' = consumed \cup {serving}
        /\ UNCHANGED <<image, link, disk, journal, phase, checked, runs>>
    BY <1>5 DEF PollConsume
  <2>2. consumed' \subseteq Requests /\ checked' \in BOOLEAN
        /\ overtaken' = overtaken /\ clash' = clash
    BY <1>1, <2>1, Known DEF NoWrite
  <2>3. PICK c \in Command : /\ cmd' = [cmd EXCEPT !["poller"] = c] /\ c.at \in {"done", "failed"}
                             /\ Shaped(c) /\ \A d, im : Fits(c, d, im)
    BY <2>1, FinishEnds, Known
  <2> QED BY <1>2, <2>1, <2>2, <2>3, Known, CommandKeeps
<1> QED BY <1>3, <1>4, <1>5

LEMMA DamageKeeps ==
    ASSUME GermInv, DamageJournal
    PROVE  GermInv'
<1>1. /\ journal = "ok" /\ journal' = "damaged"
      /\ UNCHANGED <<image, link, disk, phase, checked, cmd, serving, consumed, runs,
                     overtaken, clash>>
  BY DEF DamageJournal, NoWrite
<1>2. GermTypeOK' /\ Phases' /\ Sound(disk)' /\ \A p \in Processes : Shaped(cmd[p])'
  BY <1>1 DEF GermInv, GermTypeOK, Phases, Busy
<1>3. Agreement => Agreement'
  <2>1. \A p \in Processes : (Between(p) <=> Between(p)') /\ (Busy(p) <=> Busy(p)')
    BY <1>1 DEF Between, Busy
  <2>2. LinkAgrees => LinkAgrees'
    BY <1>1, <2>1 DEF LinkAgrees
  <2>3. BootsCounted => BootsCounted'
    BY <1>1 DEF BootsCounted
  <2> QED BY <1>1, <2>2, <2>3 DEF Agreement, Bootable
<1> QED BY <1>1, <1>2, <1>3 DEF GermInv

-----------------------------------------------------------------------------
LEMMA GermInvInit == GermInit => GermInv
<1> SUFFICES ASSUME GermInit PROVE GermInv
  OBVIOUS
<1> DEFINE c == Ended("done")
           none == 0
<1>1. /\ image = [s \in Slots |-> IF s = "A" THEN First ELSE NONE] /\ link = "A"
      /\ disk = [active |-> "A", lkg |-> "A", previous |-> NONE, trial |-> NONE, boots |-> none]
      /\ journal = "ok" /\ phase = "up" /\ checked = TRUE
      /\ cmd = [p \in Processes |-> c] /\ serving = NONE /\ consumed = {} /\ runs = none
      /\ overtaken = [p \in Processes |-> FALSE] /\ clash = FALSE
  BY DEF GermInit
<1>2. c \in Command /\ c.at = "done" /\ Shaped(c) /\ \A d, im : Fits(c, d, im)
  BY EndedCommand
<1>3. /\ none \in 0..MaxTrialBoots /\ none \in 0..(MaxTrialBoots + 1)
      /\ "A" \in Slots /\ NONE # "A" /\ First # NONE /\ First \in Runtimes
  BY GermAssumption DEF Slots, Runtimes
<1> HIDE DEF c, none
<1>4. disk \in SlotState /\ disk.active = "A" /\ disk.lkg = "A" /\ disk.trial = NONE
  BY <1>1, <1>3 DEF SlotState
<1>5. GermTypeOK
  BY <1>1, <1>2, <1>3, <1>4 DEF GermTypeOK
<1>6. \A p \in Processes : cmd[p] = c /\ ~overtaken[p]
  BY <1>1
<1>7. Phases
  BY <1>1, <1>2, <1>6 DEF Phases, Processes
<1>8. Sound(disk) /\ \A p \in Processes : Shaped(cmd[p])
  BY <1>2, <1>3, <1>4, <1>6 DEF Sound
<1>9. Agreement
  <2>1. Bootable(disk, image) /\ BootsCounted
    BY <1>1, <1>3, <1>4 DEF Bootable, BootsCounted
  <2>2. LinkAgrees
    BY <1>1, <1>2, <1>4, <1>6 DEF LinkAgrees
  <2> QED BY <1>2, <1>6, <2>1, <2>2 DEF Agreement
<1> QED BY <1>5, <1>7, <1>8, <1>9 DEF GermInv

\* One step of the machine, one case per action.
LEMMA GermStep == GermInv /\ [GermNext]_germVars => GermInv'
<1> SUFFICES ASSUME GermInv, [GermNext]_germVars PROVE GermInv'
  OBVIOUS
<1>1. CASE UNCHANGED germVars
  <2>1. UNCHANGED <<image, link, disk, journal, phase, checked, cmd, serving, consumed, runs,
                    overtaken, clash>>
    BY <1>1 DEF germVars
  <2>2. \A p \in Processes : (Between(p) <=> Between(p)') /\ (Busy(p) <=> Busy(p)')
    BY <2>1 DEF Between, Busy
  <2>3. Agreement => Agreement'
    <3>1. (LinkAgrees => LinkAgrees') /\ (BootsCounted => BootsCounted')
      BY <2>1, <2>2, Known DEF LinkAgrees, BootsCounted
    <3> QED BY <2>1, <3>1 DEF Agreement
  <2>4. GermTypeOK' /\ Phases'
    BY <2>1, <2>2 DEF GermInv, GermTypeOK, Phases
  <2> QED BY <2>1, <2>3, <2>4 DEF GermInv
<1>2. ASSUME NEW p \in Processes \ {"boot"}, NEW r \in Requests \cup {NONE}, NEW img \in Images,
             Regrow(p, r, img)
      PROVE  GermInv'
  <2>1. img \in Runtimes
    BY DEF Runtimes
  <2> QED BY <1>2, <2>1, GrowthKeeps DEF Regrow
<1>3. CASE Drill
  <2>1. Inactive(disk) # disk.lkg /\ disk.trial = NONE
    BY <1>3, Known, NextStates DEF Drill, Steady, Inactive, Other, Slots
  <2>2. "console" \in Processes \ {"boot"} /\ NONE \in Requests \cup {NONE} /\ Failing \in Runtimes
    BY DEF Processes, Runtimes
  <2> QED BY <1>3, <2>1, <2>2, GrowthKeeps DEF Drill
<1>4. ASSUME NEW p \in Processes,
             \/ SwitchActive(p) \/ SaveState(p) \/ EmptySlot(p) \/ FillSlot(p)
             \/ ArmTrial(p) \/ SaveTrial(p)
      PROVE  GermInv'
  BY <1>4, SwitchKeeps, SaveKeeps, EmptySlotKeeps, FillSlotKeeps, ArmTrialKeeps, SaveTrialKeeps
<1>5. ASSUME NEW p \in Processes \ {"boot"}, NEW r \in Requests \cup {NONE},
             Rollback(p, r) \/ RestorePrevious(p, r)
      PROVE  GermInv'
  BY <1>5, RollbackKeeps, RestorePreviousKeeps
<1>6. CASE Boot
  BY <1>6, PreflightKeeps, ComeUpKeeps, HealthStartsKeeps, HealthPassesKeeps, HealthFailsKeeps
     DEF Boot
<1>7. CASE Reboot \/ PollMismatch \/ PollConsume \/ PollFailed \/ DamageJournal
  BY <1>7, RebootKeeps, PollKeeps, DamageKeeps
<1> QED BY <1>1, <1>2, <1>3, <1>4, <1>5, <1>6, <1>7 DEF GermNext

LEMMA GermInvHolds == GermInv => GermHolds
<1> SUFFICES ASSUME GermInv PROVE GermHolds
  OBVIOUS
<1>1. GermTypeOK /\ RecordSound
  BY DEF GermInv, Sound, RecordSound
<1>2. ASSUME ~clash PROVE SlotsAgree /\ LkgThere /\ TrialBounded
  <2>1. Agreement
    BY <1>2 DEF GermInv
  <2>2. LkgThere
    BY <2>1 DEF Agreement, Bootable, LkgThere
  <2>3. TrialBounded
    <3>1. disk.trial # NONE => runs <= disk.boots
      BY <2>1 DEF Agreement, BootsCounted
    <3>2. disk.boots \in 0..MaxTrialBoots /\ runs \in 0..(MaxTrialBoots + 1)
      BY Known, NextStates
    <3> QED BY <3>1, <3>2, GermAssumption DEF TrialBounded
  <2>4. SlotsAgree
    <3> SUFFICES ASSUME phase = "up", journal = "ok", \A p \in Processes : ~Busy(p)
                 PROVE  link = disk.active /\ image[link] # NONE
      BY DEF SlotsAgree
    <3>1. link = disk.active
      BY <2>1 DEF Agreement, LinkAgrees, Between, Busy
    <3> QED BY <2>1, <3>1, Known DEF Agreement, Bootable, Sound
  <2> QED BY <2>2, <2>3, <2>4
<1> QED BY <1>1, <1>2 DEF GermHolds

\* guardian.py, reseed.py, recovery_poller.py: however commands overlap and
\* wherever crashes cut them short, slots.json does not contradict itself; and
\* until a command writes what it had decided before another one's change, the
\* machine runs what slots.json says, there is an LKG to go back to, and a
\* trial comes up no more often than it may.
THEOREM GermSafe == GermSpec => []GermHolds
<1>1. GermInv /\ [GermNext]_germVars => GermInv'
  BY GermStep
<1>2. GermSpec => []GermInv
  BY <1>1, GermInvInit, PTL DEF GermSpec
<1> QED BY <1>2, GermInvHolds, PTL
=============================================================================
