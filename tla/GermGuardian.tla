---------------------------- MODULE GermGuardian ----------------------------
(***************************************************************************)
(* The protected A/B slots of an Aurum machine (Projects/Aurum/Germ):      *)
(* guardian.py owns slots.json and the link /opt/aurum, reseed.py grows a  *)
(* new runtime in the inactive slot, rollback_drill.py plants a failing    *)
(* one, recovery_poller.py applies signed requests of a remote operator.   *)
(*                                                                         *)
(* A command reads slots.json once, and then changes the disk in several   *)
(* steps: the link and slots.json are replaced one after the other, a slot *)
(* directory is moved away before the new one is moved in.  Reboot is also *)
(* the crash: it ends every command between two of its steps.              *)
(*                                                                         *)
(* Nothing locks slots.json: the boot's health check, an operator at the   *)
(* console and the poller, which a timer starts, overlap as they come.     *)
(* Two history variables tell when that matters: a command is overtaken    *)
(* when another one has changed the disk since it decided, and a clash is  *)
(* a write by a command that was overtaken.                                *)
(***************************************************************************)
EXTENDS Integers, FiniteSets

CONSTANTS
    Images,         \* runtimes a regrow may build
    First,          \* the runtime the machine was installed with
    Failing,        \* the runtime of the rollback drill
    Requests,       \* signed recovery requests, by id
    Target,         \* what a request asks for
    Pin,            \* the runtime a request for "specific" has signed
    MaxTrialBoots,  \* MAX_TRIAL_BOOTS
    Together,       \* bound: so many commands are given at a time
    NONE

ASSUME GermAssumption ==
    /\ First \notin Images /\ Failing \notin Images /\ First # Failing
    /\ Target \in [Requests -> {"previous", "last-known-good", "current",
                                "specific"}]
    /\ Pin \in [Requests -> Images]
    /\ MaxTrialBoots \in Nat \ {0} /\ Together \in Nat
    /\ NONE \notin Images \cup {First, Failing, "A", "B"} \cup Requests

VARIABLES
    image,      \* slot directories: the runtime in each, or NONE
    link,       \* the slot /opt/aurum points to
    disk,       \* slots.json
    journal,    \* can journal-head.json and its record be read?
    phase,      \* of the machine: preflight to run, or up
    checked,    \* has the health service started in this boot?
    cmd,        \* the command each process executes
    serving,    \* the request the poller applies, or NONE
    consumed,   \* request ids in recovery-replay.json
    runs,       \* history: boots of the pending trial that came up
    overtaken,  \* history: commands that decided on what has changed since
    clash       \* history: has such a command written?

germVars == <<image, link, disk, journal, phase, checked, cmd, serving,
              consumed, runs, overtaken, clash>>

-----------------------------------------------------------------------------
Slots == {"A", "B"}

Other(s) == IF s = "A" THEN "B" ELSE "A"

\* "boot" is the preflight and the health service, "console" an operator.
Processes == {"boot", "console", "poller"}

Runtimes == Images \cup {First, Failing}

SlotState == [active : Slots, lkg : Slots, previous : Slots \cup {NONE},
              trial : Slots \cup {NONE}, boots : 0..MaxTrialBoots]

ASSUME NoneAssumption == NONE \notin SlotState

\* at: the next step; slot, img: the slot and runtime it is about; next: the
\* slots.json that save_state will write (for "health": the one it has read).
Command == [at   : {"done", "failed", "switch", "save", "health",
                    "snapshot", "install", "arm", "armed"},
            slot : Slots \cup {NONE},
            img  : Runtimes \cup {NONE},
            next : SlotState \cup {NONE}]

Ended(outcome) == [at |-> outcome, slot |-> NONE, img |-> NONE, next |-> NONE]

\* Nobody but the poller acts on how its command ended.
Finish(p, outcome) ==
    cmd' = [cmd EXCEPT ![p] = Ended(IF p = "poller" THEN outcome ELSE "done")]

Busy(p) ==
    \/ cmd[p].at \notin {"done", "failed"}
    \/ p = "poller" /\ serving # NONE

Room == Cardinality({p \in Processes : Busy(p)}) < Together

\* Process p changes the link, slots.json or a slot.
Writes(p) ==
    /\ clash' = (clash \/ overtaken[p])
    /\ overtaken' = [q \in Processes |->
                        ~clash' /\ (overtaken[q] \/ (q # p /\ Busy(q)))]

\* Process p reads slots.json and decides on it.
Decides(p) == overtaken' = [overtaken EXCEPT ![p] = FALSE] /\ UNCHANGED clash

NoWrite == UNCHANGED <<overtaken, clash>>

\* A machine whose pre-germ runtime the bridge has made slot A (initialize).
GermInit ==
    /\ image = [s \in Slots |-> IF s = "A" THEN First ELSE NONE]
    /\ link = "A"
    /\ disk = [active |-> "A", lkg |-> "A", previous |-> NONE,
               trial |-> NONE, boots |-> 0]
    /\ journal = "ok" /\ phase = "up" /\ checked = TRUE
    /\ cmd = [p \in Processes |-> Ended("done")]
    /\ serving = NONE /\ consumed = {}
    /\ runs = 0
    /\ overtaken = [p \in Processes |-> FALSE] /\ clash = FALSE

-----------------------------------------------------------------------------
(* The two writes of a guardian command                                    *)

\* switch_active: refused when the runtime is missing.
SwitchActive(p) ==
    LET c == cmd[p] IN
    /\ c.at = "switch"
    /\ IF image[c.slot] = NONE
       THEN Finish(p, "failed") /\ NoWrite /\ UNCHANGED link
       ELSE /\ link' = c.slot
            /\ cmd' = [cmd EXCEPT ![p] = IF c.next = NONE THEN Ended("done")
                                         ELSE [c EXCEPT !.at = "save"]]
            /\ Writes(p)
    /\ UNCHANGED <<image, disk, journal, phase, checked, serving, consumed, runs>>

\* save_state; img is the runtime whose health check led to this promotion.
SaveState(p) ==
    LET c == cmd[p] IN
    /\ c.at = "save"
    /\ disk' = c.next
    /\ Finish(p, "done")
    /\ runs' = IF c.next.trial = NONE THEN 0 ELSE runs
    /\ Writes(p)
    /\ UNCHANGED <<image, link, journal, phase, checked, serving, consumed>>

\* rollback goes back to the LKG, whatever the state: a journal that cannot
\* be written does not stop it.
RolledBack(d) == [d EXCEPT !.active = d.lkg, !.trial = NONE, !.boots = 0]

RollbackCommand ==
    [at |-> "switch", slot |-> disk.lkg, img |-> NONE, next |-> RolledBack(disk)]

-----------------------------------------------------------------------------
(* Boot                                                                    *)

\* Every step but the two writes of a boot leaves these alone.
Untouched == UNCHANGED <<image, link, disk, journal, serving, consumed>>

Reboot ==
    /\ phase' = "preflight" /\ checked' = FALSE
    /\ cmd' = [p \in Processes |-> Ended("done")]
    /\ serving' = NONE
    /\ overtaken' = [p \in Processes |-> FALSE]
    /\ UNCHANGED <<image, link, disk, journal, consumed, runs, clash>>

\* Mutation: the trial boot is not counted.
TrialBootUncounted(d) == [d EXCEPT !.active = d.trial]

\* preflight's state for a boot into the trial.
TrialBoot(d) == [d EXCEPT !.active = d.trial, !.boots = d.boots + 1]

BootsLeft(d) == d.boots + 1 <= MaxTrialBoots

\* Mutation: preflight does not look at the link.
PreflightCommandTrustsLink ==
    IF disk.trial = NONE THEN Ended("done")
    ELSE IF ~BootsLeft(disk) THEN RollbackCommand
    ELSE IF journal = "damaged" THEN Ended("failed")
    ELSE [at |-> "switch", slot |-> disk.trial, img |-> NONE,
          next |-> TrialBoot(disk)]

\* preflight: repair the link, give up on the trial, or boot into it.
PreflightCommand ==
    IF disk.trial = NONE
    THEN IF link = disk.active /\ image[link] # NONE THEN Ended("done")
         ELSE [at |-> "switch", slot |-> disk.active, img |-> NONE,
               next |-> NONE]
    ELSE IF ~BootsLeft(disk) THEN RollbackCommand
    ELSE IF journal = "damaged" THEN Ended("failed")
    ELSE [at |-> "switch", slot |-> disk.trial, img |-> NONE,
          next |-> TrialBoot(disk)]

Preflight ==
    /\ phase = "preflight"
    /\ phase' = "starting"
    /\ cmd' = [cmd EXCEPT !["boot"] = PreflightCommand]
    /\ Decides("boot")
    /\ UNCHANGED <<checked, runs>> /\ Untouched

\* The services start from the link.
ComeUp ==
    /\ phase = "starting" /\ ~Busy("boot")
    /\ phase' = "up"
    /\ runs' = IF /\ link = disk.trial /\ image[link] # NONE
                  /\ journal = "ok" /\ runs <= MaxTrialBoots
               THEN runs + 1 ELSE runs
    /\ NoWrite
    /\ UNCHANGED <<checked, cmd>> /\ Untouched

-----------------------------------------------------------------------------
(* Health                                                                  *)

\* health_check answers steady or waiting.
HealthUndue == disk.trial = NONE \/ disk.active # disk.trial

\* health_check reads slots.json and then watches the candidate for minutes.
HealthStarts ==
    /\ phase = "up" /\ ~checked /\ ~Busy("boot") /\ Room
    /\ checked' = TRUE
    /\ cmd' = [cmd EXCEPT !["boot"] =
                 IF HealthUndue THEN Ended("done")
                 ELSE [at |-> "health", slot |-> disk.trial,
                       img |-> image[disk.trial], next |-> disk]]
    /\ Decides("boot")
    /\ UNCHANGED <<phase, runs>> /\ Untouched

\* The candidate becomes LKG, in the state as it was read.
Promoted(d) ==
    [d EXCEPT !.previous = d.lkg, !.lkg = d.trial, !.active = d.trial,
              !.trial = NONE, !.boots = 0]

HealthPasses ==
    LET c == cmd["boot"] IN
    /\ c.at = "health" /\ c.img \notin {Failing, NONE}
    /\ cmd' = [cmd EXCEPT !["boot"] =
                 IF journal = "damaged" THEN Ended("failed")
                 ELSE [c EXCEPT !.at = "save", !.next = Promoted(c.next)]]
    /\ NoWrite
    /\ UNCHANGED <<phase, checked, runs>> /\ Untouched

\* rollback reads slots.json again.
HealthFails ==
    /\ cmd["boot"].at = "health"
    /\ cmd' = [cmd EXCEPT !["boot"] = RollbackCommand]
    /\ Decides("boot")
    /\ UNCHANGED <<phase, checked, runs>> /\ Untouched

-----------------------------------------------------------------------------
(* Commands of the console and of the poller                               *)

\* Nothing changes but the commands of the processes.
OnlyCommands ==
    UNCHANGED <<image, link, disk, journal, phase, checked, consumed, runs>>

MayCommand(p) == p # "boot" /\ phase = "up" /\ ~Busy(p) /\ Room

\* The console gives any command, the poller one that its request asks for.
Asked(p, r, targets) ==
    \/ p = "console" /\ r = NONE
    \/ p = "poller" /\ r \in Requests \ consumed /\ Target[r] \in targets

\* A command begins; the poller begins it for request r.
Begin(p, r, command) ==
    /\ MayCommand(p)
    /\ cmd' = [cmd EXCEPT ![p] = command]
    /\ serving' = IF p = "poller" THEN r ELSE serving
    /\ Decides(p)
    /\ OnlyCommands

Steady == disk.trial = NONE /\ disk.active = disk.lkg

\* guardian.py rollback, from the console or as "last-known-good", which has
\* nothing to do in a steady state.
Rollback(p, r) ==
    /\ Asked(p, r, {"last-known-good"})
    /\ Begin(p, r, IF p = "poller" /\ Steady THEN Ended("done")
                   ELSE RollbackCommand)

\* guardian.py restore-previous: the LKG and its predecessor change places.
RestorePrevious(p, r) ==
    /\ Asked(p, r, {"previous"})
    /\ Steady
    /\ disk.previous \notin {NONE, disk.lkg}
    /\ image[disk.previous] # NONE
    /\ Begin(p, r,
             [at |-> "switch", slot |-> disk.previous, img |-> NONE,
              next |-> [disk EXCEPT !.active = disk.previous,
                                    !.lkg = disk.previous,
                                    !.previous = disk.lkg]])

Inactive(d) == Other(d.active)

\* reseed.py regrow, whose build ends with runtime img.
Regrow(p, r, img) ==
    /\ Asked(p, r, {"current", "specific"})
    /\ disk.trial = NONE
    /\ Inactive(disk) # disk.lkg
    /\ Begin(p, r, [at |-> "snapshot", slot |-> Inactive(disk), img |-> img,
                    next |-> NONE])

\* rollback_drill.py arm.  It keeps no journal.
Drill ==
    /\ Steady
    /\ Begin("console", NONE,
             [at |-> "snapshot", slot |-> Inactive(disk), img |-> Failing,
              next |-> NONE])

SlotsOnly == UNCHANGED <<link, disk, journal, phase, checked, serving, consumed, runs>>

\* The old directory goes away: the regrow moves it aside once it is built and
\* the guardian has written a checkpoint, which may fail; the drill removes it.
EmptySlot(p) ==
    LET c == cmd[p] IN
    /\ c.at = "snapshot"
    /\ \/ /\ c.img # Failing
          /\ Finish(p, "failed") /\ NoWrite /\ UNCHANGED image
       \/ /\ journal = "ok" \/ c.img = Failing
          /\ image' = [image EXCEPT ![c.slot] = NONE]
          /\ cmd' = [cmd EXCEPT ![p].at = "install"]
          /\ Writes(p)
    /\ SlotsOnly

\* The regrow cannot move its runtime over one that is there by now; the drill
\* writes its failing console into it.
FillSlot(p) ==
    LET c == cmd[p] IN
    /\ c.at = "install"
    /\ IF image[c.slot] # NONE /\ c.img # Failing
       THEN Finish(p, "failed") /\ NoWrite /\ UNCHANGED image
       ELSE /\ image' = [image EXCEPT ![c.slot] = c.img]
            /\ cmd' = [cmd EXCEPT ![p].at = "arm"]
            /\ Writes(p)
    /\ SlotsOnly

\* The refusals of arm_trial.
Armable(s) ==
    /\ disk.trial = NONE /\ s \notin {disk.active, disk.lkg}
    /\ image[s] # NONE
    /\ journal = "ok"

Armed(d, s) == [d EXCEPT !.trial = s, !.boots = 0]

\* arm_trial reads slots.json anew ...
ArmTrial(p) ==
    LET c == cmd[p] IN
    /\ c.at = "arm"
    /\ IF Armable(c.slot)
       THEN cmd' = [cmd EXCEPT ![p] = [c EXCEPT !.at = "armed",
                                                !.next = Armed(disk, c.slot)]]
       ELSE Finish(p, "failed")
    /\ Decides(p)
    /\ UNCHANGED image /\ SlotsOnly

\* ... and saves it with the trial, which nothing follows until the next boot.
SaveTrial(p) ==
    LET c == cmd[p] IN
    /\ c.at = "armed"
    /\ disk' = c.next
    /\ runs' = 0
    /\ cmd' = [cmd EXCEPT ![p] =
                 IF p = "poller" THEN [Ended("done") EXCEPT !.img = c.img]
                 ELSE Ended("done")]
    /\ Writes(p)
    /\ UNCHANGED <<image, link, journal, phase, checked, serving, consumed>>

-----------------------------------------------------------------------------
(* The end of a request                                                    *)

\* The regrow of a pinned request resolved to something else: the poller rolls
\* the trial back and leaves the request unconsumed.
PollMismatch ==
    LET c == cmd["poller"] IN
    /\ serving # NONE /\ c.at = "done"
    /\ Target[serving] = "specific" /\ c.img # Pin[serving]
    /\ cmd' = [cmd EXCEPT !["poller"] = RollbackCommand]
    /\ serving' = NONE
    /\ Decides("poller")
    /\ OnlyCommands

\* poll_once: a request that was applied is consumed.
PollConsume ==
    LET c == cmd["poller"] IN
    /\ serving # NONE /\ c.at = "done"
    /\ ~(Target[serving] = "specific" /\ c.img # Pin[serving])
    /\ consumed' = consumed \cup {serving}
    /\ serving' = NONE
    /\ Finish("poller", "done")
    /\ NoWrite
    /\ UNCHANGED <<image, link, disk, journal, phase, checked, runs>>

PollFailed ==
    /\ serving # NONE /\ cmd["poller"].at = "failed"
    /\ serving' = NONE
    /\ Finish("poller", "done")
    /\ NoWrite
    /\ OnlyCommands

\* The head of the journal or its last record is damaged from outside; nothing
\* repairs it.
DamageJournal ==
    /\ journal = "ok"
    /\ journal' = "damaged"
    /\ NoWrite
    /\ UNCHANGED <<image, link, disk, phase, checked, cmd, serving, consumed, runs>>

-----------------------------------------------------------------------------
Boot ==
    \/ Preflight \/ ComeUp \/ HealthStarts
    \/ HealthPasses \/ HealthFails

GermNext ==
    \/ Reboot \/ Boot
    \/ \E p \in Processes : SwitchActive(p) \/ SaveState(p)
    \/ \E p \in Processes : EmptySlot(p) \/ FillSlot(p)
    \/ \E p \in Processes : ArmTrial(p) \/ SaveTrial(p)
    \/ \E p \in Processes \ {"boot"}, r \in Requests \cup {NONE} :
          Rollback(p, r) \/ RestorePrevious(p, r)
    \/ \E p \in Processes \ {"boot"}, r \in Requests \cup {NONE},
          img \in Images : Regrow(p, r, img)
    \/ Drill
    \/ PollMismatch \/ PollConsume \/ PollFailed
    \/ DamageJournal

GermSpec == GermInit /\ [][GermNext]_germVars

\* Machines are rebooted, and not every boot is cut short.
GermFairness ==
    /\ WF_germVars(Reboot)
    /\ SF_germVars(Preflight)
    /\ SF_germVars(SwitchActive("boot"))
    /\ SF_germVars(SaveState("boot"))

-----------------------------------------------------------------------------
(* Properties                                                              *)

GermTypeOK ==
    /\ image \in [Slots -> Runtimes \cup {NONE}]
    /\ link \in Slots /\ disk \in SlotState
    /\ journal \in {"ok", "damaged"}
    /\ phase \in {"preflight", "starting", "up"} /\ checked \in BOOLEAN
    /\ cmd \in [Processes -> Command]
    /\ serving \in Requests \cup {NONE} /\ consumed \subseteq Requests
    /\ runs \in 0..(MaxTrialBoots + 1)
    /\ overtaken \in [Processes -> BOOLEAN] /\ clash \in BOOLEAN

\* However commands overlap and crash, slots.json never contradicts itself:
\* the machine is to run the LKG or the trial, and no trial is the LKG.
RecordSound == disk.active \in {disk.lkg, disk.trial} /\ disk.trial # disk.lkg

\* A machine that came up and works on no command runs what slots.json says,
\* from a slot that is there.  Crashes between the two writes of a command, or
\* between moving a slot away and moving the new one in, do not show after the
\* next boot.
SlotsAgree ==
    phase = "up" /\ journal = "ok" /\ (\A p \in Processes : ~Busy(p)) =>
        link = disk.active /\ image[link] # NONE

\* Wherever a command is cut short, there is an LKG to roll back to.
LkgThere == image[disk.lkg] # NONE

\* A trial comes up at most MAX_TRIAL_BOOTS times before a health check or the
\* preflight decides, however its boots and the commands are cut short.
TrialBounded == disk.trial # NONE => runs <= MaxTrialBoots

\* What must be true of the machine in every state.  Overlapping commands break
\* the agreement only by a clash: one of them wrote what it had decided before
\* another one's change.
GermHolds ==
    /\ GermTypeOK /\ RecordSound
    /\ ~clash => SlotsAgree /\ LkgThere /\ TrialBounded

\* Every trial is promoted or rolled back, even one whose every boot crashes
\* before the health check, unless the journal is damaged or commands clashed.
TrialEnds ==
    (disk.trial # NONE) ~> (disk.trial = NONE \/ journal = "damaged" \/ clash)
=============================================================================
