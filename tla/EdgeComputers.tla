---------------------------- MODULE EdgeComputers ----------------------------
(***************************************************************************)
(* What a Kali Pi remembers of the computers it has met: one link file per *)
(* address (links/), rewritten when the address is probed, and one file    *)
(* per computer (computers/) named after the machine, never after its      *)
(* address.  The link monitor, the discovery service, enrollment and the   *)
(* operator console are separate programs.  Each file is replaced in one   *)
(* move, but every change is a read, a merge and a write with no lock, and *)
(* even a page of the console rewrites what it reads.                      *)
(*                                                                         *)
(* Kept of a record: the machine, the operator's nickname and whether it   *)
(* was archived.  Which machine answers at an address is free.             *)
(***************************************************************************)
EXTENDS Naturals

CONSTANTS
  LinkPrograms,  \* those that probe and save links
  Consoles,      \* threads of the operator console
  Addresses, Hosts,
  Nicknames,     \* those an edit may give
  FirstNickname, \* that of a machine which discovery was told to remember
  MaxEdits,      \* bound of the exploration: archivings and renamings
  MaxLinkFaults  \* bound: writes of a computer file that fail

NoNick == "no_nickname"
Programs == LinkPrograms \union Consoles
Edits == [field : {"nick"}, value : Nicknames] \union [field : {"archived"}, value : {"yes", "no"}]
View == [field |-> "none"]

ASSUME ComputersAssumption ==
  /\ LinkPrograms \intersect Consoles = {} /\ "none" \notin Hosts
  /\ NoNick \notin Nicknames \union {FirstNickname}
  /\ MaxEdits \in Nat /\ MaxLinkFaults \in Nat

VARIABLES
  link,      \* links/: per address the file
  computer,  \* computers/: per machine the file
  program,   \* per program: where it is and what it has read
  edits, linkFaults,
  saved,     \* history: the machines whose save_link has returned
  quiet,     \* history: the program that no other has overlapped, if any
  promised   \* history: per machine, what an edit that was not overlapped set
computersVars == <<link, computer, program, edits, linkFaults, saved, quiet, promised>>

NoRecord == [host |-> "none"]
Unpromised == "any"
IdleProgram == [at |-> "idle"]
Discovered(h) == [host |-> h, nick |-> FirstNickname, archived |-> "unset"]

(* remember_discovered_computer has filed some machines before any link.   *)
ComputersInit ==
  /\ link = [a \in Addresses |-> NoRecord]
  /\ \E known \in SUBSET Hosts :
       /\ computer = [h \in Hosts |-> IF h \in known THEN Discovered(h) ELSE NoRecord]
       /\ promised = [h \in Hosts |-> [nick |-> IF h \in known THEN FirstNickname ELSE Unpromised,
                                       archived |-> Unpromised]]
  /\ program = [p \in Programs |-> IdleProgram]
  /\ edits = 0 /\ linkFaults = 0
  /\ saved = {} /\ quiet = {}

Becomes(p, state) == program' = [program EXCEPT ![p] = state]
OthersIdle(p) == \A o \in Programs \ {p} : program[o] = IdleProgram
Starts(p, state) ==
  /\ program[p] = IdleProgram /\ Becomes(p, state)
  /\ quiet' = IF OthersIdle(p) THEN {p} ELSE {}

Named(new, old) == IF new = NoNick THEN old ELSE new

Edited(h, edit) == [at |-> "edited", host |-> h, edit |-> edit]

-----------------------------------------------------------------------------
(* record_computer: what the observation does not say is kept.             *)
Merged(seen, seenBy) ==
  IF seen = NoRecord THEN seenBy
  ELSE [seenBy EXCEPT !.nick = Named(@, seen.nick),
                      !.archived = IF @ = "unset" THEN seen.archived ELSE @]

(* A program at "record" merges its observation obs into the computer's    *)
(* file and then goes on at next.                                          *)
Record(obs, next) == [at |-> "record", obs |-> obs, next |-> next]
Observed(file) == [host |-> file.host, nick |-> file.nick, archived |-> "unset"]

RecordReads(p) ==
  /\ program[p].at = "record"
  /\ Becomes(p, [at |-> "write", next |-> program[p].next,
                 new |-> Merged(computer[program[p].obs.host], program[p].obs)])
  /\ UNCHANGED <<link, computer, edits, linkFaults, saved, quiet, promised>>

(* What a program that has recorded may conclude.                          *)
Concludes(p, next) ==
  /\ saved' = IF next.at = "saved" THEN saved \union {next.host} ELSE saved
  /\ promised' =
       IF next.at = "edited" /\ p \in quiet
       THEN [promised EXCEPT ![next.host][next.edit.field] = next.edit.value] ELSE promised
  /\ Becomes(p, IF next.at \in {"saved", "edited"} THEN IdleProgram ELSE next)

RecordWrites(p) ==
  /\ program[p].at = "write"
  /\ computer' = [computer EXCEPT ![program[p].new.host] = program[p].new]
  /\ Concludes(p, program[p].next)
  /\ UNCHANGED <<link, edits, linkFaults, quiet>>

(* The write fails: save_link and load_computers go on, an edit is an      *)
(* error to the operator.  Bound: a program that is overlapped has no fault *)
(* as well.                                                                *)
RecordFails(p) ==
  /\ program[p].at = "write" /\ linkFaults < MaxLinkFaults /\ p \in quiet
  /\ linkFaults' = linkFaults + 1
  /\ LET next == program[p].next IN
       IF next.at \in {"edited", "match"}
       THEN Becomes(p, IdleProgram) /\ UNCHANGED <<saved, promised>>
       ELSE Concludes(p, next)
  /\ UNCHANGED <<link, computer, edits, quiet>>

-----------------------------------------------------------------------------
(* run_once: the links are loaded, then each address is probed.            *)
RoundBegins(p, a) ==
  /\ Starts(p, [at |-> "probe", address |-> a, previous |-> link[a]])
  /\ UNCHANGED <<link, computer, edits, linkFaults, saved, promised>>

(* probe: some machine answers, or none and the previous record is saved   *)
(* again as offline.                                                       *)
Probes(p) ==
  /\ program[p].at = "probe"
  /\ \/ \E h \in Hosts :
          Becomes(p, [at |-> "save", address |-> program[p].address,
                      found |-> [host |-> h, nick |-> NoNick]])
     \/ Becomes(p, IF program[p].previous = NoRecord THEN IdleProgram
                   ELSE [at |-> "save", address |-> program[p].address,
                         found |-> program[p].previous])
  /\ UNCHANGED <<link, computer, edits, linkFaults, saved, quiet, promised>>

(* Mutation: the machine that had the address is not recorded.             *)
SaveReadsOver(p) ==
  /\ program[p].at = "save"
  /\ LET existing == link[program[p].address]
         found == program[p].found
         nick == IF existing.host = found.host THEN Named(found.nick, existing.nick)
                 ELSE found.nick
     IN Becomes(p, [at |-> "link", address |-> program[p].address,
                    file |-> [found EXCEPT !.nick = nick]])
  /\ UNCHANGED <<link, computer, edits, linkFaults, saved, quiet, promised>>

(* save_link: where the address belonged to another machine, that one is   *)
(* recorded first and its nickname is not taken over.                      *)
SaveReads(p) ==
  /\ program[p].at = "save"
  /\ LET existing == link[program[p].address]
         found == program[p].found
         same == existing.host = found.host
         write(file) == [at |-> "link", address |-> program[p].address, file |-> file]
     IN Becomes(p,
          IF same THEN write([found EXCEPT !.nick = Named(@, existing.nick)])
          ELSE IF existing = NoRecord THEN write(found)
          ELSE Record(Observed(existing), write(found)))
  /\ UNCHANGED <<link, computer, edits, linkFaults, saved, quiet, promised>>

LinkWrites(p) ==
  /\ program[p].at = "link"
  /\ LET file == program[p].file IN
       /\ link' = [link EXCEPT ![program[p].address] = file]
       /\ Becomes(p, Record(Observed(file), [at |-> "saved", host |-> file.host]))
  /\ UNCHANGED <<computer, edits, linkFaults, saved, quiet, promised>>

-----------------------------------------------------------------------------
(* load_computers: every link is recorded, one machine after the other.    *)
LinkFiles == {link[a] : a \in Addresses} \ {NoRecord}
Imports(h, edit) ==
  [at |-> "import", links |-> LinkFiles, host |-> h, edit |-> edit]

ViewBegins(p) ==
  /\ Starts(p, Imports("none", View))
  /\ UNCHANGED <<link, computer, edits, linkFaults, saved, promised>>

(* set_computer_archived, update_link_profile                              *)
EditBegins(p, h, edit) ==
  /\ edits < MaxEdits /\ edits' = edits + 1
  /\ Starts(p, Imports(h, edit))
  /\ promised' = [promised EXCEPT ![h][edit.field] = Unpromised]
  /\ UNCHANGED <<link, computer, linkFaults, saved>>

ImportsNext(p) ==
  /\ program[p].at = "import"
  /\ \E file \in program[p].links :
       Becomes(p, Record(Observed(file), [program[p] EXCEPT !.links = @ \ {file}]))
  /\ UNCHANGED <<link, computer, edits, linkFaults, saved, quiet, promised>>

(* find_computer: the file as it is now, with the edit, is recorded.       *)
EditReads(p) ==
  /\ program[p].at = "import" /\ program[p].links = {}
  /\ LET h == program[p].host
         edit == program[p].edit
     IN Becomes(p,
          IF edit = View \/ computer[h] = NoRecord THEN IdleProgram
          ELSE Record([computer[h] EXCEPT ![edit.field] = edit.value],
                      IF edit.field = "nick" THEN [at |-> "match", host |-> h, value |-> edit.value]
                      ELSE Edited(h, edit)))
  /\ UNCHANGED <<link, computer, edits, linkFaults, saved, quiet, promised>>

(* A new nickname also goes to the link files of the machine: they are     *)
(* found, read once more and written.                                      *)
Relink(h, nick, paths) == [at |-> "relink", host |-> h, value |-> nick, paths |-> paths]

RenameMatches(p) ==
  /\ program[p].at = "match"
  /\ Becomes(p, Relink(program[p].host, program[p].value,
                       {a \in Addresses : link[a].host = program[p].host}))
  /\ UNCHANGED <<link, computer, edits, linkFaults, saved, quiet, promised>>

RenameReads(p) ==
  /\ program[p].at = "relink"
  /\ \E a \in program[p].paths :
       Becomes(p, [at |-> "rename", address |-> a,
                   file |-> [link[a] EXCEPT !.nick = program[p].value],
                   next |-> [program[p] EXCEPT !.paths = @ \ {a}]])
  /\ UNCHANGED <<link, computer, edits, linkFaults, saved, quiet, promised>>

(* Where the address went to another machine between the two reads, that   *)
(* machine gets the nickname: its own is no longer promised.               *)
RenameWrites(p) ==
  /\ program[p].at = "rename"
  /\ link' = [link EXCEPT ![program[p].address] = program[p].file]
  /\ LET h == program[p].file.host IN
       promised' = IF h = program[p].next.host THEN promised
                   ELSE [promised EXCEPT ![h].nick = Unpromised]
  /\ Becomes(p, program[p].next)
  /\ UNCHANGED <<computer, edits, linkFaults, saved, quiet>>

RenameEnds(p) ==
  /\ program[p].at = "relink" /\ program[p].paths = {}
  /\ Concludes(p, Edited(program[p].host, [field |-> "nick", value |-> program[p].value]))
  /\ UNCHANGED <<link, computer, edits, linkFaults, quiet>>

(* A program dies; its temporary file is never looked at.                  *)
ProgramDies(p) ==
  /\ program[p] # IdleProgram /\ Becomes(p, IdleProgram)
  /\ UNCHANGED <<link, computer, edits, linkFaults, saved, quiet, promised>>

ComputersNext ==
  \/ \E p \in LinkPrograms :
       \/ \E a \in Addresses : RoundBegins(p, a)
       \/ Probes(p) \/ SaveReads(p) \/ LinkWrites(p)
  \/ \E p \in Consoles :
       \/ ViewBegins(p)
       \/ \E h \in Hosts, edit \in Edits : EditBegins(p, h, edit)
       \/ ImportsNext(p) \/ EditReads(p)
       \/ RenameMatches(p) \/ RenameReads(p) \/ RenameWrites(p) \/ RenameEnds(p)
  \/ \E p \in Programs : RecordReads(p) \/ RecordWrites(p) \/ RecordFails(p) \/ ProgramDies(p)

ComputersSpec == ComputersInit /\ [][ComputersNext]_computersVars

-----------------------------------------------------------------------------
ComputersTypeOK ==
  /\ \A a \in Addresses :
       link[a] # NoRecord =>
         link[a].host \in Hosts /\ link[a].nick \in Nicknames \union {NoNick}
  /\ \A h \in Hosts : computer[h] # NoRecord =>
       /\ computer[h].host = h /\ computer[h].nick \in Nicknames \union {FirstNickname, NoNick}
       /\ computer[h].archived \in {"unset", "yes", "no"}
  /\ saved \subseteq Hosts /\ quiet \subseteq Programs

(* A machine whose link was once saved is remembered, even if its file     *)
(* could not be written then and its address now belongs to another.  Only *)
(* a second failed write can lose it, the one of whoever takes the address *)
(* over, which writes the link all the same.                               *)
MachinesRemembered ==
  linkFaults <= 1 =>
    \A h \in saved : computer[h] # NoRecord \/ \E a \in Addresses : link[a].host = h

(* An archiving or a nickname that no other program overlapped is kept     *)
(* through every later observation, whatever machine holds the address.    *)
EditsKept ==
  \A h \in Hosts, field \in {"nick", "archived"} :
    promised[h][field] # Unpromised => computer[h] # NoRecord /\ computer[h][field] = promised[h][field]

ComputersHold == ComputersTypeOK /\ MachinesRemembered /\ EditsKept
=============================================================================
