----------------------------- MODULE CopilotWork -----------------------------
(***************************************************************************)
(* The Copilot offload of the controller: prepare writes a packet's files  *)
(* into a directory of its own, dispatch checks them, hands the directory  *)
(* to the Copilot CLI and stores the response.  Each file is created with  *)
(* O_EXCL and filled by a second system call, so a crash can leave it      *)
(* empty.  Endpoints run in threads and share no lock; the operation gate  *)
(* refuses a dispatch with the fingerprint of one whose outcome is open,   *)
(* and two dispatches of one packet have different fingerprints when a     *)
(* source file was edited in between.                                      *)
(***************************************************************************)
EXTENDS Naturals, FiniteSets

CONSTANTS
  Packets,
  Dispatches,       \* dispatch requests
  PacketOf,         \* [Dispatches -> Packets]
  DispatchPrintOf,  \* per dispatch: its fingerprint at the gate
  MaxCopilotCrashes \* bound of the exploration

ASSUME CopilotAssumption == PacketOf \in [Dispatches -> Packets]

VARIABLES
  preparing,  \* per packet: the next step of prepare
  request,    \* per packet: request.md, as a file
  packetJson, \* per packet: packet.json, as a file
  response,   \* per packet: response.json
  sender,     \* per dispatch: where its thread is
  answer,     \* per dispatch: what the CLI made of it
  prepared, dispatchedLog, \* copilot-offload-events.jsonl: the events of each kind
  copilotCrashes,
  sent        \* history: per packet, the dispatches that started the CLI
copilotVars == <<preparing, request, packetJson, response, sender, answer,
                 prepared, dispatchedLog, copilotCrashes, sent>>

NoFile == "absent"
Files == {NoFile, "empty", "written"}
NoResponse == [file |-> NoFile, by |-> {}]

CopilotInit ==
  /\ preparing = [p \in Packets |-> "idle"]
  /\ request = [p \in Packets |-> NoFile] /\ packetJson = [p \in Packets |-> NoFile]
  /\ response = [p \in Packets |-> NoResponse]
  /\ sender = [d \in Dispatches |-> "new"] /\ answer = [d \in Dispatches |-> "none"]
  /\ prepared = {} /\ dispatchedLog = {} /\ copilotCrashes = 0
  /\ sent = [p \in Packets |-> {}]

(* prepare: the directory, request.md, packet.json, the event.             *)
PrepareStep(p, from, to) ==
  /\ preparing[p] = from /\ preparing' = [preparing EXCEPT ![p] = to]
  /\ UNCHANGED <<response, sender, answer, dispatchedLog, copilotCrashes, sent>>

MakesDirectory(p) ==
  PrepareStep(p, "idle", "request") /\ UNCHANGED <<request, packetJson, prepared>>

WritesRequest(p) ==
  /\ PrepareStep(p, "request", IF request[p] = NoFile THEN "request" ELSE "packet")
  /\ request' = [request EXCEPT ![p] = IF @ = NoFile THEN "empty" ELSE "written"]
  /\ UNCHANGED <<packetJson, prepared>>

WritesPacket(p) ==
  /\ PrepareStep(p, "packet", IF packetJson[p] = NoFile THEN "packet" ELSE "event")
  /\ packetJson' = [packetJson EXCEPT ![p] = IF @ = NoFile THEN "empty" ELSE "written"]
  /\ UNCHANGED <<request, prepared>>

LogsPrepared(p) ==
  /\ PrepareStep(p, "event", "done")
  /\ prepared' = prepared \union {p}
  /\ UNCHANGED <<request, packetJson>>

(* _load_packet: both files are read and their digests compared.           *)
Loads(p) == packetJson[p] = "written" /\ request[p] = "written"

DispatchStep(d, from, to) ==
  /\ sender[d] = from /\ sender' = [sender EXCEPT ![d] = to]
  /\ UNCHANGED <<preparing, request, packetJson, prepared, copilotCrashes>>

(* The gate: a dispatch in flight, or one that failed, bars its equals.    *)
DispatchBarred(d) ==
  \E e \in Dispatches \ {d} :
    DispatchPrintOf[e] = DispatchPrintOf[d] /\ sender[e] \notin {"new", "refused", "answered"}

(* The gate, the confirmation, the load, the switch for offloading and the lookup of *)
(* the response: any of them may end the request, some with a 503.         *)
Refused(d) ==
  /\ \E to \in {"refused", "failed"} : DispatchStep(d, "new", to)
  /\ UNCHANGED <<response, answer, dispatchedLog, sent>>

Admitted(d) ==
  /\ ~DispatchBarred(d)
  /\ Loads(PacketOf[d]) /\ response[PacketOf[d]].file = NoFile
  /\ DispatchStep(d, "new", "send")
  /\ UNCHANGED <<response, answer, dispatchedLog, sent>>

(* The CLI starts.                                                         *)
Sends(d) ==
  /\ DispatchStep(d, "send", "wait")
  /\ sent' = [sent EXCEPT ![PacketOf[d]] = @ \union {d}]
  /\ UNCHANGED <<response, answer, dispatchedLog>>

(* The CLI does not start: nothing is stored, and the answer is a 503,     *)
(* which leaves the outcome open at the gate.                              *)
CannotStart(d) ==
  /\ DispatchStep(d, "send", "failed")
  /\ UNCHANGED <<response, answer, dispatchedLog, sent>>

(* It ends; a failure or a timeout is a response as well.                  *)
Responds(d) ==
  /\ DispatchStep(d, "wait", "store")
  /\ \E status \in {"succeeded", "failed"} : answer' = [answer EXCEPT ![d] = status]
  /\ UNCHANGED <<response, dispatchedLog, sent>>

(* Mutation: the response file is opened without O_EXCL.                   *)
CreatesOver(d) ==
  /\ DispatchStep(d, "store", "fill")
  /\ response' = [response EXCEPT ![PacketOf[d]] = [file |-> "empty", by |-> {d}]]
  /\ UNCHANGED <<answer, dispatchedLog, sent>>

(* O_EXCL lets one dispatch create the file.                               *)
Creates(d) ==
  /\ response[PacketOf[d]].file = NoFile
  /\ DispatchStep(d, "store", "fill")
  /\ response' = [response EXCEPT ![PacketOf[d]] = [file |-> "empty", by |-> {d}]]
  /\ UNCHANGED <<answer, dispatchedLog, sent>>

(* The others raise there, after their CLI ran, without a trace in the     *)
(* log.                                                                    *)
CannotCreate(d) ==
  /\ response[PacketOf[d]].file # NoFile
  /\ DispatchStep(d, "store", "failed")
  /\ UNCHANGED <<response, answer, dispatchedLog, sent>>

Fills(d) ==
  /\ DispatchStep(d, "fill", "log")
  /\ response' = [response EXCEPT ![PacketOf[d]].file = "written"]
  /\ UNCHANGED <<answer, dispatchedLog, sent>>

LogsDispatched(d) ==
  /\ DispatchStep(d, "log", "answered")
  /\ dispatchedLog' = dispatchedLog \union {d}
  /\ UNCHANGED <<response, answer, sent>>

(* The controller dies: files stay as they are, threads are gone; the CLI  *)
(* processes it started may run on, and are of no consequence.             *)
Gone(d) == sender[d] \in {"send", "wait", "store", "fill", "log"}
ControllerDies ==
  /\ copilotCrashes < MaxCopilotCrashes /\ copilotCrashes' = copilotCrashes + 1
  /\ preparing' = [p \in Packets |->
                     IF preparing[p] \in {"request", "packet", "event"} THEN "dead" ELSE preparing[p]]
  /\ sender' = [d \in Dispatches |-> IF Gone(d) THEN "failed" ELSE sender[d]]
  /\ UNCHANGED <<request, packetJson, response, answer, prepared, dispatchedLog, sent>>

CopilotNext ==
  \/ \E p \in Packets :
       MakesDirectory(p) \/ WritesRequest(p) \/ WritesPacket(p) \/ LogsPrepared(p)
  \/ \E d \in Dispatches :
       \/ Refused(d) \/ Admitted(d) \/ Sends(d) \/ CannotStart(d) \/ Responds(d)
       \/ Creates(d) \/ CannotCreate(d) \/ Fills(d) \/ LogsDispatched(d)
  \/ ControllerDies

CopilotSpec == CopilotInit /\ [][CopilotNext]_copilotVars

-----------------------------------------------------------------------------
CopilotTypeOK ==
  /\ request \in [Packets -> Files] /\ packetJson \in [Packets -> Files]
  /\ \A p \in Packets : response[p].file \in Files /\ Cardinality(response[p].by) <= 1
  /\ preparing \in [Packets -> {"idle", "request", "packet", "event", "done", "dead"}]
  /\ sender \in [Dispatches -> {"new", "refused", "send", "wait", "store", "fill", "log",
                                "answered", "failed"}]
  /\ answer \in [Dispatches -> {"none", "succeeded", "failed"}]
  /\ prepared \subseteq Packets /\ dispatchedLog \subseteq Dispatches
  /\ sent \in [Packets -> SUBSET Dispatches]

(* What the CLI is given is a packet that was written to its end.          *)
OnlyWholePacketsSent == \A p \in Packets : sent[p] # {} => Loads(p)

(* A caller that got an answer finds it stored, and the log has at most    *)
(* one dispatch of each packet.                                            *)
AnswerIsStored ==
  /\ \A d \in Dispatches :
       sender[d] \in {"log", "answered"} =>
         response[PacketOf[d]] = [file |-> "written", by |-> {d}]
  /\ \A d, e \in dispatchedLog : PacketOf[d] = PacketOf[e] => d = e

CopilotHolds ==
  CopilotTypeOK /\ OnlyWholePacketsSent /\ AnswerIsStored
=============================================================================
