------------------------------- MODULE HidKvm -------------------------------
(***************************************************************************)
(* The USB keyboard and mouse broker of the Kali Pi (HidKvmState): it      *)
(* keeps what it believes to be pressed, writes reports to two endpoints   *)
(* the host may refuse to read, and a watchdog releases everything after   *)
(* two idle seconds.  All of it runs under one lock, so a request is one   *)
(* step; each of its writes may fail and leave the rest undone.            *)
(***************************************************************************)
EXTENDS Naturals, FiniteSets

CONSTANTS
  Keys,         \* browser codes: keys and modifiers
  Modifiers,    \* those of them that are not counted
  MaxKeys,      \* 6, the keys a boot keyboard report has room for
  BusyDevices,  \* the endpoints that may refuse a write
  IdleRelease,  \* IDLE_RELEASE_SECONDS, in ticks
  MaxRequests   \* bound of the exploration

ASSUME HidKvmAssumption ==
  /\ Modifiers \subseteq Keys /\ MaxKeys \in Nat \ {0}
  /\ IdleRelease \in Nat \ {0} /\ BusyDevices \subseteq {"keyboard", "mouse"}
  /\ MaxRequests \in Nat

VARIABLES
  pressed,      \* self.keys and self.modifiers
  buttons,      \* self.buttons: some button is down
  hostKeys,     \* external: the keys of the last report the host took
  hostButtons,  \* external: the buttons of the last report the host took
  lost,         \* the endpoints whose last write failed, or was another process's
  idle,         \* ticks since last_activity
  requests

kvmVars == <<pressed, buttons, hostKeys, hostButtons, lost, idle, requests>>

HidKvmInit ==
  /\ pressed = {} /\ hostKeys = {} /\ lost = {}
  /\ buttons = FALSE /\ hostButtons = FALSE
  /\ idle = 0 /\ requests = 0

Outcomes(device) == IF device \in BusyDevices THEN BOOLEAN ELSE {TRUE}

(* _write_hid: the host takes the report, or the endpoint stays busy.      *)
Wrote(device, ok) == lost' = IF ok THEN lost \ {device} ELSE lost \cup {device}

Request == requests < MaxRequests /\ requests' = requests + 1

Room(key) ==
  key \in Modifiers \/ key \in pressed \/ Cardinality(pressed \ Modifiers) < MaxKeys

(* The report built before the request is applied.                         *)
KeyReportsFirst(key, down) ==
  /\ Request
  /\ down => Room(key)
  /\ pressed' = IF down THEN pressed \cup {key} ELSE pressed \ {key}
  /\ \E ok \in Outcomes("keyboard") :
       /\ Wrote("keyboard", ok)
       /\ hostKeys' = IF ok THEN pressed ELSE hostKeys
       /\ idle' = IF ok THEN 0 ELSE idle
  /\ UNCHANGED <<buttons, hostButtons>>

(* handle "key": the state changes before the report is written.           *)
Key(key, down) ==
  /\ Request
  /\ down => Room(key)
  /\ pressed' = IF down THEN pressed \cup {key} ELSE pressed \ {key}
  /\ \E ok \in Outcomes("keyboard") :
       /\ Wrote("keyboard", ok)
       /\ hostKeys' = IF ok THEN pressed' ELSE hostKeys
       /\ idle' = IF ok THEN 0 ELSE idle
  /\ UNCHANGED <<buttons, hostButtons>>

(* handle "pointer".                                                       *)
Pointer(down) ==
  /\ Request
  /\ buttons' = down
  /\ \E ok \in Outcomes("mouse") :
       /\ Wrote("mouse", ok)
       /\ hostButtons' = IF ok THEN down ELSE hostButtons
       /\ idle' = IF ok THEN 0 ELSE idle
  /\ UNCHANGED <<pressed, hostKeys>>

(* A character is two reports, its key and an empty one; the second may    *)
(* fail after the first was taken.  What is held is forgotten by the host  *)
(* and not by the broker.                                                  *)
Types(key) ==
  \E first, second \in Outcomes("keyboard") :
    /\ Wrote("keyboard", first /\ second)
    /\ hostKeys' = IF ~first THEN hostKeys ELSE IF second THEN {} ELSE {key}
    /\ idle' = IF first /\ second THEN 0 ELSE idle

(* handle "character".                                                     *)
Character(key) ==
  /\ Request
  /\ Types(key)
  /\ UNCHANGED <<pressed, buttons, hostButtons>>

(* handle "text" starts with a release of the keyboard alone.              *)
Text(key) ==
  /\ Request
  /\ pressed' = {}
  /\ \/ Types(key)
     \/ /\ FALSE \in Outcomes("keyboard")
        /\ Wrote("keyboard", FALSE)
        /\ UNCHANGED <<hostKeys, idle>>
  /\ UNCHANGED <<buttons, hostButtons>>

(* _release: the keyboard is forgotten and written, then the mouse; a      *)
(* failing keyboard write leaves the mouse alone.                          *)
ReleaseAll ==
  /\ pressed' = {}
  /\ \/ /\ hostKeys' = {} /\ buttons' = FALSE
        /\ \E ok \in Outcomes("mouse") :
             /\ hostButtons' = IF ok THEN FALSE ELSE hostButtons
             /\ lost' = IF ok THEN {} ELSE {"mouse"}
             /\ idle' = IF ok THEN 0 ELSE idle
     \/ /\ FALSE \in Outcomes("keyboard")
        /\ Wrote("keyboard", FALSE)
        /\ UNCHANGED <<hostKeys, buttons, hostButtons, idle>>

OperatorReleases == Request /\ ReleaseAll

(* The watchdog with a test of the keys alone.                             *)
WatchdogIgnoresModifiers ==
  /\ pressed \ Modifiers # {} \/ buttons
  /\ idle >= IdleRelease
  /\ ReleaseAll
  /\ UNCHANGED requests

(* release_if_idle, polled by the watchdog thread.                         *)
WatchdogReleases ==
  /\ pressed # {} \/ buttons
  /\ idle >= IdleRelease
  /\ ReleaseAll
  /\ UNCHANGED requests

(* The broker is killed and started again by systemd.  SIGTERM is not      *)
(* handled, so server_close does not release first, and the new process    *)
(* knows of nothing the host holds.                                        *)
BrokerRestarts ==
  /\ Request
  /\ pressed' = {} /\ buttons' = FALSE /\ idle' = 0
  /\ lost' = {"keyboard", "mouse"}
  /\ UNCHANGED <<hostKeys, hostButtons>>

TimePasses ==
  /\ idle < IdleRelease
  /\ idle' = idle + 1
  /\ UNCHANGED <<pressed, buttons, hostKeys, hostButtons, lost, requests>>

HidKvmNext ==
  \/ \E key \in Keys, down \in BOOLEAN : Key(key, down)
  \/ \E key \in Keys : Character(key) \/ Text(key)
  \/ \E down \in BOOLEAN : Pointer(down)
  \/ OperatorReleases \/ WatchdogReleases \/ TimePasses \/ BrokerRestarts

HidKvmSpec ==
  /\ HidKvmInit /\ [][HidKvmNext]_kvmVars
  /\ WF_kvmVars(WatchdogReleases) /\ WF_kvmVars(TimePasses)

-----------------------------------------------------------------------------
HidKvmTypeOK ==
  /\ pressed \subseteq Keys /\ hostKeys \subseteq Keys
  /\ buttons \in BOOLEAN /\ hostButtons \in BOOLEAN
  /\ lost \subseteq {"keyboard", "mouse"}
  /\ idle \in 0..IdleRelease /\ requests \in 0..MaxRequests

(* The host holds nothing the broker does not know of, except after a      *)
(* write the endpoint refused or a restart: status() and the watchdog rely *)
(* on it.  Every refused key-up and release is excepted: the broker has    *)
(* forgotten the key before it writes.                                     *)
HostHoldsKnown ==
  /\ "keyboard" \notin lost => hostKeys \subseteq pressed
  /\ "mouse" \notin lost => (hostButtons => buttons)

(* The report never needs more than its six places.                        *)
ReportFits == Cardinality(pressed \ Modifiers) <= MaxKeys

KvmHolds == HidKvmTypeOK /\ HostHoldsKnown /\ ReportFits

(* When the requests end, the watchdog releases what the host holds,       *)
(* unless the last report of this process did not reach the host.          *)
IdleReleases == <>[]("keyboard" \in lost \/ hostKeys = {})
=============================================================================
