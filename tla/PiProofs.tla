------------------------------ MODULE PiProofs ------------------------------
(***************************************************************************)
(* What the programs of the Raspberry Pis keep, for every value of the     *)
(* constants, and what follows for all of them on one machine.             *)
(***************************************************************************)
EXTENDS MCPi, FiniteSetTheorems, SequenceTheorems, TLAPS

-----------------------------------------------------------------------------
(* RescueBoot                                                              *)

\* What the early service has read and not yet recorded.
Live == early \in {"reset", "record"}

\* The armings on their way to a boot.
Underway == {x \in Arming : x = chosen \/ x = pending \/ (Live /\ x = loaded)}

\* Every arming under way was given its number, has not been shown, is not the
\* active one, and is the only one with its number.
UnderwayFresh ==
    \A x \in Underway :
        /\ x.arm <= arms /\ shown[x.arm] = {} /\ x.arm \notin withdrawn
        /\ active.arm # x.arm
        /\ \A y \in Underway : y.arm = x.arm => y = x

\* An arming that was chosen has the last number, which nobody else has.
ChosenIsLast ==
    chosen # Normal =>
        chosen.arm = arms /\ pending.arm # arms /\ (Live => loaded.arm # arms)

\* The reset took away what the early service read.
ReadIsTaken == early = "record" /\ loaded # Normal => pending.arm # loaded.arm

BootBegins ==
    /\ early # "done" => boots >= 1
    /\ active # Normal => boots >= 1 /\ active.arm <= arms

\* The active arming was recorded in this boot, unless its early service failed.
ActiveIsNew ==
    early = "done" /\ boots \notin failed /\ active # Normal =>
        shown[active.arm] \ failed \subseteq {boots}

WithdrawnGone ==
    \A a \in withdrawn : a <= arms /\ shown[a] = {} /\ active.arm # a

ShownInOne == \A a \in 1..MaxArms : \E b \in Nat : shown[a] \ failed \subseteq {b}

ShownBefore == \A a \in 1..MaxArms : shown[a] # {} => a <= arms

RescueInv ==
    /\ RescueTypeOK /\ UnderwayFresh /\ ChosenIsLast /\ ReadIsTaken /\ BootBegins
    /\ ActiveIsNew /\ WithdrawnGone /\ ShownInOne /\ ShownBefore

LEMMA ArmingNumbers ==
    /\ MaxArms \in Nat /\ MaxBoots \in Nat
    /\ Normal \notin Arming /\ Damaged \notin Arming /\ Normal # Damaged
    /\ Normal.arm = 0 /\ Damaged.arm = MaxArms + 1
    /\ \A x \in Arming : x.arm \in 1..MaxArms
BY RescueAssumption DEF Arming, Normal, Damaged

LEMMA RescueInvHolds ==
    ASSUME RescueInv
    PROVE  RescueHolds
<1>1. ASSUME NEW a \in 1..MaxArms PROVE Cardinality(shown[a] \ failed) <= 1
  <2>1. PICK b \in Nat : shown[a] \ failed \subseteq {b}
    BY DEF RescueInv, ShownInOne
  <2>2. IsFiniteSet({b}) /\ Cardinality({b}) = 1
    BY FS_Singleton
  <2>3. /\ IsFiniteSet(shown[a] \ failed)
        /\ Cardinality(shown[a] \ failed) <= Cardinality({b})
    BY <2>1, <2>2, FS_Subset
  <2> QED BY <2>2, <2>3
<1>2. WithdrawnStays
  BY DEF RescueInv, WithdrawnGone, WithdrawnStays
<1> QED BY <1>1, <1>2 DEF RescueInv, RescueHolds, ShownOnceUnlessFailed

LEMMA RescueInvInit == RescueInit => RescueInv
<1> SUFFICES ASSUME RescueInit PROVE RescueInv
  OBVIOUS
<1>1. /\ pending = Normal /\ active = Normal /\ loaded = Normal /\ chosen = Normal
      /\ exported = Normal /\ early = "done" /\ boots = 0 /\ arms = 0
      /\ failed = {} /\ withdrawn = {} /\ importing = {}
      /\ \A a \in 1..MaxArms : shown[a] = {}
  BY DEF RescueInit
<1>2. Underway = {}
  BY <1>1, ArmingNumbers DEF Underway, Live
<1>3. RescueTypeOK
  <2>1. /\ registered \in [Images -> Contents \union {NoImage}]
        /\ stored \in [Images -> Contents \union {NoImage}]
        /\ shown \in [1..MaxArms -> SUBSET (1..MaxBoots)]
    BY DEF RescueInit
  <2> QED BY <1>1, <2>1, ArmingNumbers DEF RescueTypeOK, Pending
<1>4. UnderwayFresh /\ ChosenIsLast /\ ReadIsTaken /\ BootBegins /\ ActiveIsNew
      /\ WithdrawnGone /\ ShownBefore
  BY <1>1, <1>2 DEF UnderwayFresh, ChosenIsLast, ReadIsTaken, BootBegins, ActiveIsNew,
     WithdrawnGone, ShownBefore
<1>5. ShownInOne
  BY <1>1 DEF ShownInOne
<1> QED BY <1>3, <1>4, <1>5 DEF RescueInv

\* Steps after which fewer armings are under way.
LEMMA FreshKept ==
    ASSUME UnderwayFresh, Underway' \subseteq Underway, arms' = arms,
           \A x \in Underway' : shown'[x.arm] = {} /\ x.arm \notin withdrawn' /\ active'.arm # x.arm
    PROVE  UnderwayFresh'
BY DEF UnderwayFresh

\* The image store is changed, and nothing else.
LEMMA RescueImages ==
    ASSUME RescueInv, UNCHANGED <<pending, active, operatorVars, bootVars, withdrawn>>,
           registered' \in [Images -> Contents \union {NoImage}],
           stored' \in [Images -> Contents \union {NoImage}],
           importing' \subseteq Images
    PROVE  RescueInv'
<1>1. UNCHANGED <<pending, active, chosen, arms, early, loaded, exported, boots, shown,
                  failed, withdrawn>>
  BY DEF operatorVars, bootVars
<1>2. RescueTypeOK' /\ UnderwayFresh'
  BY <1>1 DEF RescueInv, RescueTypeOK, UnderwayFresh, Underway, Live
<1> QED BY <1>1, <1>2 DEF RescueInv, ChosenIsLast, ReadIsTaken, BootBegins, ActiveIsNew,
        WithdrawnGone, ShownInOne, ShownBefore, Live

LEMMA RescueStoreSteps ==
    ASSUME RescueInv,
           \/ \E i \in Images, c \in Contents : ImportCopies(i, c)
           \/ \E i \in importing : ImportRegisters(i, stored[i])
           \/ \E i \in Images : Tamper(i)
    PROVE  RescueInv'
<1>1. /\ registered \in [Images -> Contents \union {NoImage}]
      /\ stored \in [Images -> Contents \union {NoImage}]
      /\ importing \subseteq Images
  BY DEF RescueInv, RescueTypeOK
<1>2. ASSUME NEW i \in Images, NEW c \in Contents, ImportCopies(i, c) PROVE RescueInv'
  BY <1>1, <1>2, RescueImages DEF ImportCopies
<1>3. ASSUME NEW i \in importing, ImportRegisters(i, stored[i]) PROVE RescueInv'
  BY <1>1, <1>3, RescueImages DEF ImportRegisters
<1>4. ASSUME NEW i \in Images, Tamper(i) PROVE RescueInv'
  BY <1>1, <1>4, RescueImages DEF Tamper
<1> QED BY <1>2, <1>3, <1>4

\* An arming is given its number.
LEMMA RescueSelects ==
    ASSUME RescueInv, NEW i \in Images, ArmSelects(i)
    PROVE  RescueInv'
<1> DEFINE new == [image |-> i, arm |-> arms + 1]
<1>1. /\ chosen = Normal /\ arms < MaxArms /\ arms' = arms + 1 /\ chosen' = new
      /\ UNCHANGED <<registered, stored, importing, pending, active, early, loaded, exported,
                     boots, shown, failed, withdrawn>>
  BY DEF ArmSelects, imageVars, bootVars
<1>2. /\ arms \in 0..MaxArms /\ arms + 1 \in 1..MaxArms /\ arms \in Nat
      /\ pending \in Pending /\ loaded \in Arming \union {Normal}
      /\ active \in Arming \union {Normal} /\ withdrawn \subseteq 1..MaxArms
  BY <1>1, ArmingNumbers DEF RescueInv, RescueTypeOK
<1>3. new \in Arming /\ new.arm = arms + 1 /\ new # Normal
  BY <1>2, ArmingNumbers DEF Arming
<1> HIDE DEF new
<1>4. RescueTypeOK'
  BY <1>1, <1>2, <1>3, ArmingNumbers DEF RescueInv, RescueTypeOK
<1>5. /\ pending.arm # arms + 1 /\ (Live => loaded.arm # arms + 1)
      /\ active.arm # arms + 1 /\ arms + 1 \notin withdrawn /\ shown[arms + 1] = {}
      /\ \A x \in Underway : x.arm <= arms
  <2>1. \A x \in Underway : x.arm <= arms
    BY DEF RescueInv, UnderwayFresh
  <2>2. pending.arm # arms + 1
    <3>1. pending \in Arming => pending.arm <= arms
      BY <2>1 DEF Underway
    <3> QED BY <1>2, <3>1, ArmingNumbers DEF Pending
  <2>3. Live => loaded.arm # arms + 1
    <3>1. Live /\ loaded \in Arming => loaded.arm <= arms
      BY <2>1 DEF Underway
    <3> QED BY <1>2, <3>1, ArmingNumbers
  <2>4. active.arm # arms + 1
    <3>1. active # Normal => active.arm <= arms
      BY DEF RescueInv, BootBegins
    <3> QED BY <1>2, <3>1, ArmingNumbers
  <2>5. arms + 1 \notin withdrawn
    BY <1>2 DEF RescueInv, WithdrawnGone
  <2>6. shown[arms + 1] = {}
    BY <1>2 DEF RescueInv, ShownBefore
  <2> QED BY <2>1, <2>2, <2>3, <2>4, <2>5, <2>6
<1>6. UnderwayFresh'
  <2>1. Underway' = Underway \union {new}
    BY <1>1, <1>3, ArmingNumbers DEF Underway, Live
  <2>2. \A x \in Underway : /\ x.arm \in Nat /\ shown[x.arm] = {} /\ x.arm \notin withdrawn
                            /\ active.arm # x.arm
                            /\ \A y \in Underway : y.arm = x.arm => y = x
    BY ArmingNumbers DEF Underway, RescueInv, UnderwayFresh
  <2>3. \A x \in Underway' : /\ x.arm <= arms' /\ shown[x.arm] = {} /\ x.arm \notin withdrawn
                             /\ active.arm # x.arm
    BY <1>1, <1>2, <1>3, <1>5, <2>1, <2>2
  <2>4. \A x \in Underway', y \in Underway' : y.arm = x.arm => y = x
    BY <1>2, <1>3, <1>5, <2>1, <2>2
  <2> QED BY <1>1, <2>3, <2>4 DEF UnderwayFresh
<1>7. ChosenIsLast' /\ ReadIsTaken' /\ BootBegins' /\ ActiveIsNew' /\ WithdrawnGone'
  <2>1. ChosenIsLast' /\ ReadIsTaken'
    BY <1>1, <1>3, <1>5 DEF RescueInv, ChosenIsLast, ReadIsTaken, Live
  <2>2. BootBegins'
    <3>1. active # Normal => active.arm <= arms + 1
      BY <1>2, ArmingNumbers DEF RescueInv, BootBegins
    <3> QED BY <1>1, <3>1 DEF RescueInv, BootBegins
  <2>3. WithdrawnGone' /\ ActiveIsNew'
    BY <1>1, <1>2 DEF RescueInv, WithdrawnGone, ActiveIsNew
  <2> QED BY <2>1, <2>2, <2>3
<1>8. ShownInOne' /\ ShownBefore'
  BY <1>1, <1>2 DEF RescueInv, ShownInOne, ShownBefore
<1> QED BY <1>4, <1>6, <1>7, <1>8 DEF RescueInv

\* What a writer of next-boot.json takes away is nowhere else.
LEMMA UnreadGone ==
    ASSUME RescueInv, NEW a \in Unread
    PROVE  /\ a \in 1..MaxArms /\ a = pending.arm /\ a <= arms
           /\ shown[a] = {} /\ active.arm # a
           /\ chosen # Normal => chosen.arm # a
           /\ Live => loaded.arm # a
<1>1. /\ pending \in Arming /\ a = pending.arm /\ ~(loaded = pending /\ early # "done")
  BY DEF Unread
<1>2. pending \in Underway
  BY <1>1 DEF Underway
<1>3. a \in 1..MaxArms /\ a <= arms /\ shown[a] = {} /\ active.arm # a
  BY <1>1, <1>2, ArmingNumbers DEF RescueInv, UnderwayFresh
<1>4. chosen # Normal => chosen.arm # a
  BY <1>1 DEF RescueInv, ChosenIsLast
<1>5. ASSUME Live PROVE loaded.arm # a
  <2>1. loaded # pending
    BY <1>1, <1>5 DEF Live
  <2>2. CASE loaded \in Arming
    <3>1. loaded \in Underway
      BY <1>5, <2>2 DEF Underway
    <3> QED BY <1>1, <1>2, <2>1, <3>1 DEF RescueInv, UnderwayFresh
  <2>3. CASE loaded = Normal
    BY <1>3, <2>3, ArmingNumbers
  <2> QED BY <2>2, <2>3 DEF RescueInv, RescueTypeOK
<1> QED BY <1>1, <1>3, <1>4, <1>5

\* next-boot.json is replaced, by the operator or by the early service's reset.
LEMMA RescueReplaces ==
    ASSUME RescueInv,
           UNCHANGED <<imageVars, arms, loaded, exported, boots, shown, failed>>,
           \/ chosen # Normal /\ pending' = chosen /\ chosen' = Normal /\ active' = active
           \/ pending' = Normal /\ chosen' = chosen /\ active' \in {active, Normal},
           \/ early' = early
           \/ early = "reset" /\ early' = "record" /\ pending' = Normal,
           withdrawn \subseteq withdrawn', withdrawn' \subseteq withdrawn \union Unread
    PROVE  RescueInv'
<1>1. UNCHANGED <<registered, stored, importing>>
  BY DEF imageVars
<1>2. /\ chosen \in Arming \union {Normal} /\ loaded \in Arming \union {Normal}
      /\ active \in Arming \union {Normal} /\ active' \in Arming \union {Normal}
      /\ Live' = Live /\ arms \in Nat
  BY DEF RescueInv, RescueTypeOK, Live
<1>3. Unread \subseteq 1..MaxArms
  BY UnreadGone
<1>4. RescueTypeOK'
  <2>1. pending' \in Pending /\ chosen' \in Arming \union {Normal}
    BY <1>2 DEF Pending
  <2>2. early' \in {"load", "reset", "record", "done"}
    BY DEF RescueInv, RescueTypeOK
  <2>3. withdrawn' \subseteq 1..MaxArms
    BY <1>3 DEF RescueInv, RescueTypeOK
  <2>4. exported \in Arming \union {Normal}
    BY DEF RescueInv, RescueTypeOK
  <2> QED BY <1>1, <1>2, <2>1, <2>2, <2>3, <2>4 DEF RescueInv, RescueTypeOK
<1>5. UnderwayFresh'
  <2>1. Underway' \subseteq Underway
    BY <1>2, ArmingNumbers DEF Underway
  <2>2. ASSUME NEW x \in Underway'
        PROVE  shown'[x.arm] = {} /\ x.arm \notin withdrawn' /\ active'.arm # x.arm
    <3>1. x \in Underway /\ x \in Arming /\ x.arm \in 1..MaxArms
      BY <2>1, ArmingNumbers DEF Underway
    <3>2. shown[x.arm] = {} /\ x.arm \notin withdrawn /\ active.arm # x.arm
      BY <3>1 DEF RescueInv, UnderwayFresh
    <3>3. x.arm \notin Unread
      <4>1. \/ x = chosen /\ chosen # Normal
            \/ Live /\ x = loaded
        BY <1>2, <2>2, <3>1, ArmingNumbers DEF Underway
      <4> QED BY <4>1, UnreadGone
    <3>4. active'.arm # x.arm
      BY <3>1, <3>2, ArmingNumbers
    <3> QED BY <3>2, <3>3, <3>4
  <2> QED BY <2>1, <2>2, FreshKept DEF RescueInv
<1>6. ChosenIsLast'
  <2>1. chosen # Normal => arms # 0
    BY <1>2, ArmingNumbers DEF RescueInv, ChosenIsLast
  <2> QED BY <1>2, <2>1, ArmingNumbers DEF RescueInv, ChosenIsLast
<1>7. ReadIsTaken'
  <2> SUFFICES ASSUME early' = "record", loaded # Normal
               PROVE  pending'.arm # loaded.arm
    BY DEF ReadIsTaken
  <2>1. Live /\ loaded.arm # 0
    BY <1>2, ArmingNumbers DEF Live
  <2> QED BY <1>2, <2>1, ArmingNumbers DEF RescueInv, ChosenIsLast
<1>8. BootBegins' /\ ActiveIsNew'
  BY <1>1 DEF RescueInv, BootBegins, ActiveIsNew
<1>9. WithdrawnGone'
  <2> SUFFICES ASSUME NEW a \in withdrawn'
               PROVE  a <= arms /\ shown[a] = {} /\ active'.arm # a
    BY DEF WithdrawnGone
  <2>1. a \in 1..MaxArms
    BY <1>3 DEF RescueInv, RescueTypeOK
  <2>2. a <= arms /\ shown[a] = {} /\ active.arm # a
    BY UnreadGone DEF RescueInv, WithdrawnGone
  <2> QED BY <2>1, <2>2, ArmingNumbers
<1>10. ShownInOne' /\ ShownBefore'
  BY DEF RescueInv, ShownInOne, ShownBefore
<1> QED BY <1>4, <1>5, <1>6, <1>7, <1>8, <1>9, <1>10 DEF RescueInv

LEMMA RescueReplacings ==
    ASSUME RescueInv, ArmWrites \/ Cancel \/ RebootNormal \/ ConsumeResets
    PROVE  RescueInv'
<1>1. CASE ArmWrites
  BY <1>1, RescueReplaces DEF ArmWrites, bootVars
<1>2. CASE Cancel
  BY <1>2, RescueReplaces DEF Cancel, operatorVars, bootVars
<1>3. CASE RebootNormal
  BY <1>3, RescueReplaces DEF RebootNormal, operatorVars, bootVars
<1>4. CASE ConsumeResets
  BY <1>4, RescueReplaces DEF ConsumeResets, operatorVars
<1> QED BY <1>1, <1>2, <1>3, <1>4

\* The early service ends without an active state, or gives up before it; or an
\* arming is dropped.
LEMMA RescueEnds ==
    ASSUME RescueInv,
           UNCHANGED <<imageVars, arms, loaded, exported, boots, shown, withdrawn>>,
           \/ early' = early /\ failed' = failed /\ active' = active
           \/ early' = "done" /\ active' = Normal /\ failed' = failed
           \/ early # "done" /\ early' = "done" /\ active' = active
              /\ failed' = failed \union {boots},
           chosen' \in {chosen, Normal}, pending' \in {pending, Normal},
           pending' = pending \/ early' = "done"
    PROVE  RescueInv'
<1>1. UNCHANGED <<registered, stored, importing>>
  BY DEF imageVars
<1>2. /\ chosen \in Arming \union {Normal} /\ loaded \in Arming \union {Normal}
      /\ active \in Arming \union {Normal} /\ active' \in {active, Normal}
      /\ boots \in 0..MaxBoots /\ boots \in Nat /\ Live' => Live
      /\ failed \subseteq failed' /\ failed' \subseteq failed \union {boots}
      /\ early # "done" => boots \in 1..MaxBoots
  BY ArmingNumbers DEF RescueInv, RescueTypeOK, Live, BootBegins
<1>3. RescueTypeOK'
  <2>1. /\ pending' \in Pending
        /\ {active', chosen', exported'} \subseteq Arming \union {Normal}
    BY <1>2 DEF RescueInv, RescueTypeOK, Pending
  <2>2. early' \in {"load", "reset", "record", "done"}
    BY DEF RescueInv, RescueTypeOK
  <2>3. failed' \subseteq 1..MaxBoots
    BY <1>2 DEF RescueInv, RescueTypeOK
  <2> QED BY <1>1, <2>1, <2>2, <2>3 DEF RescueInv, RescueTypeOK
<1>4. UnderwayFresh'
  <2>1. Underway' \subseteq Underway
    <3>1. Live' => Live /\ loaded' = loaded
      BY DEF Live
    <3>2. ASSUME NEW x \in Underway' PROVE x \in Underway
      BY <3>1, ArmingNumbers DEF Underway
    <3> QED BY <3>2
  <2>2. \A x \in Underway : /\ shown[x.arm] = {} /\ x.arm \notin withdrawn
                            /\ active'.arm # x.arm
    BY <1>2, ArmingNumbers DEF RescueInv, UnderwayFresh, Underway
  <2> QED BY <2>1, <2>2, FreshKept DEF RescueInv
<1>5. ChosenIsLast'
  <2>1. chosen # Normal => arms # 0
    BY <1>2, ArmingNumbers DEF RescueInv, ChosenIsLast
  <2>2. ASSUME chosen' # Normal
        PROVE  chosen'.arm = arms /\ pending'.arm # arms /\ (Live' => loaded.arm # arms)
    <3>1. chosen' = chosen /\ chosen # Normal
      BY <2>2
    <3>2. chosen.arm = arms /\ pending.arm # arms /\ (Live => loaded.arm # arms)
      BY <3>1 DEF RescueInv, ChosenIsLast
    <3>3. pending'.arm # arms
      BY <2>1, <3>1, <3>2, ArmingNumbers
    <3>4. Live' => Live
      BY DEF Live
    <3> QED BY <3>1, <3>2, <3>3, <3>4
  <2> QED BY <2>2 DEF ChosenIsLast
<1>6. ReadIsTaken' /\ BootBegins'
  BY <1>2 DEF RescueInv, ReadIsTaken, BootBegins
<1>7. ActiveIsNew'
  BY <1>2 DEF RescueInv, ActiveIsNew
<1>8. WithdrawnGone'
  <2>1. withdrawn \subseteq 1..MaxArms
    BY DEF RescueInv, RescueTypeOK
  <2> QED BY <1>2, <2>1, ArmingNumbers DEF RescueInv, WithdrawnGone
<1>9. ShownInOne'
  <2> SUFFICES ASSUME NEW a \in 1..MaxArms
               PROVE  \E b \in Nat : shown[a] \ failed' \subseteq {b}
    BY DEF ShownInOne
  <2>1. PICK b \in Nat : shown[a] \ failed \subseteq {b}
    BY DEF RescueInv, ShownInOne
  <2> QED BY <1>2, <2>1
<1>10. ShownBefore'
  BY DEF RescueInv, ShownBefore
<1> QED BY <1>3, <1>4, <1>5, <1>6, <1>7, <1>8, <1>9, <1>10 DEF RescueInv

LEMMA RescueEndings ==
    ASSUME RescueInv, ConsumeFails \/ RescueArmFails
    PROVE  RescueInv'
<1>1. CASE ConsumeFails
  BY <1>1, RescueEnds DEF ConsumeFails, operatorVars
<1>2. CASE RescueArmFails
  BY <1>2, RescueEnds DEF RescueArmFails, bootVars
<1> QED BY <1>1, <1>2

LEMMA RescueLoads ==
    ASSUME RescueInv, ConsumeLoads
    PROVE  RescueInv'
<1>1. CASE pending = Damaged
  <2>1. /\ UNCHANGED <<imageVars, arms, loaded, exported, boots, shown, withdrawn>>
        /\ early # "done" /\ early' = "done" /\ active' = active
        /\ failed' = failed \union {boots} /\ chosen' = chosen /\ pending' = Normal
    BY <1>1 DEF ConsumeLoads, operatorVars
  <2> QED BY <2>1, RescueEnds
<1>2. CASE pending # Damaged
  <2>1. /\ UNCHANGED <<registered, stored, importing, pending, active, chosen, arms, exported,
                       boots, shown, failed, withdrawn>>
        /\ early = "load" /\ early' = "reset" /\ loaded' = pending
    BY <1>2 DEF ConsumeLoads, imageVars, operatorVars
  <2>2. pending \in Arming \union {Normal}
    BY <1>2 DEF RescueInv, RescueTypeOK, Pending
  <2>3. RescueTypeOK'
    BY <2>1, <2>2 DEF RescueInv, RescueTypeOK
  <2>4. UnderwayFresh'
    <3>1. Underway' = Underway
      BY <2>1 DEF Underway, Live
    <3> QED BY <2>1, <3>1 DEF RescueInv, UnderwayFresh
  <2> QED BY <2>1, <2>3, <2>4 DEF RescueInv, ChosenIsLast, ReadIsTaken, BootBegins,
          ActiveIsNew, WithdrawnGone, ShownInOne, ShownBefore, Live
<1> QED BY <1>1, <1>2

\* The arming that was read becomes the active one, or nothing does.
LEMMA RescueRecords ==
    ASSUME RescueInv, ConsumeRecords
    PROVE  RescueInv'
<1>1. /\ UNCHANGED <<registered, stored, importing, pending, chosen, arms, loaded, exported,
                     boots, shown, failed, withdrawn>>
      /\ early = "record" /\ early' = "done" /\ active' \in {loaded, Normal}
  BY DEF ConsumeRecords, imageVars, operatorVars
<1>2. CASE active' = Normal
  BY <1>1, <1>2, RescueEnds DEF imageVars
<1>3. CASE active' = loaded /\ loaded # Normal
  <2>1. loaded \in Arming /\ loaded \in Underway /\ Live
    BY <1>1, <1>3 DEF RescueInv, RescueTypeOK, Underway, Live
  <2>2. /\ loaded.arm <= arms /\ shown[loaded.arm] = {} /\ loaded.arm \notin withdrawn
        /\ loaded.arm \in 1..MaxArms
    BY <2>1, ArmingNumbers DEF RescueInv, UnderwayFresh
  <2>3. pending.arm # loaded.arm /\ (chosen # Normal => chosen.arm # loaded.arm)
    BY <1>1, <1>3, <2>1 DEF RescueInv, ReadIsTaken, ChosenIsLast
  <2>4. RescueTypeOK'
    BY <1>1, <1>3, <2>1 DEF RescueInv, RescueTypeOK
  <2>5. UnderwayFresh'
    <3>1. \A x \in Underway' : x \in Underway /\ x.arm # loaded.arm
      BY <1>1, <2>3, ArmingNumbers DEF Underway, Live
    <3>2. \A x \in Underway' : shown[x.arm] = {} /\ x.arm \notin withdrawn
      BY <3>1 DEF RescueInv, UnderwayFresh
    <3> QED BY <1>1, <1>3, <3>1, <3>2, FreshKept DEF RescueInv
  <2>6. ChosenIsLast' /\ ReadIsTaken'
    BY <1>1 DEF RescueInv, ChosenIsLast, ReadIsTaken, Live
  <2>7. BootBegins' /\ ActiveIsNew' /\ WithdrawnGone'
    BY <1>1, <1>3, <2>2 DEF RescueInv, BootBegins, ActiveIsNew, WithdrawnGone
  <2> QED BY <1>1, <2>4, <2>5, <2>6, <2>7 DEF RescueInv, ShownInOne, ShownBefore
<1> QED BY <1>1, <1>2, <1>3

\* The gadget shows the active image.
LEMMA RescueShows ==
    ASSUME RescueInv, GadgetStarts
    PROVE  RescueInv'
<1> DEFINE a == active.arm
<1>1. /\ UNCHANGED <<registered, stored, importing, pending, active, chosen, arms, early,
                     loaded, boots, failed, withdrawn>>
      /\ early = "done" /\ active # Normal /\ exported' = active
      /\ shown' = [shown EXCEPT ![a] = @ \union {boots}]
  BY DEF GadgetStarts, imageVars, operatorVars
<1>2. /\ a \in 1..MaxArms /\ a <= arms /\ boots \in 1..MaxBoots /\ active \in Arming
      /\ shown \in [1..MaxArms -> SUBSET (1..MaxBoots)]
  BY <1>1, ArmingNumbers DEF RescueInv, RescueTypeOK, BootBegins
<1>3. /\ shown'[a] = shown[a] \union {boots}
      /\ \A x \in 1..MaxArms : x # a => shown'[x] = shown[x]
      /\ shown' \in [1..MaxArms -> SUBSET (1..MaxBoots)]
  BY <1>1, <1>2
<1>4. RescueTypeOK'
  BY <1>1, <1>2, <1>3 DEF RescueInv, RescueTypeOK
<1>5. UnderwayFresh'
  <2>1. Underway' = Underway
    BY <1>1 DEF Underway, Live
  <2>2. \A x \in Underway : x.arm \in 1..MaxArms /\ x.arm # a
    BY ArmingNumbers DEF RescueInv, UnderwayFresh, Underway
  <2> QED BY <1>1, <1>3, <2>1, <2>2 DEF RescueInv, UnderwayFresh
<1>6. ChosenIsLast' /\ ReadIsTaken' /\ BootBegins'
  BY <1>1 DEF RescueInv, ChosenIsLast, ReadIsTaken, BootBegins, Live
<1>7. ActiveIsNew'
  BY <1>1, <1>3 DEF RescueInv, ActiveIsNew
<1>8. WithdrawnGone' /\ ShownBefore'
  <2>1. withdrawn \subseteq 1..MaxArms
    BY DEF RescueInv, RescueTypeOK
  <2> QED BY <1>1, <1>2, <1>3, <2>1 DEF RescueInv, WithdrawnGone, ShownBefore
<1>9. ShownInOne'
  <2> SUFFICES ASSUME NEW x \in 1..MaxArms
               PROVE  \E b \in Nat : shown'[x] \ failed \subseteq {b}
    BY <1>1 DEF ShownInOne
  <2>1. CASE x # a \/ boots \in failed
    <3>1. shown'[x] \ failed = shown[x] \ failed
      BY <1>3, <2>1
    <3> QED BY <3>1 DEF RescueInv, ShownInOne
  <2>2. CASE x = a /\ boots \notin failed
    <3>1. shown[a] \ failed \subseteq {boots}
      BY <1>1, <2>2 DEF RescueInv, ActiveIsNew
    <3>2. boots \in Nat
      BY <1>2, ArmingNumbers
    <3> QED BY <1>3, <2>2, <3>1, <3>2
  <2> QED BY <2>1, <2>2
<1> QED BY <1>4, <1>5, <1>6, <1>7, <1>8, <1>9 DEF RescueInv

LEMMA RescueCut ==
    ASSUME RescueInv, PowerCut
    PROVE  RescueInv'
<1>1. /\ UNCHANGED <<registered, stored, active, arms, shown, failed, withdrawn>>
      /\ boots < MaxBoots /\ boots' = boots + 1 /\ early' = "load" /\ loaded' = Normal
      /\ exported' = Normal /\ chosen' = Normal /\ importing' = {}
      /\ pending' \in {pending, Damaged}
  BY DEF PowerCut
<1>2. boots \in Nat /\ boots' \in 1..MaxBoots
  BY <1>1, ArmingNumbers DEF RescueInv, RescueTypeOK
<1>3. RescueTypeOK'
  BY <1>1, <1>2 DEF RescueInv, RescueTypeOK, Pending
<1>4. UnderwayFresh'
  <2>1. Underway' \subseteq Underway
    BY <1>1, ArmingNumbers DEF Underway, Live
  <2>2. \A x \in Underway : /\ shown[x.arm] = {} /\ x.arm \notin withdrawn /\ active.arm # x.arm
    BY DEF RescueInv, UnderwayFresh
  <2> QED BY <1>1, <2>1, <2>2, FreshKept DEF RescueInv
<1> QED BY <1>1, <1>2, <1>3, <1>4 DEF RescueInv, ChosenIsLast, ReadIsTaken, BootBegins,
        ActiveIsNew, WithdrawnGone, ShownInOne, ShownBefore

LEMMA RescueStep == RescueInv /\ [RescueNext]_rescueVars => RescueInv'
<1> SUFFICES ASSUME RescueInv, [RescueNext]_rescueVars PROVE RescueInv'
  OBVIOUS
<1>1. CASE UNCHANGED rescueVars
  <2>1. /\ UNCHANGED <<pending, active, operatorVars, bootVars, withdrawn>>
        /\ UNCHANGED <<registered, stored, importing>>
    BY <1>1 DEF rescueVars, operatorVars, bootVars
  <2> QED BY <2>1, RescueImages DEF RescueInv, RescueTypeOK
<1> QED BY <1>1, RescueStoreSteps, RescueSelects, RescueReplacings, RescueEndings,
        RescueLoads, RescueRecords, RescueShows, RescueCut DEF RescueNext

\* For every number of images, boots and armings and any faults: an arming is
\* shown in one boot, but for boots whose early service failed at its first
\* write, and one that was withdrawn before a boot read it is shown in none
\* (rescue.py).
THEOREM RescueSafe == RescueSpec => []RescueHolds
<1>1. RescueSpec => []RescueInv
  BY RescueInvInit, RescueStep, PTL DEF RescueSpec
<1>2. RescueInv => RescueHolds
  BY RescueInvHolds
<1> QED BY <1>1, <1>2, PTL

-----------------------------------------------------------------------------
(* HidKvm                                                                  *)

Counted == pressed \ Modifiers

\* The two halves of the type and of what the host holds.
KeysKnown ==
    /\ pressed \subseteq Keys /\ hostKeys \subseteq Keys
    /\ lost \subseteq {"keyboard", "mouse"}
    /\ idle \in 0..IdleRelease /\ requests \in 0..MaxRequests
    /\ "keyboard" \notin lost => hostKeys \subseteq pressed

ButtonsKnown ==
    /\ buttons \in BOOLEAN /\ hostButtons \in BOOLEAN
    /\ "mouse" \notin lost => (hostButtons => buttons)

LEMMA HalvesKnown == HidKvmTypeOK /\ HostHoldsKnown <=> KeysKnown /\ ButtonsKnown
BY DEF HidKvmTypeOK, HostHoldsKnown, KeysKnown, ButtonsKnown

KvmInv == KeysKnown /\ ButtonsKnown /\ ReportFits /\ IsFiniteSet(Counted)

LEMMA KvmInvInit == HidKvmInit => KvmInv
<1> SUFFICES ASSUME HidKvmInit PROVE KvmInv
  OBVIOUS
<1>1. KeysKnown /\ ButtonsKnown
  <2>1. KeysKnown
    BY HidKvmAssumption DEF HidKvmInit, KeysKnown
  <2>2. ButtonsKnown
    BY DEF HidKvmInit, ButtonsKnown
  <2> QED BY <2>1, <2>2
<1>2. Counted = {}
  BY DEF HidKvmInit, Counted
<1>3. IsFiniteSet(Counted) /\ ReportFits
  BY <1>2, FS_EmptySet, HidKvmAssumption DEF ReportFits, Counted
<1> QED BY <1>1, <1>3 DEF KvmInv

\* What is counted stays within the report when it shrinks or there was room.
LEMMA KeysFit ==
    ASSUME KvmInv,
           \/ pressed' \subseteq pressed
           \/ \E key \in Keys : pressed' = pressed \union {key} /\ Room(key)
    PROVE  ReportFits' /\ IsFiniteSet(Counted')
<1>1. /\ IsFiniteSet(Counted) /\ Cardinality(Counted) <= MaxKeys
      /\ Cardinality(Counted) \in Nat /\ MaxKeys \in Nat
  BY FS_CardinalityType, HidKvmAssumption DEF KvmInv, ReportFits, Counted
<1>2. ASSUME Counted' \subseteq Counted
      PROVE  ReportFits' /\ IsFiniteSet(Counted')
  <2>1. IsFiniteSet(Counted') /\ Cardinality(Counted') <= Cardinality(Counted)
    BY <1>1, <1>2, FS_Subset
  <2>2. Cardinality(Counted') \in Nat
    BY <2>1, FS_CardinalityType
  <2> QED BY <1>1, <2>1, <2>2 DEF ReportFits, Counted
<1>3. ASSUME NEW key \in Keys, pressed' = pressed \union {key}, Room(key),
             ~(Counted' \subseteq Counted)
      PROVE  ReportFits' /\ IsFiniteSet(Counted')
  <2>1. /\ Counted' = Counted \union {key} /\ key \notin Counted
        /\ Cardinality(Counted) < MaxKeys
    BY <1>3 DEF Counted, Room
  <2>2. /\ IsFiniteSet(Counted \union {key})
        /\ Cardinality(Counted \union {key}) = Cardinality(Counted) + 1
    BY <1>1, <2>1, FS_AddElement
  <2>3. Cardinality(Counted') <= MaxKeys
    BY <1>1, <2>1, <2>2
  <2> QED BY <2>1, <2>2, <2>3 DEF ReportFits, Counted
<1>4. pressed' \subseteq pressed => Counted' \subseteq Counted
  BY DEF Counted
<1> QED BY <1>2, <1>3, <1>4

LEMMA RequestCounts ==
    ASSUME KvmInv, Request
    PROVE  requests' \in 0..MaxRequests
BY HidKvmAssumption DEF KvmInv, KeysKnown, Request

\* The keys stay known when the host takes them with the report, or does not
\* take the report at all.
LEMMA KeysReported ==
    ASSUME KvmInv, requests' \in 0..MaxRequests, pressed' \subseteq Keys,
           \/ /\ hostKeys' \subseteq pressed' /\ lost' \subseteq lost \union {"mouse"}
              /\ idle' \in {0, idle}
           \/ /\ hostKeys' \subseteq Keys /\ lost' \subseteq {"keyboard", "mouse"}
              /\ "keyboard" \in lost' /\ idle' \in {0, idle}
           \/ /\ UNCHANGED <<hostKeys, pressed>> /\ lost' \subseteq lost \union {"mouse"}
              /\ "keyboard" \in lost => "keyboard" \in lost'
              /\ idle' \in {0, idle}
    PROVE  KeysKnown'
<1>1. /\ pressed \subseteq Keys /\ hostKeys \subseteq Keys
      /\ lost \subseteq {"keyboard", "mouse"} /\ idle \in 0..IdleRelease
      /\ "keyboard" \notin lost => hostKeys \subseteq pressed
  BY DEF KvmInv, KeysKnown
<1>2. idle' \in 0..IdleRelease
  BY <1>1, HidKvmAssumption
<1>3. lost' \subseteq {"keyboard", "mouse"} /\ hostKeys' \subseteq Keys
  BY <1>1
<1>4. "keyboard" \notin lost' => hostKeys' \subseteq pressed'
  BY <1>1
<1> QED BY <1>2, <1>3, <1>4 DEF KeysKnown

LEMMA ButtonsUntouched ==
    ASSUME KvmInv, UNCHANGED <<buttons, hostButtons>>,
           "mouse" \notin lost' => "mouse" \notin lost
    PROVE  ButtonsKnown'
BY DEF KvmInv, ButtonsKnown

LEMMA ButtonsReported ==
    ASSUME KvmInv, NEW down \in BOOLEAN, buttons' = down,
           hostButtons' = down \/ (hostButtons' = hostButtons /\ "mouse" \in lost')
    PROVE  ButtonsKnown'
BY DEF KvmInv, ButtonsKnown

LEMMA KvmKey ==
    ASSUME KvmInv, NEW key \in Keys, NEW down \in BOOLEAN, Key(key, down)
    PROVE  KvmInv'
<1>1. /\ Request
      /\ pressed' = pressed \union {key} \/ pressed' = pressed \ {key}
      /\ pressed' = pressed \union {key} => Room(key) \/ pressed' \subseteq pressed
      /\ \/ hostKeys' = pressed' /\ lost' = lost \ {"keyboard"} /\ idle' = 0
         \/ hostKeys' = hostKeys /\ lost' = lost \union {"keyboard"} /\ idle' = idle
  BY DEF Key, Wrote
<1>2. UNCHANGED <<buttons, hostButtons>>
  BY DEF Key
<1>3. /\ pressed' \subseteq Keys /\ hostKeys \subseteq Keys
      /\ lost \subseteq {"keyboard", "mouse"}
  BY <1>1 DEF KvmInv, KeysKnown
<1>4. KeysKnown'
  BY <1>1, <1>3, RequestCounts, KeysReported
<1>5. ButtonsKnown'
  BY <1>1, <1>2, ButtonsUntouched
<1>6. ReportFits' /\ IsFiniteSet(Counted')
  BY <1>1, KeysFit
<1> QED BY <1>4, <1>5, <1>6 DEF KvmInv

LEMMA KvmPointer ==
    ASSUME KvmInv, NEW down \in BOOLEAN, Pointer(down)
    PROVE  KvmInv'
<1>1. /\ Request /\ UNCHANGED <<pressed, hostKeys>>
      /\ \/ lost' = lost \ {"mouse"} /\ idle' = 0
         \/ lost' = lost \union {"mouse"} /\ idle' = idle
  BY DEF Pointer, Wrote
<1>2. /\ buttons' = down
      /\ hostButtons' = down \/ (hostButtons' = hostButtons /\ "mouse" \in lost')
  BY DEF Pointer, Wrote
<1>3. pressed' \subseteq Keys
  BY <1>1 DEF KvmInv, KeysKnown
<1>4. KeysKnown'
  BY <1>1, <1>3, RequestCounts, KeysReported
<1>5. ButtonsKnown'
  BY <1>2, ButtonsReported
<1>6. ReportFits' /\ IsFiniteSet(Counted')
  BY <1>1, KeysFit
<1> QED BY <1>4, <1>5, <1>6 DEF KvmInv

\* A character is held by the host only when its second report was lost.
LEMMA KvmTypes ==
    ASSUME KvmInv, NEW key \in Keys, Character(key) \/ Text(key)
    PROVE  KvmInv'
<1>1. /\ Request /\ pressed' \subseteq pressed
      /\ \/ hostKeys' = {} /\ lost' = lost \ {"keyboard"} /\ idle' = 0
         \/ /\ hostKeys' \subseteq hostKeys \union {key}
            /\ lost' = lost \union {"keyboard"} /\ idle' = idle
  <2>1. Types(key) =>
          \/ hostKeys' = {} /\ lost' = lost \ {"keyboard"} /\ idle' = 0
          \/ /\ hostKeys' \subseteq hostKeys \union {key}
             /\ lost' = lost \union {"keyboard"} /\ idle' = idle
    BY DEF Types, Wrote
  <2> QED BY <2>1 DEF Character, Text, Wrote
<1>2. UNCHANGED <<buttons, hostButtons>>
  BY DEF Character, Text
<1>3. /\ pressed' \subseteq Keys /\ hostKeys \union {key} \subseteq Keys
      /\ lost \subseteq {"keyboard", "mouse"}
  BY <1>1 DEF KvmInv, KeysKnown
<1>4. KeysKnown'
  BY <1>1, <1>3, RequestCounts, KeysReported
<1>5. ButtonsKnown'
  BY <1>1, <1>2, ButtonsUntouched
<1>6. ReportFits' /\ IsFiniteSet(Counted')
  BY <1>1, KeysFit
<1> QED BY <1>4, <1>5, <1>6 DEF KvmInv

LEMMA KvmReleases ==
    ASSUME KvmInv, ReleaseAll, requests' \in 0..MaxRequests
    PROVE  KvmInv'
<1>1. pressed' = {} /\ hostKeys \subseteq Keys /\ lost \subseteq {"keyboard", "mouse"}
  BY DEF ReleaseAll, KvmInv, KeysKnown
<1>2. ReportFits' /\ IsFiniteSet(Counted')
  BY <1>1, KeysFit
<1>3. \/ hostKeys' = {} /\ lost' = {} /\ idle' = 0
      \/ hostKeys' = {} /\ lost' = {"mouse"} /\ idle' = idle
      \/ hostKeys' = hostKeys /\ lost' = lost \union {"keyboard"} /\ idle' = idle
  BY DEF ReleaseAll, Wrote
<1>4. KeysKnown'
  BY <1>1, <1>3, KeysReported
<1>5. \/ buttons' = FALSE /\ (hostButtons' = FALSE \/ (hostButtons' = hostButtons /\ "mouse" \in lost'))
      \/ UNCHANGED <<buttons, hostButtons>> /\ lost' = lost \union {"keyboard"}
  BY DEF ReleaseAll, Wrote
<1>6. ButtonsKnown'
  BY <1>5, ButtonsReported, ButtonsUntouched
<1> QED BY <1>2, <1>4, <1>6 DEF KvmInv

LEMMA KvmAround ==
    ASSUME KvmInv, BrokerRestarts \/ TimePasses
    PROVE  KvmInv'
<1>1. CASE BrokerRestarts
  <2>1. /\ Request /\ pressed' = {} /\ hostKeys' = hostKeys /\ idle' = 0
        /\ lost' = {"keyboard", "mouse"}
    BY <1>1 DEF BrokerRestarts
  <2>2. buttons' = FALSE /\ hostButtons' = hostButtons /\ "mouse" \in lost'
    BY <1>1 DEF BrokerRestarts
  <2>3. KeysKnown'
    BY <2>1, RequestCounts, KeysReported DEF KvmInv, KeysKnown
  <2>4. ReportFits' /\ IsFiniteSet(Counted')
    BY <2>1, KeysFit
  <2> QED BY <2>2, <2>3, <2>4, ButtonsReported DEF KvmInv
<1>2. CASE TimePasses
  <2>1. UNCHANGED <<pressed, hostKeys, lost, requests>> /\ idle < IdleRelease /\ idle' = idle + 1
    BY <1>2 DEF TimePasses
  <2>2. UNCHANGED <<buttons, hostButtons>>
    BY <1>2 DEF TimePasses
  <2>3. KeysKnown'
    BY <2>1, HidKvmAssumption DEF KvmInv, KeysKnown
  <2>4. ReportFits' /\ IsFiniteSet(Counted')
    BY <2>1, KeysFit
  <2> QED BY <2>1, <2>2, <2>3, <2>4, ButtonsUntouched DEF KvmInv
<1> QED BY <1>1, <1>2

LEMMA KvmStep == KvmInv /\ [HidKvmNext]_kvmVars => KvmInv'
<1> SUFFICES ASSUME KvmInv, [HidKvmNext]_kvmVars PROVE KvmInv'
  OBVIOUS
<1>1. CASE UNCHANGED kvmVars
  <2>1. KeysKnown' /\ ReportFits' /\ IsFiniteSet(Counted')
    BY <1>1 DEF kvmVars, KvmInv, KeysKnown, ReportFits, Counted
  <2>2. ButtonsKnown'
    BY <1>1 DEF kvmVars, KvmInv, ButtonsKnown
  <2> QED BY <2>1, <2>2 DEF KvmInv
<1>2. ASSUME OperatorReleases \/ WatchdogReleases PROVE KvmInv'
  <2>1. requests' \in 0..MaxRequests
    BY <1>2, RequestCounts DEF OperatorReleases, WatchdogReleases, KvmInv, KeysKnown
  <2> QED BY <1>2, <2>1, KvmReleases DEF OperatorReleases, WatchdogReleases
<1> QED BY <1>1, <1>2, KvmKey, KvmPointer, KvmTypes, KvmAround DEF HidKvmNext

\* For every set of keys and however writes fail: the host holds nothing the
\* broker does not know of, except behind a refused write or a restart, and the
\* report always fits (usb_hid_keyboard.py).
THEOREM KvmSafe == HidKvmInit /\ [][HidKvmNext]_kvmVars => []KvmHolds
<1>1. HidKvmInit /\ [][HidKvmNext]_kvmVars => []KvmInv
  BY KvmInvInit, KvmStep, PTL
<1>2. KvmInv => KvmHolds
  BY HalvesKnown DEF KvmInv, KvmHolds
<1> QED BY <1>1, <1>2, PTL

-----------------------------------------------------------------------------
(* EdgeSync                                                                *)

Reporting == step \in {"report", "complete"}

\* The process has read what it works on from the tables, and reports what it ran.
LocalIsRead ==
    /\ answer.events \subseteq taken /\ answer.actions \subseteq Actions
    /\ \A a \in todo : inbox[a] = "pending"
    /\ Reporting => result.action \in todo /\ result.status \in Final
    /\ step = "complete" => asked[result.action] = result.status

\* A run that is not reported yet, or not stored as finished, costs a fault.
RunsAreSpent ==
    \A a \in Actions :
        \/ runs[a] <= faults
        \/ runs[a] <= faults + 1 /\ (inbox[a] \in Final \/ (Reporting /\ result.action = a))

SyncInv == SyncTypeOK /\ LocalIsRead /\ NoEventLost /\ ReportedFirst /\ RunsAreSpent

LEMMA SyncInvHolds ==
    ASSUME SyncInv
    PROVE  SyncHolds
<1>1. RerunNeedsFault
  BY DEF SyncInv, SyncTypeOK, RunsAreSpent, RerunNeedsFault
<1> QED BY <1>1 DEF SyncInv, SyncHolds

LEMMA SyncInvInit == SyncInit => SyncInv
<1> SUFFICES ASSUME SyncInit PROVE SyncInv
  OBVIOUS
<1>1. SyncTypeOK
  BY SyncAssumption DEF SyncInit, SyncTypeOK
<1>2. LocalIsRead /\ NoEventLost
  BY DEF SyncInit, LocalIsRead, NoEventLost, NoAnswer, Reporting
<1>3. ReportedFirst /\ RunsAreSpent
  BY DEF SyncInit, ReportedFirst, RunsAreSpent, Final
<1> QED BY <1>1, <1>2, <1>3 DEF SyncInv

\* Starts and Announce: one more event.
LEMMA SyncEnqueues ==
    ASSUME SyncInv, Starts \/ Announce
    PROVE  SyncInv'
<1>1. /\ created' = created + 1 /\ queue' = queue \union {created + 1}
      /\ UNCHANGED <<inbox, answer, todo, result, taken, asked, runs, faults>>
      /\ step' \in {"snapshot", "announce"} /\ ~Reporting
      /\ announce' \subseteq announce
  BY DEF Starts, Announce, Enqueue, server, Reporting
<1>2. created \in Nat
  BY DEF SyncInv, SyncTypeOK
<1>3. SyncTypeOK'
  BY <1>1, <1>2 DEF SyncInv, SyncTypeOK
<1>4. NoEventLost'
  BY <1>1, <1>2 DEF SyncInv, NoEventLost
<1>5. LocalIsRead' /\ ReportedFirst' /\ RunsAreSpent'
  BY <1>1 DEF SyncInv, LocalIsRead, ReportedFirst, RunsAreSpent, Reporting
<1> QED BY <1>3, <1>4, <1>5 DEF SyncInv

\* The snapshot reaches the server, in full, in part or not at all.
LEMMA SyncPosts ==
    ASSUME SyncInv, PostSnapshot \/ PostPartlyTaken \/ PostLost
    PROVE  SyncInv'
<1>1. /\ UNCHANGED <<queue, inbox, created, announce, todo, result, asked, runs>>
      /\ taken \subseteq taken' /\ taken' \subseteq taken \union Oldest
      /\ answer' = answer \/ (answer'.events \subseteq taken' /\ answer'.actions \subseteq Actions)
      /\ step' \in {"snapshot", "acknowledge"} /\ ~Reporting
      /\ faults' = faults \/ (faults < MaxFaults /\ faults' = faults + 1)
  BY DEF PostSnapshot, PostPartlyTaken, PostLost, Fault, durable, local, Reporting
<1>2. Oldest \subseteq 1..created
  BY DEF Oldest, SyncInv, SyncTypeOK
<1>3. faults' \in 0..MaxFaults /\ faults <= faults' /\ faults \in Nat /\ faults' \in Nat
  BY <1>1, SyncAssumption DEF SyncInv, SyncTypeOK
<1>4. SyncTypeOK'
  BY <1>1, <1>2, <1>3 DEF SyncInv, SyncTypeOK
<1>5. LocalIsRead'
  BY <1>1 DEF SyncInv, LocalIsRead, Reporting
<1>6. NoEventLost' /\ ReportedFirst'
  BY <1>1 DEF SyncInv, NoEventLost, ReportedFirst
<1>7. RunsAreSpent'
  BY <1>1, <1>3 DEF SyncInv, SyncTypeOK, RunsAreSpent, Reporting
<1> QED BY <1>4, <1>5, <1>6, <1>7 DEF SyncInv

\* The answer is taken in: events leave the queue, actions enter the inbox.
LEMMA SyncTakesIn ==
    ASSUME SyncInv, Acknowledge \/ Record \/ PendingActions \/ RoundEnds
    PROVE  SyncInv'
<1>1. /\ UNCHANGED <<created, answer, result, taken, asked, runs, faults>>
      /\ queue' \in {queue, queue \ answer.events}
      /\ inbox' = inbox \/ (/\ announce' \subseteq {a \in answer.actions : inbox[a] = "absent"}
                            /\ inbox' = [a \in Actions |-> IF a \in announce' THEN "pending"
                                                           ELSE inbox[a]])
      /\ announce' = announce \/ announce' \subseteq answer.actions
      /\ (todo' = todo \/ (todo' = {a \in Actions : inbox[a] = "pending"} /\ inbox' = inbox))
      /\ step' \in {"record", "announce", "execute", "snapshot"} /\ ~Reporting
  BY DEF Acknowledge, Record, PendingActions, RoundEnds, durable, server, Reporting
<1>2. \A a \in Actions : \/ inbox'[a] = inbox[a]
                         \/ inbox[a] = "absent" /\ inbox'[a] = "pending"
  BY <1>1 DEF SyncInv, LocalIsRead
<1>3. SyncTypeOK'
  <2>1. inbox' \in [Actions -> {"absent", "pending"} \union Final]
    BY <1>1 DEF SyncInv, SyncTypeOK
  <2>2. announce' \subseteq Actions /\ todo' \subseteq Actions
    BY <1>1 DEF SyncInv, SyncTypeOK, LocalIsRead
  <2> QED BY <1>1, <2>1, <2>2 DEF SyncInv, SyncTypeOK
<1>4. LocalIsRead'
  <2>1. \A a \in todo' : inbox'[a] = "pending"
    BY <1>1, <1>2 DEF SyncInv, SyncTypeOK, LocalIsRead
  <2> QED BY <1>1, <2>1 DEF SyncInv, LocalIsRead, Reporting
<1>5. NoEventLost'
  BY <1>1 DEF SyncInv, LocalIsRead, NoEventLost
<1>6. ReportedFirst' /\ RunsAreSpent'
  BY <1>1, <1>2 DEF SyncInv, ReportedFirst, RunsAreSpent, Reporting, Final
<1> QED BY <1>3, <1>4, <1>5, <1>6 DEF SyncInv

\* An action is run.
LEMMA SyncExecutes ==
    ASSUME SyncInv, NEW a \in Actions, NEW status \in Final, Execute(a, status)
    PROVE  SyncInv'
<1>1. /\ step = "execute" /\ a \in todo /\ step' = "report"
      /\ runs' = [runs EXCEPT ![a] = @ + 1]
      /\ result' = [action |-> a, status |-> status]
      /\ UNCHANGED <<queue, inbox, created, answer, announce, todo, taken, asked, faults>>
  BY DEF Execute, durable, server
<1>2. SyncTypeOK'
  BY <1>1 DEF SyncInv, SyncTypeOK
<1>3. LocalIsRead' /\ NoEventLost' /\ ReportedFirst'
  BY <1>1 DEF SyncInv, LocalIsRead, NoEventLost, ReportedFirst, Reporting
<1>4. RunsAreSpent'
  <2>1. inbox[a] = "pending" /\ ~Reporting
    BY <1>1 DEF SyncInv, LocalIsRead, Reporting
  <2>2. runs[a] <= faults
    BY <2>1 DEF SyncInv, RunsAreSpent, Final
  <2>3. runs \in [Actions -> Nat] /\ faults \in Nat
    BY SyncAssumption DEF SyncInv, SyncTypeOK
  <2>4. runs'[a] <= faults' + 1 /\ Reporting' /\ result'.action = a
    BY <1>1, <2>2, <2>3 DEF Reporting
  <2>5. ASSUME NEW b \in Actions \ {a}
        PROVE  runs'[b] <= faults' \/ (runs'[b] <= faults' + 1 /\ inbox'[b] \in Final)
    BY <1>1, <2>1, <2>3 DEF SyncInv, RunsAreSpent
  <2> QED BY <2>4, <2>5 DEF RunsAreSpent
<1> QED BY <1>2, <1>3, <1>4 DEF SyncInv

\* Its result reaches the server, or the request or its answer is lost.
LEMMA SyncReports ==
    ASSUME SyncInv, PostResult \/ PostResultLost
    PROVE  SyncInv'
<1> DEFINE r == result.action
<1>1. /\ UNCHANGED <<queue, inbox, created, answer, announce, result, taken, runs>>
      /\ step = "report"
      /\ asked' = asked \/ asked' = [asked EXCEPT ![r] = result.status]
      /\ \/ /\ step' = "complete" /\ todo' = todo /\ faults' = faults
            /\ asked' = [asked EXCEPT ![r] = result.status]
         \/ /\ step' = "snapshot" /\ todo' = {}
            /\ faults < MaxFaults /\ faults' = faults + 1
  BY DEF PostResult, PostResultLost, Fault, Told, durable
<1>2. /\ r \in todo /\ r \in Actions /\ inbox[r] = "pending" /\ result.status \in Final
      /\ faults \in Nat /\ runs \in [Actions -> Nat]
  BY <1>1, SyncAssumption DEF SyncInv, SyncTypeOK, LocalIsRead, Reporting
<1>3. SyncTypeOK'
  <2>1. asked' \in [Actions -> {"none", "confirmed"} \union Final]
    BY <1>1, <1>2 DEF SyncInv, SyncTypeOK
  <2>2. faults' \in 0..MaxFaults
    BY <1>1, <1>2, SyncAssumption DEF SyncInv, SyncTypeOK
  <2>3. todo' \subseteq Actions
    BY <1>1 DEF SyncInv, SyncTypeOK
  <2>4. step' \in {"complete", "snapshot"}
    BY <1>1
  <2> QED BY <1>1, <2>1, <2>2, <2>3, <2>4 DEF SyncInv, SyncTypeOK
<1>4. LocalIsRead'
  <2>1. step' = "complete" => asked'[r] = result.status
    BY <1>1, <1>2 DEF SyncInv, SyncTypeOK
  <2>2. step' = "complete" => r \in todo'
    BY <1>1, <1>2
  <2>3. todo' \subseteq todo /\ step' \in {"complete", "snapshot"}
    BY <1>1
  <2> QED BY <1>1, <1>2, <2>1, <2>2, <2>3 DEF SyncInv, LocalIsRead, Reporting
<1>5. NoEventLost'
  BY <1>1 DEF SyncInv, NoEventLost
<1>6. ReportedFirst'
  <2>1. \A a \in Actions : inbox[a] \in Final => asked'[a] = asked[a]
    BY <1>1, <1>2 DEF SyncInv, SyncTypeOK, Final
  <2> QED BY <1>1, <2>1 DEF SyncInv, ReportedFirst
<1>7. RunsAreSpent'
  <2> SUFFICES ASSUME NEW a \in Actions
               PROVE  \/ runs[a] <= faults'
                      \/ runs[a] <= faults' + 1
                         /\ (inbox[a] \in Final \/ (Reporting' /\ result.action = a))
    BY <1>1 DEF RunsAreSpent
  <2>1. \/ runs[a] <= faults
        \/ runs[a] <= faults + 1 /\ (inbox[a] \in Final \/ result.action = a)
    BY DEF SyncInv, RunsAreSpent
  <2>2. CASE step' = "complete" /\ faults' = faults
    BY <2>1, <2>2 DEF Reporting
  <2>3. CASE faults' = faults + 1
    BY <1>2, <2>1, <2>3
  <2> QED BY <1>1, <2>2, <2>3
<1> QED BY <1>3, <1>4, <1>5, <1>6, <1>7 DEF SyncInv

\* The report is answered, and the action is finished in the inbox.
LEMMA SyncCompletes ==
    ASSUME SyncInv, Complete
    PROVE  SyncInv'
<1> DEFINE r == result.action
<1>1. /\ UNCHANGED <<queue, created, answer, announce, result, taken, asked, runs, faults>>
      /\ step = "complete" /\ step' = "execute"
      /\ inbox' = [inbox EXCEPT ![r] = result.status] /\ todo' = todo \ {r}
  BY DEF Complete, server
<1>2. /\ r \in todo /\ r \in Actions /\ result.status \in Final
      /\ asked[r] = result.status
  BY <1>1 DEF SyncInv, SyncTypeOK, LocalIsRead, Reporting
<1>3. inbox'[r] = result.status /\ \A a \in Actions \ {r} : inbox'[a] = inbox[a]
  BY <1>1, <1>2 DEF SyncInv, SyncTypeOK
<1>4. SyncTypeOK'
  BY <1>1, <1>2 DEF SyncInv, SyncTypeOK
<1>5. LocalIsRead' /\ NoEventLost' /\ ReportedFirst'
  <2>1. \A a \in todo' : inbox'[a] = "pending"
    BY <1>1, <1>3 DEF SyncInv, SyncTypeOK, LocalIsRead
  <2> QED BY <1>1, <1>2, <1>3, <2>1 DEF SyncInv, LocalIsRead, NoEventLost, ReportedFirst,
          Reporting
<1>6. RunsAreSpent'
  BY <1>1, <1>2, <1>3 DEF SyncInv, RunsAreSpent
<1> QED BY <1>4, <1>5, <1>6 DEF SyncInv

LEMMA SyncAround ==
    ASSUME SyncInv, SyncRestarts \/ \E a \in Actions : ServerConfirms(a)
    PROVE  SyncInv'
<1>1. CASE SyncRestarts
  <2>1. /\ UNCHANGED <<queue, inbox, created, taken, asked, runs>>
        /\ step' = "start" /\ answer' = NoAnswer /\ announce' = {} /\ todo' = {}
        /\ faults < MaxFaults /\ faults' = faults + 1
    BY <1>1 DEF SyncRestarts, Fault, durable, server
  <2>2. faults \in Nat /\ faults' \in 0..MaxFaults /\ runs \in [Actions -> Nat]
    BY <2>1, SyncAssumption DEF SyncInv, SyncTypeOK
  <2>3. SyncTypeOK'
    BY <2>1, <2>2 DEF SyncInv, SyncTypeOK
  <2>4. LocalIsRead' /\ NoEventLost' /\ ReportedFirst'
    BY <2>1 DEF SyncInv, LocalIsRead, NoEventLost, ReportedFirst, Reporting, NoAnswer
  <2>5. RunsAreSpent'
    BY <2>1, <2>2 DEF SyncInv, RunsAreSpent
  <2> QED BY <2>3, <2>4, <2>5 DEF SyncInv
<1>2. ASSUME NEW a \in Actions, ServerConfirms(a)
      PROVE  SyncInv'
  <2>1. /\ UNCHANGED <<queue, inbox, created, step, answer, announce, todo, result,
                       taken, runs, faults>>
        /\ asked[a] = "none" /\ asked' = [asked EXCEPT ![a] = "confirmed"]
    BY <1>2 DEF ServerConfirms, durable, local
  <2>2. SyncTypeOK'
    BY <2>1 DEF SyncInv, SyncTypeOK
  <2>3. \A b \in Actions : asked[b] \in Final => asked'[b] = asked[b]
    BY <2>1 DEF SyncInv, SyncTypeOK, Final
  <2>4. LocalIsRead'
    BY <2>1, <2>3 DEF SyncInv, SyncTypeOK, LocalIsRead, Reporting
  <2>5. NoEventLost' /\ ReportedFirst'
    BY <2>1, <2>3 DEF SyncInv, NoEventLost, ReportedFirst
  <2>6. RunsAreSpent'
    BY <2>1 DEF SyncInv, RunsAreSpent, Reporting
  <2> QED BY <2>2, <2>4, <2>5, <2>6 DEF SyncInv
<1> QED BY <1>1, <1>2

LEMMA SyncStep == SyncInv /\ [SyncNext]_syncVars => SyncInv'
<1> SUFFICES ASSUME SyncInv, [SyncNext]_syncVars PROVE SyncInv'
  OBVIOUS
<1>1. CASE UNCHANGED syncVars
  <2>1. UNCHANGED <<queue, inbox, created, step, answer, announce, todo, result, taken,
                    asked, runs, faults>>
    BY <1>1 DEF syncVars, durable, local, server
  <2> QED BY <2>1 DEF SyncInv, SyncTypeOK, LocalIsRead, NoEventLost, ReportedFirst,
          RunsAreSpent, Reporting
<1> QED BY <1>1, SyncEnqueues, SyncPosts, SyncTakesIn, SyncExecutes, SyncReports,
        SyncCompletes, SyncAround DEF SyncNext, ProcessSteps

\* For every set of actions and any number of lost requests, lost answers and
\* crashes: an event leaves the queue only after the server took it, an action is
\* finished here as the server knows it, and only a fault runs one again
\* (sync.py).
THEOREM SyncSafe == SyncInit /\ [][SyncNext]_syncVars => []SyncHolds
<1>1. SyncInit /\ [][SyncNext]_syncVars => []SyncInv
  BY SyncInvInit, SyncStep, PTL
<1>2. SyncInv => SyncHolds
  BY SyncInvHolds
<1> QED BY <1>1, <1>2, PTL

-----------------------------------------------------------------------------
(* AdaptiveDrivers                                                         *)

\* A sequence of profiles that descends from a reference driver, with every one
\* after it proven on the hardware of the reference.
Descent(p) ==
    /\ p \in Seq(Profiles) /\ p # <<>>
    /\ p[1].kind = "reference"
    /\ \A i \in 1..Len(p) : i > 1 => p[i] = Profile("good", p[1].print)

\* Every profile it descends from can be rolled back to.
Rooted(p, kept) == \A n \in 1..(Len(p) - 1) : SubSeq(p, 1, n) \in kept

Sound(p, kept) == Descent(p) /\ Rooted(p, kept)

\* The steps at which a run has read a profile, has read its hash, and is past
\* the last look at lkg.json.
HasSeen == {"hash", "test", "decide", "snapshot", "write"}
HasHash == {"test", "decide"}
PastLook == {"snapshot", "write"}

\* What a run may know.
FactsType == [kind : Candidates \union {"broken"}, print : Hardware \union {"none"},
              seen : Seq(Profiles), before : Seq(Profiles),
              allow : BOOLEAN, steady : BOOLEAN]

DriverTypes ==
    /\ hardware \in Hardware
    /\ at \in [Loops -> {"idle", "ensure", "create"} \union HasSeen]
    /\ run \in [Loops -> FactsType]
    /\ spoiled \subseteq snapshots /\ overtaken \subseteq Loops
    /\ tests \in 0..MaxTests /\ changes \in 0..MaxChanges

\* Every profile that is in force, kept, or about to be written is sound.
ProfilesSound ==
    /\ lkg = <<>> \/ Sound(lkg, snapshots)
    /\ restoring = <<>> \/ (Sound(restoring, snapshots) /\ restoring \in snapshots)
    /\ \A s \in snapshots : Sound(s, snapshots)
    /\ \A r \in Loops : at[r] \in HasSeen => Sound(run[r].seen, snapshots)

\* What a run knows at each of its steps.
RunsKnow ==
    \A r \in Loops :
        /\ at[r] # "idle" => run[r].print \in Hardware
        /\ at[r] \in {"test", "decide", "snapshot", "write"} =>
             run[r].seen[1].print = run[r].print
        /\ at[r] \in PastLook => run[r].kind = "good"
        /\ at[r] = "write" => run[r].seen \in snapshots

\* A run that was not overtaken has seen what is in force.
NotOvertaken ==
    \A r \in Loops \ overtaken :
        /\ at[r] = "hash" => lkg = run[r].seen
        /\ at[r] \in HasHash => run[r].before = run[r].seen
        /\ at[r] \in PastLook => lkg = run[r].seen

DriversInv == DriverTypes /\ ProfilesSound /\ RunsKnow /\ NotOvertaken

\* Every profile of a descent is of the hardware of its reference.
LEMMA DescentPrint ==
    ASSUME NEW p, Descent(p)
    PROVE  /\ Len(p) \in Nat \ {0} /\ DOMAIN p = 1..Len(p)
           /\ Last(p).print = p[1].print
<1>1. Len(p) \in Nat \ {0} /\ DOMAIN p = 1..Len(p)
  BY EmptySeq, LenProperties DEF Descent
<1>2. CASE Len(p) = 1
  BY <1>1, <1>2 DEF Last
<1>3. CASE Len(p) > 1
  BY <1>1, <1>3 DEF Descent, Last, Profile
<1> QED BY <1>1, <1>2, <1>3

\* A reference driver is a descent of its own.
LEMMA ReferenceSound ==
    ASSUME NEW print \in Hardware \union {"none"}
    PROVE  Sound(<<Profile("reference", print)>>, snapshots)
<1> DEFINE e == Profile("reference", print)
           p == <<e>>
<1>1. e \in Profiles /\ e.kind = "reference"
  BY DEF Profile, Profiles
<1> HIDE DEF e
<1>2. p \in Seq(Profiles) /\ Len(p) = 1 /\ p[1] = e /\ p # <<>>
  BY <1>1
<1> HIDE DEF p
<1>3. Descent(p) /\ Rooted(p, snapshots)
  BY <1>1, <1>2 DEF Descent, Rooted
<1> QED BY <1>3 DEF Sound, p, e

\* A proven profile is appended to a descent that is kept.
LEMMA PromotedSound ==
    ASSUME NEW p, Sound(p, snapshots), p \in snapshots,
           NEW print \in Hardware, p[1].print = print,
           "good" \in Candidates
    PROVE  Sound(Append(p, Profile("good", print)), snapshots)
<1> DEFINE e == Profile("good", print)
           q == Append(p, e)
           n == Len(p)
<1>1. e \in Profiles
  BY DEF Profile, Profiles
<1>2. p \in Seq(Profiles) /\ n \in Nat \ {0}
  BY DescentPrint DEF Sound, Descent
<1> HIDE DEF e
<1>3. /\ q \in Seq(Profiles) /\ Len(q) = n + 1 /\ q # <<>>
      /\ q[n + 1] = e /\ \A i \in 1..n : q[i] = p[i]
  BY <1>1, <1>2
<1>4. Descent(q)
  <2>1. q[1] = p[1] /\ p[1].kind = "reference"
    BY <1>2, <1>3 DEF Sound, Descent
  <2>2. ASSUME NEW i \in 1..(n + 1), i > 1
        PROVE  q[i] = Profile("good", p[1].print)
    <3>1. CASE i = n + 1
      BY <1>3, <3>1 DEF e
    <3>2. CASE i \in 1..n
      BY <1>3, <2>2, <3>2 DEF Sound, Descent
    <3> QED BY <1>2, <3>1, <3>2
  <2> QED BY <1>3, <2>1, <2>2 DEF Descent
<1>5. Rooted(q, snapshots)
  <2> SUFFICES ASSUME NEW m \in 1..n
               PROVE  SubSeq(q, 1, m) \in snapshots
    BY <1>2, <1>3 DEF Rooted
  <2> HIDE DEF q
  <2>1. SubSeq(q, 1, m) = SubSeq(p, 1, m)
    <3>1. /\ \A i \in 1..m : q[i] \in Profiles /\ p[i] \in Profiles /\ q[i] = p[i]
          /\ m \in Int /\ 1 <= m
      BY <1>2, <1>3, ElementOfSeq
    <3>2. /\ SubSeq(q, 1, m) \in Seq(Profiles) /\ Len(SubSeq(q, 1, m)) = m
          /\ \A i \in 1..m : SubSeq(q, 1, m)[i] = q[1 + i - 1]
      BY <3>1, SubSeqProperties
    <3>3. /\ SubSeq(p, 1, m) \in Seq(Profiles) /\ Len(SubSeq(p, 1, m)) = m
          /\ \A i \in 1..m : SubSeq(p, 1, m)[i] = p[1 + i - 1]
      BY <3>1, SubSeqProperties
    <3>4. \A i \in 1..m : SubSeq(q, 1, m)[i] = SubSeq(p, 1, m)[i]
      BY <3>1, <3>2, <3>3
    <3> QED BY <3>2, <3>3, <3>4, SeqEqual
  <2>2. CASE m = n
    BY <1>2, <2>1, <2>2, SubSeqFull
  <2>3. CASE m # n
    <3>1. \A k \in 1..(n - 1) : SubSeq(p, 1, k) \in snapshots
      BY DEF Sound, Rooted
    <3>2. m \in 1..(n - 1)
      BY <1>2, <2>3
    <3> QED BY <2>1, <3>1, <3>2
  <2> QED BY <2>2, <2>3
<1> QED BY <1>4, <1>5 DEF Sound, e

LEMMA DriversInvHolds ==
    ASSUME DriversInv
    PROVE  DriversHold
<1>1. ASSUME NEW p, Sound(p, snapshots) PROVE IsProfile(p)
  BY <1>1, DescentPrint, ElementOfSeq DEF Sound, Descent, IsProfile
<1>2. IsProfile(<<>>)
  BY DEF IsProfile
<1>3. DriversTypeOK
  BY <1>1, <1>2 DEF DriversInv, DriverTypes, ProfilesSound, DriversTypeOK, HasSeen
<1>4. RollbackReachesReference
  <2> SUFFICES ASSUME lkg # <<>>
               PROVE  /\ Head(lkg).kind = "reference"
                      /\ \A n \in 1..(Len(lkg) - 1) : SubSeq(lkg, 1, n) \in snapshots
    BY DEF RollbackReachesReference
  <2>1. Sound(lkg, snapshots)
    BY DEF DriversInv, ProfilesSound
  <2>2. Head(lkg) = lkg[1]
    BY <2>1 DEF Sound, Descent
  <2> QED BY <2>1, <2>2 DEF Sound, Descent, Rooted
<1>5. ActiveWasProven
  <2>1. ASSUME lkg # <<>> PROVE ActiveWasProven
    BY <2>1, DescentPrint DEF DriversInv, ProfilesSound, Sound, Descent, ActiveWasProven
  <2>2. ASSUME lkg = <<>> PROVE ActiveWasProven
    BY <2>2 DEF ActiveWasProven
  <2> QED BY <2>1, <2>2
<1> QED BY <1>3, <1>4, <1>5 DEF DriversHold

LEMMA NoFactsTyped == NoFacts \in FactsType
<1>1. <<>> \in Seq(Profiles)
  OBVIOUS
<1> QED BY <1>1 DEF NoFacts, FactsType

LEMMA DriversInvInit == DriversInit => DriversInv
<1> SUFFICES ASSUME DriversInit PROVE DriversInv
  OBVIOUS
<1>1. /\ hardware \in Hardware /\ lkg = <<>> /\ snapshots = {} /\ spoiled = {}
      /\ restoring = <<>> /\ overtaken = {} /\ tests = 0 /\ changes = 0
      /\ at = [r \in Loops |-> "idle"] /\ run = [r \in Loops |-> NoFacts]
  BY DEF DriversInit
<1>2. NoFacts \in FactsType
  BY NoFactsTyped
<1>3. DriverTypes
  BY <1>1, <1>2, DriversAssumption DEF DriverTypes
<1>4. ProfilesSound /\ RunsKnow /\ NotOvertaken
  BY <1>1 DEF ProfilesSound, RunsKnow, NotOvertaken, HasSeen, HasHash, PastLook
<1> QED BY <1>3, <1>4 DEF DriversInv

\* Sound profiles stay sound when snapshots are added.
LEMMA SoundKept ==
    ASSUME snapshots \subseteq snapshots', NEW p, Sound(p, snapshots)
    PROVE  Sound(p, snapshots')
BY DEF Sound, Descent, Rooted

\* What the last profile of a chain tells of its first one.
LEMMA LastPrint ==
    ASSUME NEW p, Sound(p, snapshots)
    PROVE  Last(p).print = p[1].print /\ p \in Seq(Profiles) /\ p # <<>>
BY DescentPrint DEF Sound, Descent

LEMMA Overtaking ==
    ASSUME NEW r, NEW profile, Writes(r, profile), DriversInv
    PROVE  /\ lkg' = profile /\ overtaken' \subseteq Loops
           /\ \A o \in Loops \ overtaken' : o # r =>
                 o \notin overtaken /\ at[o] \notin {"hash", "snapshot", "write"}
BY DEF Writes, DriversInv, DriverTypes

\* A step of one run that leaves the profiles alone.
LEMMA RunMoves ==
    ASSUME DriversInv, NEW r \in Loops, NEW to, NEW facts, NEW from, Goes(r, from, to, facts),
           to \in {"idle", "ensure", "create"} \union HasSeen,
           facts \in FactsType,
           UNCHANGED <<hardware, spoiled, restoring, changes>>, tests' \in 0..MaxTests,
           snapshots \subseteq snapshots', \A s \in snapshots' : Sound(s, snapshots'),
           lkg' = <<>> \/ Sound(lkg', snapshots'),
           to \in HasSeen => Sound(facts.seen, snapshots'),
           to # "idle" => facts.print \in Hardware,
           to \in {"test", "decide", "snapshot", "write"} => facts.seen[1].print = facts.print,
           to \in PastLook => facts.kind = "good",
           to = "write" => facts.seen \in snapshots',
           overtaken' \subseteq Loops,
           r \notin overtaken' =>
              /\ to = "hash" => lkg' = facts.seen
              /\ to \in HasHash => facts.before = facts.seen
              /\ to \in PastLook => lkg' = facts.seen,
           \A o \in Loops \ overtaken' : o # r =>
              o \notin overtaken /\ (lkg' = lkg \/ at[o] \notin {"hash", "snapshot", "write"})
    PROVE  DriversInv'
<1>1. /\ at' = [at EXCEPT ![r] = to]
      /\ run' = [run EXCEPT ![r] = IF to = "idle" THEN NoFacts ELSE facts]
  BY DEF Goes
<1>2. /\ at'[r] = to /\ \A o \in Loops : o # r => at'[o] = at[o] /\ run'[o] = run[o]
      /\ to # "idle" => run'[r] = facts
  BY <1>1 DEF DriversInv, DriverTypes
<1>3. DriverTypes'
  <2>1. NoFacts \in FactsType
    BY NoFactsTyped
  <2> HIDE DEF NoFacts, FactsType
  <2>2. run' \in [Loops -> FactsType]
    BY <1>1, <2>1 DEF DriversInv, DriverTypes
  <2>3. at' \in [Loops -> {"idle", "ensure", "create"} \union HasSeen]
    BY <1>1 DEF DriversInv, DriverTypes
  <2> QED BY <2>2, <2>3 DEF DriversInv, DriverTypes
<1>4. ProfilesSound'
  <2>1. restoring' = <<>> \/ (Sound(restoring', snapshots') /\ restoring' \in snapshots')
    BY SoundKept DEF DriversInv, ProfilesSound
  <2>2. ASSUME NEW o \in Loops, at'[o] \in HasSeen PROVE Sound(run'[o].seen, snapshots')
    <3>1. CASE o = r
      <4>1. run'[o].seen = facts.seen /\ to \in HasSeen
        BY <1>2, <2>2, <3>1 DEF HasSeen
      <4> QED BY <4>1 DEF Sound, Descent, Rooted
    <3>2. CASE o # r
      <4>1. run'[o].seen = run[o].seen /\ Sound(run[o].seen, snapshots)
        BY <1>2, <2>2, <3>2 DEF DriversInv, ProfilesSound
      <4> QED BY <4>1, SoundKept DEF Sound, Descent, Rooted
    <3> QED BY <3>1, <3>2
  <2> QED BY <2>1, <2>2 DEF ProfilesSound
<1>5. RunsKnow'
  <2> SUFFICES ASSUME NEW o \in Loops
               PROVE  /\ at'[o] # "idle" => run'[o].print \in Hardware
                      /\ at'[o] \in {"test", "decide", "snapshot", "write"} =>
                           run'[o].seen[1].print = run'[o].print
                      /\ at'[o] \in PastLook => run'[o].kind = "good"
                      /\ at'[o] = "write" => run'[o].seen \in snapshots'
    BY DEF RunsKnow
  <2>1. CASE o = r
    BY <1>2, <2>1 DEF PastLook
  <2>2. CASE o # r
    BY <1>2, <2>2 DEF DriversInv, RunsKnow
  <2> QED BY <2>1, <2>2
<1>6. NotOvertaken'
  <2> SUFFICES ASSUME NEW o \in Loops \ overtaken'
               PROVE  /\ at'[o] = "hash" => lkg' = run'[o].seen
                      /\ at'[o] \in HasHash => run'[o].before = run'[o].seen
                      /\ at'[o] \in PastLook => lkg' = run'[o].seen
    BY DEF NotOvertaken
  <2>1. CASE o = r
    BY <1>2, <2>1 DEF PastLook, HasHash
  <2>2. CASE o # r
    <3>1. /\ o \notin overtaken
          /\ lkg' = lkg \/ at[o] \notin {"hash", "snapshot", "write"}
      BY <2>2
    <3>2. /\ at[o] = "hash" => lkg = run[o].seen
          /\ at[o] \in HasHash => run[o].before = run[o].seen
          /\ at[o] \in PastLook => lkg = run[o].seen
      BY <3>1 DEF DriversInv, NotOvertaken
    <3> QED BY <1>2, <2>2, <3>1, <3>2 DEF PastLook
  <2> QED BY <2>1, <2>2
<1> QED BY <1>3, <1>4, <1>5, <1>6 DEF DriversInv

\* What is known of a run that is not idle.
LEMMA RunFacts ==
    ASSUME DriversInv, NEW r \in Loops
    PROVE  /\ run[r] \in FactsType /\ overtaken \subseteq Loops /\ tests \in 0..MaxTests
           /\ lkg \in Seq(Profiles) /\ at[r] \in {"idle", "ensure", "create"} \union HasSeen
           /\ lkg = <<>> \/ Sound(lkg, snapshots)
           /\ at[r] \in HasSeen => Sound(run[r].seen, snapshots)
           /\ \A s \in snapshots : Sound(s, snapshots)
<1>1. lkg \in Seq(Profiles)
  <2>1. <<>> \in Seq(Profiles)
    OBVIOUS
  <2> QED BY <2>1 DEF DriversInv, ProfilesSound, Sound, Descent
<1> QED BY <1>1 DEF DriversInv, DriverTypes, ProfilesSound, FactsType

\* Nothing that is written is touched.
LEMMA SoundStays ==
    ASSUME DriversInv, UNCHANGED <<lkg, snapshots>>
    PROVE  /\ snapshots \subseteq snapshots' /\ \A s \in snapshots' : Sound(s, snapshots')
           /\ lkg' = <<>> \/ Sound(lkg', snapshots')
           /\ \A p : Sound(p, snapshots) => Sound(p, snapshots')
BY DEF DriversInv, ProfilesSound, Sound, Descent, Rooted

LEMMA FingerprintKeeps ==
    ASSUME DriversInv, NEW r \in Loops, NEW kind \in Candidates, NEW allow \in BOOLEAN,
           Fingerprint(r, kind, allow)
    PROVE  DriversInv'
<1> DEFINE facts == [NoFacts EXCEPT !.kind = kind, !.print = hardware, !.allow = allow]
<1>1. facts \in FactsType /\ facts.print \in Hardware
  <2>1. <<>> \in Seq(Profiles) /\ hardware \in Hardware
    BY DEF DriversInv, DriverTypes
  <2> QED BY <2>1 DEF NoFacts, FactsType
<1>2. /\ Goes(r, "idle", "ensure", facts) /\ overtaken' = overtaken \ {r}
      /\ UNCHANGED <<hardware, lkg, snapshots, spoiled, restoring, changes>>
  BY DEF Fingerprint
<1>3. tests' \in 0..MaxTests
  BY DriversAssumption DEF Fingerprint, DriversInv, DriverTypes
<1> HIDE DEF facts
<1> QED BY <1>1, <1>2, <1>3, SoundStays, RunFacts, RunMoves DEF HasSeen, HasHash, PastLook

LEMMA EnsureReadsKeeps ==
    ASSUME DriversInv, NEW r \in Loops, EnsureReads(r)
    PROVE  DriversInv'
<1> DEFINE facts == [run[r] EXCEPT !.seen = lkg]
           to == IF lkg = <<>> THEN "create" ELSE "hash"
<1>1. /\ facts \in FactsType /\ facts.seen = lkg /\ facts.print = run[r].print
      /\ to = "hash" => lkg # <<>>
  BY RunFacts DEF FactsType
<1>2. /\ Goes(r, "ensure", to, facts)
      /\ UNCHANGED <<hardware, lkg, snapshots, spoiled, restoring, overtaken, tests, changes>>
  BY DEF EnsureReads
<1>3. facts.print \in Hardware /\ to \in {"create", "hash"}
  BY <1>1, <1>2 DEF Goes, DriversInv, RunsKnow
<1> HIDE DEF facts, to
<1>4. to \in HasSeen => Sound(facts.seen, snapshots')
  BY <1>1, <1>2, <1>3, SoundStays, RunFacts DEF HasSeen, Sound, Descent, Rooted
<1> QED BY <1>1, <1>2, <1>3, <1>4, SoundStays, RunFacts, RunMoves
        DEF HasSeen, HasHash, PastLook

LEMMA EnsureCreatesKeeps ==
    ASSUME DriversInv, NEW r \in Loops, EnsureCreates(r)
    PROVE  DriversInv'
<1> DEFINE p == <<Profile("reference", run[r].print)>>
           facts == [run[r] EXCEPT !.seen = p]
<1>1. /\ Goes(r, "create", "hash", facts) /\ Writes(r, p)
      /\ UNCHANGED <<hardware, snapshots, spoiled, restoring, tests, changes>>
  BY DEF EnsureCreates
<1>2. Sound(p, snapshots) /\ p \in Seq(Profiles)
  BY ReferenceSound, RunFacts, LastPrint DEF FactsType
<1> HIDE DEF p
<1>3. facts \in FactsType /\ facts.seen = p /\ facts.print = run[r].print
  BY <1>2, RunFacts DEF FactsType
<1>4. facts.print \in Hardware
  BY <1>1, <1>3 DEF Goes, DriversInv, RunsKnow
<1> HIDE DEF facts
<1>5. /\ Sound(facts.seen, snapshots') /\ Sound(lkg', snapshots')
      /\ \A s \in snapshots' : Sound(s, snapshots')
  BY <1>1, <1>2, <1>3, RunFacts DEF Writes, Sound, Descent, Rooted
<1>6. lkg' = facts.seen
  BY <1>1, <1>3 DEF Writes
<1> QED BY <1>1, <1>3, <1>4, <1>5, <1>6, Overtaking, RunFacts, RunMoves
        DEF HasSeen, HasHash, PastLook

LEMMA HashLkgKeeps ==
    ASSUME DriversInv, NEW r \in Loops, HashLkg(r)
    PROVE  DriversInv'
<1> DEFINE known == Last(run[r].seen).print = run[r].print
           to == IF known THEN "test" ELSE "idle"
           facts == [run[r] EXCEPT !.before = lkg]
<1>1. /\ at[r] = "hash" /\ Goes(r, "hash", to, facts)
      /\ UNCHANGED <<hardware, lkg, snapshots, spoiled, restoring, overtaken, tests, changes>>
  BY DEF HashLkg
<1>2. /\ facts \in FactsType /\ facts.seen = run[r].seen /\ facts.print = run[r].print
      /\ facts.before = lkg
  BY RunFacts DEF FactsType
<1>3. Sound(run[r].seen, snapshots) /\ run[r].print \in Hardware
  BY <1>1, RunFacts DEF HasSeen, DriversInv, RunsKnow
<1>4. to \in {"test", "idle"} /\ (to = "test" => run[r].seen[1].print = run[r].print)
  BY <1>3, LastPrint
<1>5. r \notin overtaken => facts.before = facts.seen
  BY <1>1, <1>2 DEF DriversInv, NotOvertaken
<1> HIDE DEF facts, to
<1>6. Sound(facts.seen, snapshots')
  BY <1>1, <1>2, <1>3, SoundStays DEF Sound, Descent, Rooted
<1> QED BY <1>1, <1>2, <1>3, <1>4, <1>5, <1>6, SoundStays, RunFacts, RunMoves
        DEF HasSeen, HasHash, PastLook

LEMMA TestKeeps ==
    ASSUME DriversInv, NEW r \in Loops, Test(r)
    PROVE  DriversInv'
<1> DEFINE to == IF run[r].kind = "broken" THEN "idle" ELSE "decide"
           facts == [run[r] EXCEPT !.steady = hardware = run[r].print]
<1>1. /\ at[r] = "test" /\ Goes(r, "test", to, facts) /\ to \in {"idle", "decide"}
      /\ UNCHANGED <<hardware, lkg, snapshots, spoiled, restoring, overtaken, tests, changes>>
  BY DEF Test, Goes
<1>2. /\ facts \in FactsType /\ facts.seen = run[r].seen /\ facts.print = run[r].print
      /\ facts.before = run[r].before
  BY RunFacts DEF FactsType
<1>3. /\ Sound(run[r].seen, snapshots) /\ run[r].print \in Hardware
      /\ run[r].seen[1].print = run[r].print
  BY <1>1, RunFacts DEF HasSeen, DriversInv, RunsKnow
<1>4. r \notin overtaken => run[r].before = run[r].seen
  BY <1>1 DEF DriversInv, NotOvertaken, HasHash
<1> HIDE DEF facts, to
<1>6. Sound(facts.seen, snapshots')
  BY <1>1, <1>2, <1>3, SoundStays DEF Sound, Descent, Rooted
<1> QED BY <1>1, <1>2, <1>3, <1>4, <1>6, SoundStays, RunFacts, RunMoves
        DEF HasSeen, HasHash, PastLook

LEMMA DecideKeeps ==
    ASSUME DriversInv, NEW r \in Loops, Decide(r)
    PROVE  DriversInv'
<1> DEFINE to == IF Promotes(r) THEN "snapshot" ELSE "idle"
<1>1. /\ at[r] = "decide" /\ Goes(r, "decide", to, run[r]) /\ to \in {"idle", "snapshot"}
      /\ UNCHANGED <<hardware, lkg, snapshots, spoiled, restoring, overtaken, tests, changes>>
      /\ to = "snapshot" => lkg = run[r].before /\ run[r].kind = "good"
  BY DEF Decide, Goes, Promotes, FullScore
<1>3. /\ Sound(run[r].seen, snapshots) /\ run[r].print \in Hardware
      /\ run[r].seen[1].print = run[r].print
  BY <1>1, RunFacts DEF HasSeen, DriversInv, RunsKnow
<1>4. r \notin overtaken => run[r].before = run[r].seen
  BY <1>1 DEF DriversInv, NotOvertaken, HasHash
<1> HIDE DEF to
<1>6. Sound(run[r].seen, snapshots')
  BY <1>1, <1>3, SoundStays DEF Sound, Descent, Rooted
<1> QED BY <1>1, <1>3, <1>4, <1>6, SoundStays, RunFacts, RunMoves
        DEF HasSeen, HasHash, PastLook

LEMMA PromoteSnapshotKeeps ==
    ASSUME DriversInv, NEW r \in Loops, PromoteSnapshot(r)
    PROVE  DriversInv'
<1> DEFINE to == IF run[r].seen \in spoiled THEN "idle" ELSE "write"
<1>1. /\ at[r] = "snapshot" /\ Goes(r, "snapshot", to, run[r]) /\ to \in {"idle", "write"}
      /\ UNCHANGED <<hardware, lkg, spoiled, restoring, overtaken, tests, changes>>
      /\ snapshots' = snapshots \union {run[r].seen}
  BY DEF PromoteSnapshot, Goes
<1>3. /\ Sound(run[r].seen, snapshots) /\ run[r].print \in Hardware
      /\ run[r].seen[1].print = run[r].print /\ run[r].kind = "good"
  BY <1>1, RunFacts DEF HasSeen, PastLook, DriversInv, RunsKnow
<1>4. r \notin overtaken => lkg = run[r].seen
  BY <1>1 DEF DriversInv, NotOvertaken, PastLook
<1> HIDE DEF to
<1>5. \A p : Sound(p, snapshots) => Sound(p, snapshots')
  BY <1>1 DEF Sound, Descent, Rooted
<1>6. Sound(run[r].seen, snapshots') /\ \A s \in snapshots' : Sound(s, snapshots')
  BY <1>1, <1>3, <1>5, RunFacts DEF Sound, Descent, Rooted
<1>7. lkg' = <<>> \/ Sound(lkg', snapshots')
  BY <1>1, <1>5, RunFacts DEF Sound, Descent, Rooted
<1> QED BY <1>1, <1>3, <1>4, <1>6, <1>7, RunFacts, RunMoves
        DEF HasSeen, HasHash, PastLook

LEMMA PromoteWriteKeeps ==
    ASSUME DriversInv, NEW r \in Loops, PromoteWrite(r)
    PROVE  DriversInv'
<1> DEFINE p == Append(run[r].seen, Profile(run[r].kind, run[r].print))
<1>1. /\ at[r] = "write" /\ Goes(r, "write", "idle", NoFacts) /\ Writes(r, p)
      /\ UNCHANGED <<hardware, snapshots, spoiled, restoring, tests, changes>>
  BY DEF PromoteWrite, Goes
<1>2. /\ Sound(run[r].seen, snapshots) /\ run[r].seen \in snapshots /\ run[r].print \in Hardware
      /\ run[r].seen[1].print = run[r].print /\ run[r].kind = "good"
  BY <1>1, RunFacts DEF HasSeen, PastLook, DriversInv, RunsKnow
<1>3. "good" \in Candidates
  BY <1>2, RunFacts DEF FactsType
<1>4. Sound(p, snapshots)
  BY <1>2, <1>3, PromotedSound
<1>5. NoFacts \in FactsType
  BY NoFactsTyped
<1> HIDE DEF p, NoFacts
<1>6. Sound(lkg', snapshots') /\ \A s \in snapshots' : Sound(s, snapshots')
  BY <1>1, <1>4, RunFacts DEF Writes, Sound, Descent, Rooted
<1> QED BY <1>1, <1>5, <1>6, Overtaking, RunFacts, RunMoves
        DEF HasSeen, HasHash, PastLook

LEMMA RunDiesKeeps ==
    ASSUME DriversInv, NEW r \in Loops, RunDies(r)
    PROVE  DriversInv'
<1>1. /\ Goes(r, at[r], "idle", NoFacts)
      /\ UNCHANGED <<hardware, lkg, snapshots, spoiled, restoring, overtaken, tests, changes>>
  BY DEF RunDies
<1>2. NoFacts \in FactsType
  BY NoFactsTyped
<1> HIDE DEF NoFacts
<1> QED BY <1>1, <1>2, SoundStays, RunFacts, RunMoves DEF HasSeen, HasHash, PastLook

\* A rollback restores a snapshot, which the profile in force descends from.
LEMMA RollbackKeeps ==
    ASSUME DriversInv, RollbackReads \/ RollbackWrites
    PROVE  DriversInv'
<1>1. CASE RollbackReads
  <2>1. /\ UNCHANGED <<hardware, lkg, snapshots, spoiled, at, run, overtaken, tests, changes>>
        /\ restoring' \in snapshots
    BY <1>1 DEF RollbackReads
  <2>2. ProfilesSound'
    BY <2>1 DEF DriversInv, ProfilesSound, Sound, Descent, Rooted
  <2> QED BY <2>1, <2>2 DEF DriversInv, DriverTypes, RunsKnow, NotOvertaken
<1>2. CASE RollbackWrites
  <2>1. /\ UNCHANGED <<hardware, snapshots, spoiled, at, run, tests, changes>>
        /\ restoring' = <<>> /\ lkg' = restoring /\ restoring # <<>>
        /\ Writes("operator", restoring)
    BY <1>2 DEF RollbackWrites, Writes
  <2>2. ProfilesSound'
    BY <2>1 DEF DriversInv, ProfilesSound, Sound, Descent, Rooted
  <2>3. /\ overtaken' \subseteq Loops
        /\ \A o \in Loops \ overtaken' :
             o \notin overtaken /\ at[o] \notin {"hash", "snapshot", "write"}
    BY <2>1, DriversAssumption, Overtaking
  <2>4. NotOvertaken'
    BY <2>1, <2>3 DEF DriversInv, NotOvertaken, HasHash, PastLook
  <2> QED BY <2>1, <2>2, <2>3, <2>4 DEF DriversInv, DriverTypes, RunsKnow
<1> QED BY <1>1, <1>2

LEMMA EnvironmentKeeps ==
    ASSUME DriversInv, HardwareChanges \/ SnapshotRots
    PROVE  DriversInv'
<1>1. /\ UNCHANGED <<lkg, snapshots, at, run, restoring, overtaken, tests>>
      /\ hardware' \in Hardware /\ spoiled' \subseteq snapshots
      /\ changes < MaxChanges /\ changes' = changes + 1
  BY DEF HardwareChanges, SnapshotRots, DriversInv, DriverTypes
<1>2. DriverTypes'
  <2>1. changes' \in 0..MaxChanges
    BY <1>1, DriversAssumption DEF DriversInv, DriverTypes
  <2> QED BY <1>1, <2>1 DEF DriversInv, DriverTypes
<1>3. ProfilesSound'
  BY <1>1 DEF DriversInv, ProfilesSound, Sound, Descent, Rooted
<1> QED BY <1>1, <1>2, <1>3 DEF DriversInv, RunsKnow, NotOvertaken

LEMMA DriversStep == DriversInv /\ [DriversNext]_driverVars => DriversInv'
<1> SUFFICES ASSUME DriversInv, [DriversNext]_driverVars PROVE DriversInv'
  OBVIOUS
<1>1. CASE UNCHANGED driverVars
  <2>1. UNCHANGED <<hardware, lkg, snapshots, spoiled, at, run, restoring, overtaken,
                    tests, changes>>
    BY <1>1 DEF driverVars
  <2>2. ProfilesSound'
    BY <2>1 DEF DriversInv, ProfilesSound, Sound, Descent, Rooted
  <2> QED BY <2>1, <2>2 DEF DriversInv, DriverTypes, RunsKnow, NotOvertaken
<1>2. ASSUME NEW r \in Loops,
             NEW kind \in Candidates, NEW allow \in BOOLEAN, Fingerprint(r, kind, allow)
      PROVE  DriversInv'
  BY <1>2, FingerprintKeeps
<1>3. ASSUME NEW r \in Loops,
             \/ EnsureReads(r) \/ EnsureCreates(r) \/ HashLkg(r) \/ Test(r)
             \/ Decide(r) \/ PromoteSnapshot(r) \/ PromoteWrite(r) \/ RunDies(r)
      PROVE  DriversInv'
  BY <1>3, EnsureReadsKeeps, EnsureCreatesKeeps, HashLkgKeeps, TestKeeps, DecideKeeps,
     PromoteSnapshotKeeps, PromoteWriteKeeps, RunDiesKeeps
<1> QED BY <1>1, <1>2, <1>3, RollbackKeeps, EnvironmentKeeps DEF DriversNext

\* adaptive_driver_loop.py: whatever runs and rollbacks race, and wherever they
\* die, the profile in force leads back to the reference driver through
\* snapshots that exist, and every profile after it passed on its hardware.
THEOREM DriversSafe == DriversInit /\ [][DriversNext]_driverVars => []DriversHold
<1>1. DriversInit /\ [][DriversNext]_driverVars => []DriversInv
  BY DriversInvInit, DriversStep, PTL
<1> QED BY <1>1, DriversInvHolds, PTL

\* adaptive_driver_loop.py, promote_candidate: a promotion overwrites a profile
\* its run has not read only when another process wrote lkg.json in one of the
\* two windows that no comparison covers.
THEOREM DriversPromoteOverSeen ==
    DriversInit /\ [][DriversNext]_driverVars => PromotesOverSeen
<1>1. DriversInit /\ [][DriversNext]_driverVars => []DriversInv
  BY DriversInvInit, DriversStep, PTL
<1>2. DriversInv => [\A r \in Loops : PromoteWrite(r) =>
                        (lkg = run[r].seen \/ r \in overtaken)]_driverVars
  <2> SUFFICES ASSUME DriversInv, NEW r \in Loops, PromoteWrite(r), r \notin overtaken
               PROVE  lkg = run[r].seen
    OBVIOUS
  <2>1. at[r] = "write"
    BY DEF PromoteWrite, Goes
  <2> QED BY <2>1 DEF DriversInv, NotOvertaken, PastLook
<1> QED BY <1>1, <1>2, PTL DEF PromotesOverSeen

-----------------------------------------------------------------------------
(* OvernightLab                                                            *)

InStage == pc \in {"arm", "change", "measure", "restore", "cancel", "verify"}
UnderTimer == pc \in {"change", "measure", "restore", "cancel"}
Restored(r) == value[r] = "original" \/ r \in excused

\* A stage that runs is allowed, and knows the value it must restore.
StageKnows ==
    InStage => stage \in 2..ceiling /\ (original = "original" \/ resource \in excused)

\* What is changed, and measured, is under the timer of this trial.
TimerArmed == UnderTimer => timers[unit] = original

\* Every timer is of a stage that was allowed, and restores the original value.
TimersRestore ==
    \A u \in Units : timers[u] # "none" =>
        /\ u[1] \in 2..ceiling /\ u[1] <= stage
        /\ timers[u] = "original" \/ Touches[u[1]] \in excused

\* While the laboratory runs, the only change is the one that is measured.
OneChange ==
    \A r \in Resources :
        \/ Restored(r) \/ pc = "done"
        \/ pc \in {"measure", "restore"} /\ r = resource

\* After its end every change that is left has a timer.
LeftGuarded ==
    pc = "done" => \A r \in Resources :
        Restored(r) \/ \E u \in Units : Touches[u[1]] = r /\ timers[u] = "original"

\* A module that was loaded is believed to be.
BeliefHolds ==
    /\ pc = "measure" => believed
    /\ pc = "restore" /\ resource \in Modules /\ ~believed => Restored(resource)

LabInv ==
    /\ LabTypeOK /\ StageKnows /\ TimerArmed /\ TimersRestore
    /\ OneChange /\ LeftGuarded /\ CeilingHolds /\ BeliefHolds

LEMMA TouchesResource == \A s \in 2..6 : Touches[s] \in Resources
<1> SUFFICES ASSUME NEW s \in 2..6 PROVE Touches[s] \in Resources
  OBVIOUS
<1>1. s = 2 \/ s = 3 \/ s = 4 \/ s = 5 \/ s = 6
  OBVIOUS
<1> QED BY <1>1 DEF Touches, Resources

\* The resource and the timer of a stage that runs.
LEMMA StageFacts ==
    ASSUME LabInv, InStage
    PROVE  /\ resource \in Resources /\ unit \in Units /\ unit[1] = stage
           /\ stage \in 2..ceiling /\ stage \in 2..6 /\ ceiling \in 1..6
           /\ original \in Values
           /\ original = "original" \/ resource \in excused
<1>1. /\ stage \in 2..ceiling /\ (original = "original" \/ resource \in excused)
      /\ ceiling \in 1..6 /\ trial \in 1..Trials /\ original \in Values
  BY DEF LabInv, StageKnows, LabTypeOK
<1>2. stage \in 2..6
  BY <1>1
<1>3. resource \in Resources
  BY <1>2, TouchesResource DEF resource
<1> QED BY <1>1, <1>2, <1>3 DEF Units, unit

\* The laboratory moves on and leaves the kernel alone.
LEMMA LabMoves ==
    ASSUME LabInv, UNCHANGED <<value, timers, excused, ceiling>>,
           stage' \in 1..6, stage <= stage',
           trial' \in 1..Trials, original' \in Values, labFaults' \in 0..MaxLabFaults,
           results' \in [1..6 -> {"none", "ended", "quarantined"}],
           pc' \in {"idle", "arm", "change", "measure", "restore", "cancel", "verify", "done"},
           InStage' => stage' \in 2..ceiling /\ (original' = "original" \/ resource' \in excused),
           UnderTimer' => timers[unit'] = original',
           \A r \in Resources :
              Restored(r) \/ pc' = "done" \/ (pc' \in {"measure", "restore"} /\ r = resource'),
           pc' = "done" => \A r \in Resources :
              Restored(r) \/ \E u \in Units : Touches[u[1]] = r /\ timers[u] = "original",
           BeliefHolds'
    PROVE  LabInv'
<1>1. LabTypeOK'
  BY DEF LabInv, LabTypeOK
<1>2. StageKnows' /\ TimerArmed' /\ OneChange' /\ LeftGuarded'
  BY DEF StageKnows, TimerArmed, OneChange, LeftGuarded, Restored
<1>3. TimersRestore'
  <2> SUFFICES ASSUME NEW u \in Units, timers[u] # "none"
               PROVE  u[1] \in 2..ceiling /\ u[1] <= stage'
                      /\ (timers[u] = "original" \/ Touches[u[1]] \in excused)
    BY DEF TimersRestore
  <2>1. u[1] \in 2..ceiling /\ u[1] <= stage
        /\ (timers[u] = "original" \/ Touches[u[1]] \in excused)
    BY DEF LabInv, TimersRestore
  <2>2. u[1] \in Nat /\ stage \in Nat /\ stage' \in Nat
    BY <2>1 DEF LabInv, LabTypeOK
  <2> QED BY <2>1, <2>2
<1>4. CeilingHolds'
  <2> SUFFICES ASSUME NEW r \in Resources, value[r] = "changed"
               PROVE  \E s \in 2..ceiling : Touches[s] = r /\ s <= stage'
    BY DEF CeilingHolds
  <2>1. PICK s \in 2..ceiling : Touches[s] = r /\ s <= stage
    BY DEF LabInv, CeilingHolds
  <2>2. stage \in Nat /\ stage' \in Nat
    BY DEF LabInv, LabTypeOK
  <2> QED BY <2>1, <2>2
<1> QED BY <1>1, <1>2, <1>3, <1>4 DEF LabInv

LEMMA BetweenStages ==
    ASSUME LabInv, ReachesStage \/ LabStops \/ StageHeld \/ StageBegins
    PROVE  LabInv'
<1>1. /\ pc = "idle" /\ UNCHANGED <<value, timers, excused, ceiling, labFaults>>
      /\ \A r \in Resources : Restored(r)
  BY DEF ReachesStage, LabStops, StageHeld, StageBegins, Goto, kernel, LabInv, OneChange
<1>2. /\ stage \in 1..6 /\ trial \in 1..Trials /\ original \in Values
      /\ results \in [1..6 -> {"none", "ended", "quarantined"}]
      /\ labFaults \in 0..MaxLabFaults /\ value \in [Resources -> Values] /\ ceiling \in 1..6
  BY DEF LabInv, LabTypeOK
<1>3. CASE StageBegins
  <2>1. /\ stage' = stage /\ results' = results /\ pc' = "arm" /\ trial' = 1
        /\ stage \in 2..ceiling
        /\ original' = IF resource \in Modules THEN "original" ELSE value[resource]
    BY <1>3 DEF StageBegins, Goto
  <2>2. resource \in Resources /\ resource' = resource
    BY <1>2, <2>1, TouchesResource DEF resource
  <2>3. original' \in Values /\ (original' = "original" \/ resource \in excused)
    BY <1>1, <1>2, <2>1, <2>2 DEF Values, Restored
  <2>4. trial' \in 1..Trials /\ stage <= stage'
    BY <1>2, <2>1, LabAssumption
  <2> HIDE DEF resource
  <2> QED BY <1>1, <1>2, <2>1, <2>2, <2>3, <2>4, LabMoves DEF UnderTimer, BeliefHolds
<1>4. CASE ReachesStage \/ LabStops \/ StageHeld
  <2>1. /\ stage' \in 1..6 /\ stage <= stage'
    BY <1>2, <1>4 DEF ReachesStage, LabStops, StageHeld
  <2>2. /\ pc' \in {"idle", "done"} /\ UNCHANGED <<trial, original>>
    BY <1>1, <1>4 DEF ReachesStage, LabStops, StageHeld, Ends, Goto
  <2>3. results' \in [1..6 -> {"none", "ended", "quarantined"}]
    BY <1>2, <1>4 DEF ReachesStage, LabStops, StageHeld, Ends
  <2>4. ~InStage' /\ ~UnderTimer' /\ BeliefHolds'
    BY <2>2 DEF InStage, UnderTimer, BeliefHolds
  <2> QED BY <1>1, <1>2, <2>1, <2>2, <2>3, <2>4, LabMoves
<1> QED BY <1>3, <1>4

\* The end of a stage with everything restored, a refusal, a measurement, a kill.
LEMMA InsideStages ==
    ASSUME LabInv, ChangeRefused \/ Measures \/ Verifies \/ Killed
    PROVE  LabInv'
<1>1. /\ UNCHANGED <<value, timers, excused, ceiling, stage, original>>
  <2>1. CASE ChangeRefused
    BY <2>1 DEF ChangeRefused, kernel
  <2>2. CASE Measures
    BY <2>2 DEF Measures, kernel
  <2>3. CASE Verifies
    BY <2>3 DEF Verifies, kernel
  <2>4. CASE Killed
    BY <2>4 DEF Killed, kernel
  <2> QED BY <2>1, <2>2, <2>3, <2>4
<1>0. resource' = resource
  BY <1>1 DEF resource
<1>2. /\ stage \in 1..6 /\ trial \in 1..Trials /\ original \in Values
      /\ results \in [1..6 -> {"none", "ended", "quarantined"}]
      /\ labFaults \in 0..MaxLabFaults /\ value \in [Resources -> Values] /\ ceiling \in 1..6
  BY DEF LabInv, LabTypeOK
<1>3. labFaults' \in 0..MaxLabFaults
  BY <1>2, LabAssumption DEF ChangeRefused, Measures, Verifies, Killed, LabFault
<1>4. results' \in [1..6 -> {"none", "ended", "quarantined"}]
  BY <1>2 DEF ChangeRefused, Measures, Verifies, Killed, Ends
<1>5. trial' \in 1..Trials
  BY <1>2, LabAssumption DEF ChangeRefused, Measures, Verifies, Killed
<1>6. CASE ChangeRefused \/ Measures
  <2>1. /\ pc \in {"change", "measure"} /\ pc' = "restore" /\ UNCHANGED <<trial, believed>>
        /\ pc = "measure" \/ \A r \in Resources : Restored(r)
    BY <1>6 DEF ChangeRefused, Measures, Goto, LabInv, OneChange
  <2>2. /\ resource \in Resources /\ stage \in 2..ceiling
        /\ original = "original" \/ resource \in excused
    BY <2>1, StageFacts DEF InStage
  <2>3. unit' = unit /\ timers[unit] = original
    BY <1>1, <2>1 DEF LabInv, TimerArmed, UnderTimer, unit
  <2>4. BeliefHolds'
    BY <1>0, <1>1, <2>1, <2>2 DEF LabInv, BeliefHolds, Restored
  <2>5. \A r \in Resources : Restored(r) \/ r = resource'
    BY <1>0, <1>1, <2>1 DEF LabInv, OneChange
  <2> HIDE DEF resource, unit
  <2> QED BY <1>0, <1>1, <1>2, <1>3, <1>4, <1>5, <2>1, <2>2, <2>3, <2>4, <2>5, LabMoves
<1>7. CASE Verifies
  <2>1. /\ pc = "verify" /\ pc' \in {"idle", "done", "arm"}
    BY <1>7 DEF Verifies, Ends
  <2>2. stage \in 2..ceiling /\ (original = "original" \/ resource \in excused)
    BY <2>1, StageFacts DEF InStage
  <2>3. \A r \in Resources : Restored(r)
    BY <2>1 DEF LabInv, OneChange
  <2>4. ~UnderTimer' /\ BeliefHolds'
    BY <2>1 DEF UnderTimer, BeliefHolds
  <2> HIDE DEF resource, unit
  <2> QED BY <1>0, <1>1, <1>2, <1>3, <1>4, <1>5, <2>1, <2>2, <2>3, <2>4, LabMoves
<1>8. CASE Killed
  <2>1. /\ pc # "done" /\ pc' = "done" /\ UNCHANGED trial
    BY <1>8 DEF Killed
  <2>2. ~InStage' /\ ~UnderTimer' /\ BeliefHolds'
    BY <2>1 DEF InStage, UnderTimer, BeliefHolds
  <2>3. ASSUME NEW r \in Resources, ~Restored(r)
        PROVE  \E u \in Units : Touches[u[1]] = r /\ timers[u] = "original"
    <3>1. pc \in {"measure", "restore"} /\ r = resource
      BY <2>1, <2>3 DEF LabInv, OneChange
    <3>2. unit \in Units /\ unit[1] = stage /\ (original = "original" \/ resource \in excused)
      BY <3>1, StageFacts DEF InStage
    <3>3. timers[unit] = original
      BY <3>1 DEF LabInv, TimerArmed, UnderTimer
    <3> QED BY <2>3, <3>1, <3>2, <3>3 DEF Restored, resource
  <2> HIDE DEF resource, unit
  <2> QED BY <1>0, <1>1, <1>2, <1>3, <1>4, <1>5, <2>1, <2>2, <2>3, LabMoves
<1> QED BY <1>6, <1>7, <1>8

\* A step inside a stage, which may touch its resource and its timer.
LEMMA StageActs ==
    ASSUME LabInv, InStage, UNCHANGED <<stage, ceiling, trial, original>>,
           results' \in [1..6 -> {"none", "ended", "quarantined"}],
           pc' \in {"idle", "arm", "change", "measure", "restore", "cancel", "verify", "done"},
           value' \in [Resources -> Values],
           timers' \in [Units -> Values \union {"none"}],
           labFaults' \in 0..MaxLabFaults,
           excused \subseteq excused', excused' \subseteq Resources,
           \A r \in Resources : r # resource => value'[r] = value[r],
           \A u \in Units : u # unit => timers'[u] = timers[u],
           timers'[unit] \in {timers[unit], original, "none"},
           UnderTimer' => timers'[unit] = original,
           \/ value'[resource] = "original" \/ resource \in excused'
           \/ pc' \in {"measure", "restore"}
           \/ pc' = "done" /\ timers'[unit] = original,
           BeliefHolds'
    PROVE  LabInv'
<1>1. resource' = resource /\ unit' = unit
  BY DEF resource, unit
<1>2. LabTypeOK'
  BY DEF LabInv, LabTypeOK
<1>3. /\ resource \in Resources /\ unit \in Units /\ unit[1] = stage
      /\ stage \in 2..ceiling /\ stage \in 2..6 /\ Touches[stage] = resource
      /\ original = "original" \/ resource \in excused
  BY StageFacts DEF resource
<1>4. StageKnows' /\ TimerArmed'
  BY <1>1, <1>3 DEF StageKnows, TimerArmed
<1>5. TimersRestore'
  <2> SUFFICES ASSUME NEW u \in Units, timers'[u] # "none"
               PROVE  u[1] \in 2..ceiling /\ u[1] <= stage
                      /\ (timers'[u] = "original" \/ Touches[u[1]] \in excused')
    BY DEF TimersRestore
  <2>1. timers[u] # "none" => u[1] \in 2..ceiling /\ u[1] <= stage
        /\ (timers[u] = "original" \/ Touches[u[1]] \in excused)
    BY DEF LabInv, TimersRestore
  <2>2. CASE u = unit /\ timers'[u] = original
    BY <1>3, <2>2
  <2>3. CASE timers'[u] = timers[u]
    BY <2>1, <2>3
  <2> QED BY <2>2, <2>3
<1>6. ASSUME NEW r \in Resources, r # resource
      PROVE  value'[r] = "original" \/ r \in excused'
  BY <1>6 DEF LabInv, OneChange, Restored, InStage
<1>7. OneChange' /\ LeftGuarded'
  BY <1>1, <1>3, <1>6 DEF OneChange, LeftGuarded, Restored
<1>8. CeilingHolds'
  <2> SUFFICES ASSUME NEW r \in Resources, value'[r] = "changed"
               PROVE  \E s \in 2..ceiling : Touches[s] = r /\ s <= stage
    BY DEF CeilingHolds
  <2>1. CASE r = resource
    BY <1>3, <2>1
  <2>2. CASE r # resource
    BY <2>2 DEF LabInv, CeilingHolds
  <2> QED BY <2>1, <2>2
<1> QED BY <1>2, <1>4, <1>5, <1>7, <1>8 DEF LabInv

\* What a stage starts from, and what a function update leaves.
LEMMA StageTypes ==
    ASSUME LabInv
    PROVE  /\ results \in [1..6 -> {"none", "ended", "quarantined"}]
           /\ value \in [Resources -> Values] /\ timers \in [Units -> Values \union {"none"}]
           /\ excused \subseteq Resources /\ labFaults \in 0..MaxLabFaults
           /\ LabFault => labFaults' \in 0..MaxLabFaults
           /\ \A x : Ends(x) /\ x \in {"ended", "quarantined"} =>
                /\ results' \in [1..6 -> {"none", "ended", "quarantined"}]
                /\ pc' \in {"idle", "done"}
                /\ x = "quarantined" => pc' = "done"
<1>1. /\ results \in [1..6 -> {"none", "ended", "quarantined"}]
      /\ value \in [Resources -> Values] /\ timers \in [Units -> Values \union {"none"}]
      /\ excused \subseteq Resources /\ labFaults \in 0..MaxLabFaults
  BY DEF LabInv, LabTypeOK
<1>2. LabFault => labFaults' \in 0..MaxLabFaults
  BY <1>1, LabAssumption DEF LabFault
<1>3. ASSUME NEW x \in {"ended", "quarantined"}, Ends(x)
      PROVE  /\ results' \in [1..6 -> {"none", "ended", "quarantined"}]
             /\ pc' \in {"idle", "done"}
             /\ x = "quarantined" => pc' = "done"
  BY <1>1, <1>3 DEF Ends
<1> QED BY <1>1, <1>2, <1>3

LEMMA ArmKeeps ==
    ASSUME LabInv, Arms \/ ArmFails
    PROVE  LabInv'
<1>1. /\ pc = "arm" /\ UNCHANGED <<stage, ceiling, trial, original, value, excused>>
      /\ pc' \in {"idle", "done", "change"}
      /\ pc' = "change" => timers' = [timers EXCEPT ![unit] = original]
      /\ timers' \in {timers, [timers EXCEPT ![unit] = original]}
  BY DEF Arms, ArmFails, Goto, Ends
<1>2. /\ results' \in [1..6 -> {"none", "ended", "quarantined"}]
      /\ labFaults' \in 0..MaxLabFaults
  <2>1. CASE Arms
    BY <2>1, StageTypes DEF Arms
  <2>2. CASE ArmFails
    BY <2>2, StageTypes DEF ArmFails, Ends
  <2> QED BY <2>1, <2>2
<1>3. InStage /\ ~(pc \in {"measure", "restore", "done"})
  BY <1>1 DEF InStage
<1>4. /\ resource \in Resources
      /\ unit \in Units
      /\ original \in Values
      /\ (value[resource] = "original" \/ resource \in excused)
  BY <1>3, StageFacts DEF LabInv, OneChange, Restored
<1>5. BeliefHolds'
  BY <1>1 DEF BeliefHolds
<1>6. /\ timers' \in [Units -> Values \union {"none"}]
      /\ \A u \in Units : u # unit => timers'[u] = timers[u]
      /\ timers'[unit] \in {timers[unit], original}
      /\ pc' = "change" => timers'[unit] = original
  BY <1>1, <1>4, StageTypes
<1>7. UnderTimer' => timers'[unit] = original
  BY <1>1, <1>6 DEF UnderTimer
<1> QED BY <1>1, <1>2, <1>3, <1>4, <1>5, <1>6, <1>7, StageTypes, StageActs

LEMMA ChangeKeeps ==
    ASSUME LabInv, Changes \/ ChangeTimesOut
    PROVE  LabInv'
<1>1. /\ pc = "change" /\ UNCHANGED <<stage, ceiling, trial, original, results, timers>>
      /\ value' \in {value, [value EXCEPT ![resource] = "changed"]}
      /\ excused' \in {excused, excused \union {resource}}
      /\ \/ pc' = "measure"
         \/ pc' = "restore" /\ (resource \in Modules => resource \in excused')
  <2>1. CASE Changes
    BY <2>1 DEF Changes, Goto
  <2>2. CASE ChangeTimesOut
    BY <2>2 DEF ChangeTimesOut, Goto
  <2> QED BY <2>1, <2>2
<1>2. labFaults' \in 0..MaxLabFaults
  BY StageTypes DEF Changes, ChangeTimesOut
<1>3. InStage /\ timers[unit] = original
  BY <1>1 DEF InStage, UnderTimer, LabInv, TimerArmed
<1>4. resource \in Resources /\ unit \in Units
  BY <1>3, StageFacts
<1>5. /\ value' \in [Resources -> Values]
      /\ \A r \in Resources : r # resource => value'[r] = value[r]
      /\ excused \subseteq excused' /\ excused' \subseteq Resources
  BY <1>1, <1>4, StageTypes DEF Values
<1>6. BeliefHolds'
  <2>1. resource' = resource
    BY <1>1 DEF resource
  <2>2. CASE Changes
    <3>1. believed' /\ pc' = "measure"
      BY <2>2 DEF Changes, Goto
    <3> QED BY <3>1 DEF BeliefHolds
  <2>3. CASE ChangeTimesOut
    <3>1. pc' = "restore"
      BY <2>3 DEF ChangeTimesOut, Goto
    <3> QED BY <1>1, <2>1, <3>1 DEF BeliefHolds, Restored
  <2> QED BY <2>2, <2>3
<1> QED BY <1>1, <1>2, <1>3, <1>4, <1>5, <1>6, StageTypes, StageActs

LEMMA RestoreKeeps ==
    ASSUME LabInv, Restores \/ RestoreRefused \/ RestoreTimesOut
    PROVE  LabInv'
<1>1. /\ pc = "restore" /\ UNCHANGED <<stage, ceiling, trial, original, timers>>
      /\ pc' \in {"cancel", "done"}
  <2>1. CASE Restores
    BY <2>1 DEF Restores, Goto
  <2>2. CASE RestoreRefused
    BY <2>2 DEF RestoreRefused, Goto
  <2>3. CASE RestoreTimesOut
    BY <2>3 DEF RestoreTimesOut, Ends
  <2> QED BY <2>1, <2>2, <2>3
<1>2. InStage /\ timers[unit] = original
  BY <1>1 DEF InStage, UnderTimer, LabInv, TimerArmed
<1>3. /\ resource \in Resources
      /\ unit \in Units
      /\ original \in Values
      /\ original = "original" \/ resource \in excused
  BY <1>2, StageFacts
<1>4. /\ value' \in {value, [value EXCEPT ![resource] = original]}
      /\ excused' \in {excused, excused \union {resource}}
  <2>1. CASE Restores
    BY <2>1 DEF Restores
  <2>2. CASE RestoreRefused
    BY <2>2 DEF RestoreRefused
  <2>3. CASE RestoreTimesOut
    BY <2>3 DEF RestoreTimesOut
  <2> QED BY <2>1, <2>2, <2>3
<1>5. \/ value'[resource] = "original" \/ resource \in excused'
      \/ pc' = "done"
  <2>1. CASE Restores /\ Skips
    <3>1. Restored(resource)
      BY <1>1, <2>1 DEF LabInv, BeliefHolds, Skips
    <3> QED BY <2>1, <3>1 DEF Restores, Restored
  <2>2. CASE Restores /\ ~Skips
    <3>1. value' = [value EXCEPT ![resource] = original] /\ excused' = excused
      BY <2>2 DEF Restores
    <3> QED BY <1>3, <3>1, StageTypes
  <2>3. CASE RestoreRefused
    BY <2>3 DEF RestoreRefused
  <2>4. CASE RestoreTimesOut
    BY <2>4 DEF RestoreTimesOut, Ends
  <2> QED BY <2>1, <2>2, <2>3, <2>4
<1>6. /\ value' \in [Resources -> Values]
      /\ \A r \in Resources : r # resource => value'[r] = value[r]
      /\ excused \subseteq excused' /\ excused' \subseteq Resources
  BY <1>3, <1>4, StageTypes
<1>7. labFaults' \in 0..MaxLabFaults
  BY StageTypes DEF Restores, RestoreRefused, RestoreTimesOut
<1>8. results' \in [1..6 -> {"none", "ended", "quarantined"}]
  BY StageTypes DEF Restores, RestoreRefused, RestoreTimesOut, Ends
<1>9. BeliefHolds'
  BY <1>1 DEF BeliefHolds
<1> QED BY <1>1, <1>2, <1>3, <1>5, <1>6, <1>7, <1>8, <1>9, StageTypes, StageActs

LEMMA CancelKeeps ==
    ASSUME LabInv, Cancels
    PROVE  LabInv'
<1>1. /\ pc = "cancel" /\ pc' = "verify"
      /\ UNCHANGED <<stage, ceiling, trial, original, results, value, excused>>
      /\ timers' \in {timers, [timers EXCEPT ![unit] = "none"]}
  BY DEF Cancels, Goto
<1>2. labFaults' \in 0..MaxLabFaults
  BY StageTypes DEF Cancels
<1>3. InStage /\ ~(pc \in {"measure", "restore", "done"})
  BY <1>1 DEF InStage
<1>4. /\ resource \in Resources
      /\ unit \in Units
      /\ (value[resource] = "original" \/ resource \in excused)
  BY <1>3, StageFacts DEF LabInv, OneChange, Restored
<1>5. BeliefHolds' /\ ~UnderTimer'
  BY <1>1 DEF BeliefHolds, UnderTimer
<1>6. /\ timers' \in [Units -> Values \union {"none"}]
      /\ \A u \in Units : u # unit => timers'[u] = timers[u]
      /\ timers'[unit] \in {timers[unit], "none"}
  BY <1>1, <1>4, StageTypes
<1> QED BY <1>1, <1>2, <1>3, <1>4, <1>5, <1>6, StageTypes, StageActs

\* systemd: a timer restores its value and is gone.
LEMMA TimerKeeps ==
    ASSUME LabInv, NEW u \in Units, TimerFires(u)
    PROVE  LabInv'
<1> DEFINE touched == Touches[u[1]]
<1>1. /\ timers[u] # "none" /\ ~Guards(u)
      /\ value' = [value EXCEPT ![touched] = timers[u]]
      /\ timers' = [timers EXCEPT ![u] = "none"]
      /\ UNCHANGED <<stage, results, ceiling, pc, trial, original, excused, labFaults>>
  BY DEF TimerFires
<1>2. believed' = believed /\ resource' = resource /\ unit' = unit
  BY DEF TimerFires, resource, unit
<1>3. /\ u[1] \in 2..ceiling /\ u[1] <= stage /\ u[1] \in 2..6
      /\ timers[u] = "original" \/ touched \in excused
  BY <1>1 DEF LabInv, TimersRestore, LabTypeOK, Units
<1>4. touched \in Resources
  BY <1>3, TouchesResource
<1>5. timers[u] \in Values
  BY <1>1, StageTypes
<1>6. ASSUME NEW r \in Resources
      PROVE  /\ r # touched => value'[r] = value[r]
             /\ value'[touched] = timers[u]
             /\ value' \in [Resources -> Values]
  BY <1>1, <1>4, <1>5, StageTypes
<1>7. /\ timers' \in [Units -> Values \union {"none"}]
      /\ timers'[u] = "none" /\ \A v \in Units : v # u => timers'[v] = timers[v]
  BY <1>1, StageTypes
<1>8. \A r \in Resources : Restored(r) => value'[r] = "original" \/ r \in excused
  BY <1>3, <1>6 DEF Restored
<1> HIDE DEF touched
<1>9. LabTypeOK'
  BY <1>1, <1>4, <1>6, <1>7 DEF LabInv, LabTypeOK
<1>10. StageKnows'
  BY <1>1, <1>2 DEF LabInv, StageKnows, InStage
<1>11. TimerArmed'
  <2> SUFFICES ASSUME UnderTimer PROVE timers'[unit] = original
    BY <1>1, <1>2 DEF TimerArmed, UnderTimer
  <2>1. u # unit /\ timers[unit] = original
    BY <1>1 DEF LabInv, TimerArmed, UnderTimer, Guards
  <2>2. unit \in Units
    BY StageFacts DEF UnderTimer, InStage
  <2> QED BY <1>7, <2>1, <2>2
<1>12. TimersRestore'
  BY <1>1, <1>7 DEF LabInv, TimersRestore
<1>13. OneChange'
  BY <1>1, <1>2, <1>8 DEF LabInv, OneChange, Restored
<1>14. LeftGuarded'
  <2> SUFFICES ASSUME pc = "done", NEW r \in Resources, ~(value'[r] = "original" \/ r \in excused)
               PROVE  \E v \in Units : Touches[v[1]] = r /\ timers'[v] = "original"
    BY <1>1 DEF LeftGuarded, Restored
  <2>1. r # touched
    BY <1>3, <1>6
  <2>2. PICK v \in Units : Touches[v[1]] = r /\ timers[v] = "original"
    BY <1>8 DEF LabInv, LeftGuarded
  <2>3. v # u
    BY <2>1, <2>2 DEF touched
  <2> QED BY <1>7, <2>2, <2>3
<1>15. CeilingHolds'
  <2> SUFFICES ASSUME NEW r \in Resources, value'[r] = "changed"
               PROVE  \E s \in 2..ceiling : Touches[s] = r /\ s <= stage
    BY <1>1 DEF CeilingHolds
  <2>1. CASE r = touched
    BY <1>3, <2>1 DEF touched
  <2>2. CASE r # touched
    BY <1>6, <2>2 DEF LabInv, CeilingHolds
  <2> QED BY <2>1, <2>2
<1>16. BeliefHolds'
  <2>1. resource \in Modules => resource \in Resources
    BY DEF Modules, Resources
  <2> QED BY <1>1, <1>2, <1>8, <2>1 DEF LabInv, BeliefHolds, Restored
<1> QED BY <1>9, <1>10, <1>11, <1>12, <1>13, <1>14, <1>15, <1>16 DEF LabInv

LEMMA LabInvInit == LabInit => LabInv
<1> SUFFICES ASSUME LabInit PROVE LabInv
  OBVIOUS
<1>1. /\ stage = 1 /\ trial = 1 /\ ceiling \in 1..6 /\ pc = "idle" /\ original = "original"
      /\ results = [s \in 1..6 |-> "none"] /\ value = [r \in Resources |-> "original"]
      /\ timers = [u \in Units |-> "none"] /\ excused = {} /\ labFaults = 0
  BY DEF LabInit
<1>2. LabTypeOK
  BY <1>1, LabAssumption DEF LabTypeOK, Values
<1>3. BeliefHolds
  BY <1>1 DEF BeliefHolds
<1> QED BY <1>1, <1>2, <1>3
        DEF LabInv, StageKnows, TimerArmed, TimersRestore, OneChange, LeftGuarded, CeilingHolds,
            InStage, UnderTimer, Restored

LEMMA LabStep == LabInv /\ [LabNext]_labVars => LabInv'
<1> SUFFICES ASSUME LabInv, [LabNext]_labVars PROVE LabInv'
  OBVIOUS
<1>1. CASE UNCHANGED labVars
  <2>1. UNCHANGED <<stage, results, ceiling, pc, trial, original, value, timers, excused,
                    labFaults, believed>>
    BY <1>1 DEF labVars
  <2>2. resource' = resource /\ unit' = unit
    BY <2>1 DEF resource, unit
  <2>3. BeliefHolds'
    BY <2>1, <2>2 DEF LabInv, BeliefHolds, Restored
  <2> QED BY <2>1, <2>2, <2>3
          DEF LabInv, LabTypeOK, StageKnows, TimerArmed, TimersRestore, OneChange, LeftGuarded,
              CeilingHolds, InStage, UnderTimer, Restored
<1>2. CASE LabSteps
  BY <1>2, BetweenStages, InsideStages, ArmKeeps, ChangeKeeps, RestoreKeeps, CancelKeeps
     DEF LabSteps
<1> QED BY <1>1, <1>2, InsideStages, TimerKeeps DEF LabNext

LEMMA LabInvHolds == LabInv => LabHolds
<1> SUFFICES ASSUME LabInv PROVE ChangeIsGuarded
  BY DEF LabInv, LabHolds
<1> SUFFICES ASSUME NEW r \in Resources, r \notin excused, value[r] = "changed"
             PROVE  \E u \in Units : Touches[u[1]] = r /\ timers[u] = "original"
  BY DEF ChangeIsGuarded
<1>1. CASE pc = "done"
  BY <1>1 DEF LabInv, LeftGuarded, Restored
<1>2. CASE pc # "done"
  <2>1. pc \in {"measure", "restore"} /\ r = resource
    BY <1>2 DEF LabInv, OneChange, Restored
  <2>2. unit \in Units /\ unit[1] = stage /\ (original = "original" \/ resource \in excused)
    BY <2>1, StageFacts DEF InStage
  <2>3. timers[unit] = original
    BY <2>1 DEF LabInv, TimerArmed, UnderTimer
  <2> QED BY <2>1, <2>2, <2>3 DEF resource
<1> QED BY <1>1, <1>2

\* pi3_overnight_lab.py: wherever the laboratory is killed, whatever it has
\* changed is under a timer that restores it, but for a refused restore and a
\* module load that was cut off; and it changes nothing above its risk ceiling.
THEOREM LabSafe == LabInit /\ [][LabNext]_labVars => []LabHolds
<1>1. LabInit /\ [][LabNext]_labVars => []LabInv
  BY LabInvInit, LabStep, PTL
<1> QED BY <1>1, LabInvHolds, PTL

-----------------------------------------------------------------------------
(* MCPi                                                                    *)

\* A step of one program leaves the others where they are.
LEMMA PiSteps ==
    ASSUME [PiNext]_piVars
    PROVE  /\ [RescueNext]_rescueVars /\ [HidKvmNext]_kvmVars /\ [SyncNext]_syncVars
           /\ [DriversNext]_driverVars /\ [LabNext]_labVars
BY DEF PiNext, Only, OnlyRescue, OnlyKeyboard, OnlySync, OnlyDrivers, OnlyLab, piVars

\* Each program of a machine behaves as its own specification says.
LEMMA PiProjects ==
    PiSpec => /\ RescueInit /\ [][RescueNext]_rescueVars
              /\ HidKvmInit /\ [][HidKvmNext]_kvmVars
              /\ SyncInit /\ [][SyncNext]_syncVars
              /\ DriversInit /\ [][DriversNext]_driverVars
              /\ LabInit /\ [][LabNext]_labVars
<1>1. PiInit => RescueInit /\ HidKvmInit /\ SyncInit /\ DriversInit /\ LabInit
  BY DEF PiInit
<1> QED BY <1>1, PiSteps, PTL DEF PiSpec

\* The programs of the Pis together: every safety property that MCPi checks.
THEOREM PiSafe ==
    PiSpec => [](RescueHolds /\ KvmHolds /\ SyncHolds /\ AdaptiveHolds) /\ PromotesOverSeen
<1>1. DriversHold /\ LabHolds => AdaptiveHolds
  BY DEF AdaptiveHolds
<1> QED BY <1>1, PiProjects, RescueSafe, KvmSafe, SyncSafe, DriversSafe, DriversPromoteOverSeen,
           LabSafe, PTL DEF RescueSpec
=============================================================================
