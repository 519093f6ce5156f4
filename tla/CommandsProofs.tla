--------------------------- MODULE CommandsProofs ---------------------------
(* The settings page for every record: what runs is what would be loaded.  *)
(* And Commands for any number of operators, positions and happenings: the *)
(* node's settings behave as if they were alone, and the overrides the     *)
(* server holds never contradict each other.                               *)
EXTENDS Commands, SequenceTheorems, TLAPS

-----------------------------------------------------------------------------
(* The settings page.                                                      *)

(* A page with a record is never taken for a blank one.                    *)
LEMMA RecordIsNotBlank == ASSUME NEW r \in Records PROVE r # Blank
<1>1. DOMAIN r = Fields /\ DOMAIN Blank = {}
  BY DEF Records, Blank
<1> QED
  BY <1>1, SettingsConstants

(* Load() yields a record, from a page of either kind.                     *)
LEMMA LoadedIsRecord ==
    ASSUME NEW p \in {Blank} \cup Records
    PROVE  Loaded(p) \in Records
BY SettingsConstants DEF Loaded, Defaults, Records

(* What a page that loads holds while Save() is under way: the old record  *)
(* until the erase is over.                                                *)
Untouched == page \in {Blank, ram}

(* PageMatchesRam and ReportIsStored are not inductive: a save starts from *)
(* them and passes through phases about which they say nothing.            *)
IInv ==
    /\ TypeOK
    /\ phase \in {"Idle", "Erasing"} => Untouched
    /\ phase = "Programming" => page = Blank
    /\ phase = "Idle" /\ ~trouble => Loaded(page) = ram
    /\ answered = "Report" => phase = "Idle"

(* The initial state satisfies the invariant.                              *)
LEMMA InitHolds == Init => IInv
<1> SUFFICES ASSUME Init PROVE IInv
  OBVIOUS
<1>1. ram \in Records
  BY LoadedIsRecord DEF Init
<1> QED
  BY <1>1 DEF Init, IInv, TypeOK, Untouched, Loaded

(* Every step preserves it, the failures and the reset included.           *)
LEMMA StepHolds == IInv /\ [Next]_vars => IInv'
<1> SUFFICES ASSUME IInv, [Next]_vars PROVE IInv'
  OBVIOUS
<1> USE DEF IInv, TypeOK, Untouched
<1>1. ASSUME NEW f \in Fields, NEW v \in Values, SetUnchanged(f, v) PROVE IInv'
  BY <1>1 DEF SetUnchanged
<1>2. ASSUME NEW f \in Fields, NEW v \in Values, BeginSave(f, v) PROVE IInv'
  BY <1>2 DEF BeginSave, Records
<1>3. ASSUME EraseDone PROVE IInv'
  BY <1>3 DEF EraseDone
<1>4. ASSUME EraseFails PROVE IInv'
  BY <1>4 DEF EraseFails
<1>5. ASSUME ProgramDone PROVE IInv'
  BY <1>5, RecordIsNotBlank DEF ProgramDone, Loaded
<1>6. ASSUME ProgramFails PROVE IInv'
  BY <1>6 DEF ProgramFails
<1>7. ASSUME Reset PROVE IInv'
  <2>1. page' \in {Blank} \cup Records
    BY <1>7 DEF Reset
  <2>2. ram' \in Records /\ ram' = Loaded(page')
    BY <1>7, <2>1, LoadedIsRecord DEF Reset
  <2>3. page' # Blank => page' = ram'
    BY <2>2 DEF Loaded
  <2> QED
    BY <1>7, <2>1, <2>2, <2>3 DEF Reset
<1>8. ASSUME UNCHANGED vars PROVE IInv'
  BY <1>8 DEF vars, Loaded, Defaults
<1> QED
  BY <1>1, <1>2, <1>3, <1>4, <1>5, <1>6, <1>7, <1>8 DEF Next

(* The invariant holds throughout.                                         *)
LEMMA Inductive == Spec => []IInv
BY InitHolds, StepHolds, PTL DEF Spec

-----------------------------------------------------------------------------
(* Every variable keeps its type, for every record a page can hold.        *)
THEOREM SettingsTypeCorrect == Spec => []TypeOK
BY Inductive, PTL DEF IInv

(* Between two saves a page that would load is what the node works with:   *)
(* SettingsPage::Save() and the order in which Calibration updates its     *)
(* copy leave no other.                                                    *)
THEOREM PageIsWhatRuns == Spec => []PageMatchesRam
<1>1. IInv => PageMatchesRam
  BY DEF IInv, PageMatchesRam, Untouched
<1> QED
  BY <1>1, Inductive, PTL

(* A Report is of what is stored, as long as no save has failed.           *)
THEOREM ReportsAreStored == Spec => []ReportIsStored
<1>1. IInv => ReportIsStored
  BY DEF IInv, ReportIsStored
<1> QED
  BY <1>1, Inductive, PTL

(* A reset between two saves loads what the node worked with.              *)
THEOREM ResetLosesNothing == Spec => SettingsSurviveReset
<1> DEFINE Untroubled ==
        phase = "Idle" /\ ~trouble /\ answered' = "none" /\ phase' = "Idle"
<1>1. IInv /\ [Next]_vars /\ Untroubled => ram' = ram
  <2> SUFFICES ASSUME IInv, [Next]_vars, Untroubled PROVE ram' = ram
    OBVIOUS
  <2> USE DEF IInv
  <2>1. CASE Reset
    BY <2>1 DEF Reset
  <2>2. CASE ~Reset
    BY <2>2 DEF Next, vars, SetUnchanged, BeginSave, EraseDone, EraseFails,
                ProgramDone, ProgramFails
  <2> QED
    BY <2>1, <2>2
<1>2. IInv /\ [Next]_vars => [Untroubled => ram' = ram]_vars
  BY <1>1
<1> QED
  BY <1>2, Inductive, PTL DEF Spec, SettingsSurviveReset

-----------------------------------------------------------------------------
(* Commands: types.                                                        *)

(* A Set of a damper endpoint asks for a position or for a mode, any other *)
(* for the value of a setting: the endpoint tells which.                   *)
LEMMA SetByEndpoint ==
    ASSUME NEW set \in Sets
    PROVE  /\ set.ep = "DamperTarget" => set.value \in Targets
           /\ set.ep = "DamperMode" => set.value \in Modes
           /\ set.ep \in Fields => set.value \in Values
           /\ heldByServer(set.ep) <=> set.ep \in DamperEndpoints
BY CommandConstants DEF Sets, heldByServer, DamperEndpoints

(* What is read from the store are Sets that can be sent.                  *)
LEMMA OverridesAreSets ==
    ASSUME CommandsTypeOK PROVE Overrides \in Seq(Sets)
<1> DEFINE Row(ep) == IF held[ep] = None THEN <<>>
                      ELSE <<[ep |-> ep, value |-> held[ep]]>>
<1>1. Row("DamperTarget") \in Seq(Sets)
  <2>1. ASSUME held["DamperTarget"] # None
        PROVE  [ep |-> "DamperTarget", value |-> held["DamperTarget"]] \in Sets
    BY <2>1 DEF CommandsTypeOK, Sets
  <2> QED
    BY <2>1
<1>2. Row("DamperMode") \in Seq(Sets)
  <2>1. ASSUME held["DamperMode"] # None
        PROVE  [ep |-> "DamperMode", value |-> held["DamperMode"]] \in Sets
    BY <2>1 DEF CommandsTypeOK, Sets
  <2> QED
    BY <2>1
<1> HIDE DEF Row
<1>3. Row("DamperTarget") \o Row("DamperMode") \in Seq(Sets)
  BY <1>1, <1>2, ConcatProperties
<1> QED
  BY <1>3 DEF Overrides, Row

(* A frame is added to the link or lost.                                   *)
LEMMA SentIsDownlink ==
    ASSUME CommandsTypeOK, NEW set \in Sets PROVE Sent(set) \in Seq(Sets)
BY DEF CommandsTypeOK, Sent

LEMMA TypeInit == CommandsInit => CommandsTypeOK
<1> SUFFICES ASSUME CommandsInit PROVE CommandsTypeOK
  OBVIOUS
<1>1. /\ held \in [DamperEndpoints -> Targets \cup Modes \cup {None}]
      /\ held["DamperTarget"] \in Targets \cup {None}
      /\ held["DamperMode"] \in Modes \cup {None}
  BY DEF CommandsInit, DamperEndpoints
<1>2. /\ request \in [Requests -> [at : {"idle", "hold", "mirror"},
                                  set : Sets \cup {None}]]
      /\ \A r \in Requests : request[r].at = "idle"
  BY DEF CommandsInit, Idle
<1>3. node \in [runs : {"app", "boot", "down"}, mode : Modes,
               target : Targets \cup {None}]
  BY DEF CommandsInit, Fresh, Modes
<1> QED
  <2>1. resend \in Seq(Sets) /\ downlink \in Seq(Sets)
        /\ news \in Seq({"app", "boot", "gone"})
    BY DEF CommandsInit
  <2>2. unsure \in BOOLEAN /\ happened \in Nat
    BY DEF CommandsInit
  <2>3. session \in {"up", "dead", "down"} /\ known \in {"app", "boot", "gone"}
    BY DEF CommandsInit
  <2> QED
    BY <1>1, <1>2, <1>3, <2>1, <2>2, <2>3 DEF CommandsTypeOK

(* The server's goroutines.                                                *)
LEMMA ServerTypes ==
    ASSUME CommandsTypeOK,
           \/ \E r \in Requests, set \in Sets : SendCommand(r, set)
           \/ \E ep \in DamperEndpoints : DeleteOverride(ep)
           \/ OnPresence \/ SendOverride \/ OnConnect \/ OnDisconnect
    PROVE  CommandsTypeOK'
<1>1. ASSUME NEW r \in Requests, NEW set \in Sets, SendCommand(r, set)
      PROVE  CommandsTypeOK'
  <2>1. request' \in [Requests -> [at : {"idle", "hold", "mirror"},
                                   set : Sets \cup {None}]]
    BY <1>1 DEF SendCommand, CommandsTypeOK
  <2>2. \A q \in Requests : request'[q].at # "idle" =>
            request'[q].set \in Sets /\ heldByServer(request'[q].set.ep)
    BY <1>1 DEF SendCommand, CommandsTypeOK
  <2>3. downlink' \in Seq(Sets)
    BY <1>1, SentIsDownlink DEF SendCommand
  <2>4. unsure' \in BOOLEAN /\ happened' \in Nat
    BY <1>1 DEF SendCommand, CommandsTypeOK, Happens
  <2> QED
    BY <1>1, <2>1, <2>2, <2>3, <2>4 DEF SendCommand, CommandsTypeOK, field
<1>2. ASSUME NEW ep \in DamperEndpoints, DeleteOverride(ep)
      PROVE  CommandsTypeOK'
  BY <1>2 DEF DeleteOverride, CommandsTypeOK, Happens, DamperEndpoints, links, field
<1>3. ASSUME OnPresence PROVE CommandsTypeOK'
  <2>1. resend' \in Seq(Sets) /\ unsure' \in BOOLEAN
    BY <1>3, OverridesAreSets DEF OnPresence, Reassert, Busy, CommandsTypeOK
  <2>2. news' \in Seq({"app", "boot", "gone"})
    BY <1>3 DEF OnPresence, CommandsTypeOK
  <2> QED
    BY <1>3, <2>1, <2>2 DEF OnPresence, CommandsTypeOK, field
<1>4. ASSUME SendOverride PROVE CommandsTypeOK'
  <2>1. Head(resend) \in Sets /\ resend' \in Seq(Sets)
    BY <1>4 DEF SendOverride, CommandsTypeOK
  <2>2. downlink' \in Seq(Sets)
    BY <1>4, <2>1, SentIsDownlink DEF SendOverride
  <2> QED
    BY <1>4, <2>1, <2>2 DEF SendOverride, CommandsTypeOK, field
<1>5. ASSUME OnConnect PROVE CommandsTypeOK'
  <2>1. resend' \in Seq(Sets) /\ unsure' \in BOOLEAN
    BY <1>5, OverridesAreSets DEF OnConnect, Reassert, Busy
  <2> QED
    BY <1>5, <2>1 DEF OnConnect, CommandsTypeOK, field
<1>6. ASSUME OnDisconnect PROVE CommandsTypeOK'
  BY <1>6 DEF OnDisconnect, CommandsTypeOK, server, field
<1> QED
  BY <1>1, <1>2, <1>3, <1>4, <1>5, <1>6

(* A command that is stored and mirrored.                                  *)
LEMMA HoldTypes ==
    ASSUME CommandsTypeOK, NEW r \in Requests, Hold(r) PROVE CommandsTypeOK'
<1> DEFINE set == request[r].set
<1>1. set \in Sets /\ set.ep \in DamperEndpoints
  BY SetByEndpoint DEF CommandsTypeOK, Hold
<1>2. held' = [held EXCEPT ![set.ep] = set.value]
      /\ request' = [request EXCEPT ![r] = [request[r] EXCEPT !.at = "mirror"]]
  BY DEF Hold, CommandsTypeOK
<1>3. request'[r] = [request[r] EXCEPT !.at = "mirror"]
      /\ \A q \in Requests : q # r => request'[q] = request[q]
  BY <1>2 DEF CommandsTypeOK
<1>4. request[r] \in [at : {"idle", "hold", "mirror"}, set : Sets \cup {None}]
  BY DEF CommandsTypeOK
<1>5. request'[r].at = "mirror" /\ request'[r].set = set
  BY <1>3, <1>4
<1>6. request' \in [Requests -> [at : {"idle", "hold", "mirror"},
                                set : Sets \cup {None}]]
  BY <1>2, <1>4 DEF CommandsTypeOK
<1>7. \A q \in Requests : request'[q].at # "idle" =>
          request'[q].set \in Sets /\ heldByServer(request'[q].set.ep)
  BY <1>1, <1>3, <1>5, SetByEndpoint DEF CommandsTypeOK
<1>8. /\ set.ep = "DamperTarget" => set.value \in Targets
      /\ set.ep = "DamperMode" => set.value \in Modes
  BY <1>1, SetByEndpoint
<1> HIDE DEF set
<1>9. /\ held' \in [DamperEndpoints -> Targets \cup Modes \cup {None}]
      /\ held'["DamperTarget"] \in Targets \cup {None}
      /\ held'["DamperMode"] \in Modes \cup {None}
  BY <1>1, <1>2, <1>8 DEF CommandsTypeOK, DamperEndpoints
<1> QED
  BY <1>6, <1>7, <1>9 DEF Hold, CommandsTypeOK, links, field

LEMMA MirrorTypes ==
    ASSUME CommandsTypeOK, NEW r \in Requests, Mirror(r) PROVE CommandsTypeOK'
<1> DEFINE set == request[r].set
<1>1. held' = Consistent(set) /\ request' = [request EXCEPT ![r] = Idle]
  BY DEF Mirror
<1> HIDE DEF set
<1>2. /\ held' \in [DamperEndpoints -> Targets \cup Modes \cup {None}]
      /\ held'["DamperTarget"] \in Targets \cup {None}
      /\ held'["DamperMode"] \in Modes \cup {None}
  BY <1>1 DEF CommandsTypeOK, Consistent, Modes, DamperEndpoints
<1>3. request' \in [Requests -> [at : {"idle", "hold", "mirror"},
                                set : Sets \cup {None}]]
  BY <1>1 DEF CommandsTypeOK, Idle
<1>4. \A q \in Requests : request'[q].at # "idle" =>
          request'[q].set \in Sets /\ heldByServer(request'[q].set.ep)
  BY <1>1 DEF CommandsTypeOK, Idle
<1> QED
  BY <1>2, <1>3, <1>4 DEF Mirror, CommandsTypeOK, links, field

(* The links, the MainController and the node.                             *)
LEMMA FieldTypes ==
    ASSUME CommandsTypeOK,
           LinkDies \/ Misses \/ Announces \/ HandleDamper \/ HandleSetting
             \/ Saves \/ Restarts \/ EntersBootloader \/ ComesUp
    PROVE  CommandsTypeOK'
<1>1. ASSUME LinkDies PROVE CommandsTypeOK'
  <2>1. news' \in Seq({"app", "boot", "gone"}) /\ downlink' \in Seq(Sets)
    <3>1. news' = news \/ news' = <<>>
      BY <1>1 DEF LinkDies
    <3>2. downlink' = <<>>
      BY <1>1 DEF LinkDies
    <3>3. news \in Seq({"app", "boot", "gone"})
      BY DEF CommandsTypeOK
    <3>4. news' \in Seq({"app", "boot", "gone"})
      BY <3>1, <3>3, EmptySeq
    <3> QED
      BY <3>2, <3>4, EmptySeq
  <2>2. happened' \in Nat
    BY <1>1 DEF LinkDies, CommandsTypeOK, Happens
  <2> QED
    BY <1>1, <2>1, <2>2 DEF LinkDies, CommandsTypeOK, server, field
<1>2. ASSUME NEW p \in {"app", "boot", "gone"}, Learns(p)
      PROVE  known' \in {"app", "boot", "gone"}
             /\ news' \in Seq({"app", "boot", "gone"})
  <2>1. news \in Seq({"app", "boot", "gone"})
    BY DEF CommandsTypeOK
  <2>2. news' = news \/ news' = Append(news, p)
    BY <1>2 DEF Learns
  <2> QED
    BY <1>2, <2>1, <2>2 DEF Learns
<1>3. ASSUME Misses PROVE CommandsTypeOK'
  BY <1>2, <1>3 DEF Misses, CommandsTypeOK, server
<1>4. ASSUME Announces PROVE CommandsTypeOK'
  <2>1. node.runs \in {"app", "boot", "gone"} /\ Learns(node.runs)
    BY <1>4 DEF Announces, CommandsTypeOK
  <2> QED
    BY <1>2, <1>4, <2>1 DEF Announces, CommandsTypeOK, server
<1>5. ASSUME HandleDamper PROVE CommandsTypeOK'
  <2> DEFINE set == Head(downlink)
  <2>1. set \in Sets /\ downlink' \in Seq(Sets)
    BY <1>5 DEF HandleDamper, CommandsTypeOK
  <2>2. /\ set.ep = "DamperTarget" => set.value \in Targets
        /\ set.ep = "DamperMode" => set.value \in Modes
        /\ heldByServer(set.ep) <=> set.ep \in DamperEndpoints
    BY <2>1, SetByEndpoint
  <2>3. \/ node' = node
        \/ set.ep = "DamperTarget" /\ node' = SetTarget(set.value)
        \/ set.ep = "DamperMode" /\ node' = SetMode(set.value)
    BY <1>5, <2>2 DEF HandleDamper, DamperEndpoints
  <2> HIDE DEF set
  <2>4. node' \in [runs : {"app", "boot", "down"}, mode : Modes,
                   target : Targets \cup {None}]
    BY <2>2, <2>3 DEF SetTarget, SetMode, CommandsTypeOK, Modes
  <2> QED
    BY <1>5, <2>1, <2>4 DEF HandleDamper, CommandsTypeOK, server
<1>6. ASSUME HandleSetting PROVE CommandsTypeOK'
  BY <1>6 DEF HandleSetting, CommandsTypeOK, server, field
<1>7. ASSUME Saves PROVE CommandsTypeOK'
  BY <1>7 DEF Saves, CommandsTypeOK, server, links, field
<1>8. ASSUME Restarts PROVE CommandsTypeOK'
  <2>1. node' \in [runs : {"app", "boot", "down"}, mode : Modes,
                   target : Targets \cup {None}]
    BY <1>8 DEF Restarts, CommandsTypeOK
  <2> QED
    BY <1>8, <2>1 DEF Restarts, CommandsTypeOK, Happens, server, links
<1>9. ASSUME EntersBootloader PROVE CommandsTypeOK'
  <2>1. node' \in [runs : {"app", "boot", "down"}, mode : Modes,
                   target : Targets \cup {None}]
    BY <1>9 DEF EntersBootloader, CommandsTypeOK
  <2>2. Learns("boot")
    BY <1>9 DEF EntersBootloader
  <2> QED
    BY <1>2, <1>9, <2>1, <2>2 DEF EntersBootloader, CommandsTypeOK, Happens, server
<1>10. ASSUME ComesUp PROVE CommandsTypeOK'
  BY <1>10 DEF ComesUp, Fresh, CommandsTypeOK, Modes, server, links
<1> QED
  BY <1>1, <1>3, <1>4, <1>5, <1>6, <1>7, <1>8, <1>9, <1>10

LEMMA TypeStep == CommandsTypeOK /\ [CommandsNext]_allVars => CommandsTypeOK'
<1> SUFFICES ASSUME CommandsTypeOK, [CommandsNext]_allVars
             PROVE  CommandsTypeOK'
  OBVIOUS
<1>1. CASE \E r \in Requests : Hold(r) \/ Mirror(r)
  BY <1>1, HoldTypes, MirrorTypes
<1>2. CASE UNCHANGED allVars
  BY <1>2 DEF allVars, server, links, field, CommandsTypeOK
<1> QED
  BY <1>1, <1>2, ServerTypes, FieldTypes DEF CommandsNext, Requested

(* Every variable keeps its type, for any operators and any settings.      *)
THEOREM CommandsTypeCorrect == CommandsSpec => []CommandsTypeOK
BY TypeInit, TypeStep, PTL DEF CommandsSpec

-----------------------------------------------------------------------------
(* The settings page among the rest of the system.                         *)

(* A step of the system is a step of the page or leaves it alone.          *)
LEMMA StepInside == CommandsTypeOK /\ [CommandsNext]_allVars => [Next]_vars
<1> SUFFICES ASSUME CommandsTypeOK, [CommandsNext]_allVars PROVE [Next]_vars
  OBVIOUS
<1>1. CASE Restarts
  BY <1>1 DEF Restarts, Next
<1>2. CASE HandleSetting
  <2> DEFINE set == Head(downlink)
  <2>1. set \in Sets /\ set.ep \in Fields
    BY <1>2 DEF HandleSetting, CommandsTypeOK
  <2>2. set.value \in Values
    BY <2>1, SetByEndpoint
  <2>3. SetUnchanged(set.ep, set.value) \/ BeginSave(set.ep, set.value)
    BY <1>2 DEF HandleSetting
  <2> QED
    BY <2>1, <2>2, <2>3 DEF Next
<1>3. CASE Saves
  BY <1>3 DEF Saves, Next
<1>4. CASE ~Restarts /\ ~HandleSetting /\ ~Saves
  BY <1>4 DEF CommandsNext, Requested, SendCommand, DeleteOverride, Hold, Mirror,
              OnPresence, SendOverride, OnConnect, LinkDies, OnDisconnect,
              Misses, Announces, HandleDamper, EntersBootloader, ComesUp, allVars
<1> QED
  BY <1>1, <1>2, <1>3, <1>4

(* The system implements Settings: whatever comes over the bus, the page   *)
(* and its copy in RAM take no step that Settings does not know.           *)
THEOREM SettingsInside == CommandsSpec => Spec
<1>1. CommandsInit => Init
  BY DEF CommandsInit
<1> QED
  BY <1>1, StepInside, CommandsTypeCorrect, PTL DEF CommandsSpec, Spec

(* So what is proved of the page alone (PageMatchesRam, ReportIsStored and *)
(* SettingsSurviveReset) holds of it here.                                 *)
THEOREM SettingsHoldInside ==
    CommandsSpec => []PageMatchesRam /\ []ReportIsStored /\ SettingsSurviveReset
BY SettingsInside, PageIsWhatRuns, ReportsAreStored, ResetLosesNothing, PTL

-----------------------------------------------------------------------------
(* The overrides.                                                          *)

(* A step of SendCommand() that is still to come puts a contradiction      *)
(* right.                                                                  *)
WillResolve(r) ==
    /\ request[r].at = "mirror"
    /\ request[r].set.ep = "DamperMode" => request[r].set.value # "Manual"

(* HeldNeverContradicts says nothing while a command is half way.  Then a  *)
(* contradiction stands only as long as the command that made it.          *)
Resolved ==
    held["DamperTarget"] # None /\ held["DamperMode"] \notin {None, "Manual"}
        => \E r \in Requests : WillResolve(r)

LEMMA ResolvedInit == CommandsInit => Resolved
BY DEF CommandsInit, Resolved, DamperEndpoints

(* It is stored ...                                                        *)
LEMMA HoldKeeps ==
    ASSUME CommandsTypeOK, Resolved, NEW r \in Requests, Hold(r) PROVE Resolved'
<1> DEFINE set == request[r].set
<1>1. set \in Sets /\ set.ep \in DamperEndpoints
  BY SetByEndpoint DEF CommandsTypeOK, Hold
<1>2. held' = [held EXCEPT ![set.ep] = set.value]
  BY DEF Hold
<1>3. request'[r] = [request[r] EXCEPT !.at = "mirror"]
      /\ \A q \in Requests : q # r => request'[q] = request[q]
  BY DEF Hold, CommandsTypeOK
<1>4. request[r] \in [at : {"idle", "hold", "mirror"}, set : Sets \cup {None}]
  BY DEF CommandsTypeOK
<1>5. request'[r].at = "mirror" /\ request'[r].set = set
  BY <1>3, <1>4
<1>6. CASE set.ep = "DamperMode" => set.value # "Manual"
  BY <1>5, <1>6 DEF WillResolve, Resolved
<1>7. CASE set.ep = "DamperMode" /\ set.value = "Manual"
  <2> HIDE DEF set
  <2> QED
    BY <1>2, <1>7 DEF Resolved, CommandsTypeOK, DamperEndpoints
<1> QED
  BY <1>6, <1>7

(* ... and then mirrored.                                                  *)
LEMMA MirrorKeeps ==
    ASSUME CommandsTypeOK, Resolved, NEW r \in Requests, Mirror(r) PROVE Resolved'
<1> DEFINE set == request[r].set
<1>1. set.ep \in DamperEndpoints
  BY SetByEndpoint DEF CommandsTypeOK, Mirror
<1>2. held' = Consistent(set) /\ request' = [request EXCEPT ![r] = Idle]
  BY DEF Mirror
<1>3. CASE set.ep = "DamperMode" /\ set.value = "Manual"
  <2>1. held' = held
    BY <1>2, <1>3 DEF Consistent
  <2>2. \A q \in Requests : WillResolve(q) => q # r
    BY <1>3 DEF WillResolve
  <2>3. \A q \in Requests : q # r => request'[q] = request[q]
    BY <1>2 DEF CommandsTypeOK
  <2> QED
    BY <2>1, <2>2, <2>3 DEF Resolved, WillResolve
<1>4. CASE ~(set.ep = "DamperMode" /\ set.value = "Manual")
  <2> HIDE DEF set
  <2> QED
    BY <1>1, <1>2, <1>4 DEF Consistent, Resolved, CommandsTypeOK, DamperEndpoints
<1> QED
  BY <1>3, <1>4

(* A command that is sent disturbs no other, nor does one that is deleted. *)
LEMMA SendKeeps ==
    ASSUME CommandsTypeOK, Resolved, NEW r \in Requests, NEW set \in Sets,
           SendCommand(r, set)
    PROVE  Resolved'
<1>1. held' = held /\ request[r].at = "idle"
  BY DEF SendCommand
<1>2. \A q \in Requests : q # r => request'[q] = request[q]
  BY DEF SendCommand, CommandsTypeOK
<1> QED
  BY <1>1, <1>2 DEF Resolved, WillResolve

LEMMA DeleteKeeps ==
    ASSUME CommandsTypeOK, Resolved, NEW ep \in DamperEndpoints, DeleteOverride(ep)
    PROVE  Resolved'
BY DEF DeleteOverride, Resolved, WillResolve, CommandsTypeOK, DamperEndpoints

LEMMA ResolvedStep ==
    CommandsTypeOK /\ Resolved /\ [CommandsNext]_allVars => Resolved'
<1> SUFFICES ASSUME CommandsTypeOK, Resolved, [CommandsNext]_allVars
             PROVE  Resolved'
  OBVIOUS
<1>1. CASE Requested
  BY <1>1, SendKeeps, DeleteKeeps DEF Requested
<1>2. CASE \E r \in Requests : Hold(r) \/ Mirror(r)
  BY <1>2, HoldKeeps, MirrorKeeps
<1>3. CASE UNCHANGED <<held, request>>
  BY <1>3 DEF Resolved, WillResolve
<1>4. Requested \/ (\E r \in Requests : Hold(r) \/ Mirror(r))
          \/ UNCHANGED <<held, request>>
  BY DEF CommandsNext, OnPresence, SendOverride, OnConnect, LinkDies, OnDisconnect,
         Misses, Announces, HandleDamper, HandleSetting, Saves, Restarts,
         EntersBootloader, ComesUp, server, allVars
<1> QED
  BY <1>1, <1>2, <1>3, <1>4

(* Between commands a held target stands beside Manual or no mode, in      *)
(* whatever order any number of requests reached the store.                *)
THEOREM HeldIsConsistent == CommandsSpec => []HeldNeverContradicts
<1>1. Resolved => HeldNeverContradicts
  BY DEF Resolved, HeldNeverContradicts, Busy, WillResolve
<1> QED
  BY <1>1, ResolvedInit, ResolvedStep, CommandsTypeCorrect, PTL DEF CommandsSpec
=============================================================================
