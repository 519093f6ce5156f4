------------------------------ MODULE Commands ------------------------------
(***************************************************************************)
(* What an operator sets on a ControllerNode and how it outlives a         *)
(* restart.  The server holds the damper's mode and target as overrides    *)
(* and sends them again when the node or the uplink comes back             *)
(* (Webserver/internal/service/service.go); the node keeps its settings in *)
(* flash itself (Settings, here with the DumpRoom flag).                   *)
(*                                                                         *)
(* Every HTTP request runs in a goroutine of its own, beside the one that  *)
(* reads the uplink: SendCommand() is cut at each of its calls that other  *)
(* goroutines can come between.  The uplink and the bus are reduced to     *)
(* what becomes of a frame and of the news about the node; connections     *)
(* that overlap are in Uplink, full queues there and in NodeBus.           *)
(***************************************************************************)
EXTENDS Settings, Sequences

CONSTANTS
    Targets,       \* the positions an operator may ask for
    Requests,      \* requests being served at a time; a bound
    MaxHappenings, \* commands, restarts and broken links in a behaviour; a bound
    None

Modes == {"Auto", "Open", "Manual"}   \* Closed is another Open
DamperEndpoints == {"DamperTarget", "DamperMode"}

ASSUME CommandConstants ==
    /\ None \notin Targets \cup Modes
    /\ Fields \cap DamperEndpoints = {}
    /\ MaxHappenings \in Nat

VARIABLES
    held,      \* config_overrides: the rows of the node
    request,   \* the SendCommand() calls under way
    resend,    \* what reassertOverrides() read and has yet to send
    session,   \* "up", "dead" (nobody has noticed yet) or "down"
    downlink,  \* Sets on their way to the node
    news,      \* NodePresence frames on their way to the server
    known,     \* what the master knows of the node
    node,      \* the program that runs, and the damper's mode and target
    unsure,    \* history: what was held may not have reached the node, for a
               \*          reason nobody looks for
    happened   \* how much has happened

server   == <<held, request, resend>>
field    == <<known, node>>
links    == <<session, downlink, news>>
allVars  == <<vars, server, links, field, unsure, happened>>

Happens == happened < MaxHappenings /\ happened' = happened + 1

Fresh == [runs |-> "app", mode |-> "Auto", target |-> None]

(* A Set; DumpRoom is the one setting of this node.                        *)
Sets == [ep : {"DamperTarget"}, value : Targets]
            \cup [ep : {"DamperMode"}, value : Modes]
            \cup [ep : Fields, value : Values]

Idle == [at |-> "idle", set |-> None]

CommandsInit ==
    /\ Init
    /\ held = [ep \in DamperEndpoints |-> None]
    /\ request = [r \in Requests |-> Idle]
    /\ resend = <<>>
    /\ session = "up"
    /\ downlink = <<>> /\ news = <<>>
    /\ known = "app"
    /\ node = Fresh
    /\ unsure = FALSE
    /\ happened = 0

-----------------------------------------------------------------------------
(* SendCommand(), and what it does after the Set is on its way.            *)

heldByServer(ep) == ep \in DamperEndpoints

Busy == \E r \in Requests : request[r].at # "idle"

(* A downlink nobody knows to be dead takes the frame and loses it.        *)
Sent(set) == IF session = "up" THEN Append(downlink, set) ELSE downlink

(* Refused with an error while no uplink is there.                         *)
SendCommand(r, set) ==
    /\ Happens
    /\ request[r].at = "idle" /\ session # "down"
    /\ downlink' = Sent(set)
    /\ request' = IF heldByServer(set.ep)
                  THEN [request EXCEPT ![r] = [at |-> "hold", set |-> set]]
                  ELSE request
    /\ unsure' = (unsure \/ (heldByServer(set.ep) /\ (Busy \/ resend # <<>>)))
    /\ UNCHANGED <<vars, held, resend, session, news, field>>

Hold(r) ==
    /\ request[r].at = "hold"
    /\ held' = [held EXCEPT ![request[r].set.ep] = request[r].set.value]
    /\ request' = [request EXCEPT ![r].at = "mirror"]
    /\ UNCHANGED <<vars, resend, links, field, unsure, happened>>

(* Bug: a target stays held beside Open.                                   *)
ConsistentWithAuto(set) ==
    IF set.ep = "DamperTarget" THEN [held EXCEPT !["DamperMode"] = "Manual"]
    ELSE IF set.value = "Auto" THEN [held EXCEPT !["DamperTarget"] = None]
    ELSE held

(* keepDamperOverridesConsistent().                                        *)
Consistent(set) ==
    IF set.ep = "DamperTarget" THEN [held EXCEPT !["DamperMode"] = "Manual"]
    ELSE IF set.value # "Manual" THEN [held EXCEPT !["DamperTarget"] = None]
    ELSE held

Mirror(r) ==
    /\ request[r].at = "mirror"
    /\ held' = Consistent(request[r].set)
    /\ request' = [request EXCEPT ![r] = Idle]
    /\ UNCHANGED <<vars, resend, links, field, unsure, happened>>

(* handleDeleteOverride(): the node is told nothing.                       *)
DeleteOverride(ep) ==
    /\ Happens
    /\ held[ep] # None
    /\ held' = [held EXCEPT ![ep] = None]
    /\ UNCHANGED <<vars, request, resend, links, field, unsure>>

-----------------------------------------------------------------------------
(* The goroutine that reads the uplink.                                    *)

(* The rows that are held, ordered by endpoint.                            *)
Overrides ==
    LET Row(ep) == IF held[ep] = None THEN <<>>
                   ELSE <<[ep |-> ep, value |-> held[ep]]>>
    IN  Row("DamperTarget") \o Row("DamperMode")

(* Read while no command is half way, they make up for everything before.  *)
Reassert ==
    /\ resend' = Overrides
    /\ unsure' = Busy

(* OnPresence(): in either program a node is up.                           *)
Rejoined(presence) == presence # "gone"

OnPresence ==
    /\ resend = <<>> /\ news # <<>>
    /\ news' = Tail(news)
    /\ IF Rejoined(Head(news)) THEN Reassert ELSE UNCHANGED <<resend, unsure>>
    /\ UNCHANGED <<vars, held, request, session, downlink, field, happened>>

SendOverride ==
    /\ resend # <<>>
    /\ resend' = Tail(resend)
    /\ downlink' = Sent(Head(resend))
    /\ UNCHANGED <<vars, held, request, session, news, field, unsure, happened>>

(* Bug: only a node that rejoins gets its overrides.                       *)
OnConnectQuiet ==
    /\ session # "up" /\ resend = <<>> /\ news = <<>>
    /\ session' = "up"
    /\ UNCHANGED <<vars, held, request, resend, downlink, news, field, unsure,
                   happened>>

(* OnConnect(), after the last connection has been dealt with.             *)
OnConnect ==
    /\ session # "up" /\ resend = <<>> /\ news = <<>>
    /\ session' = "up"
    /\ Reassert
    /\ UNCHANGED <<vars, held, request, downlink, news, field, happened>>

LinkDies ==
    /\ Happens
    /\ session = "up"
    /\ session' = "dead"
    /\ downlink' = <<>>
    /\ news' \in {news, <<>>}
    /\ UNCHANGED <<vars, server, field, unsure>>

OnDisconnect ==
    /\ session = "dead" /\ resend = <<>> /\ news = <<>>
    /\ session' = "down"
    /\ UNCHANGED <<vars, server, downlink, news, field, unsure, happened>>

-----------------------------------------------------------------------------
(* The MainController: presence is checked in every pass of its loop.      *)

Learns(presence) ==
    /\ known' = presence
    /\ news' = IF session = "up" THEN Append(news, presence) ELSE news

Misses ==
    /\ known # "gone" /\ node.runs = "down"
    /\ Learns("gone")
    /\ UNCHANGED <<vars, server, session, downlink, node, unsure, happened>>

(* It answers a Discover.                                                  *)
Announces ==
    /\ node.runs # "down" /\ known # node.runs
    /\ Learns(node.runs)
    /\ UNCHANGED <<vars, server, session, downlink, node, unsure, happened>>

-----------------------------------------------------------------------------
(* The node.                                                               *)

SetTarget(p) == [node EXCEPT !.mode = "Manual", !.target = p]

SetMode(m) ==
    [node EXCEPT !.mode = m, !.target = IF m = "Manual" THEN @ ELSE None]

(* HandleDamper(); in the bootloader or while it restarts a Set is lost.   *)
HandleDamper ==
    LET set == Head(downlink)
    IN  /\ downlink # <<>> /\ phase = "Idle"
        /\ heldByServer(set.ep) \/ node.runs # "app"
        /\ downlink' = Tail(downlink)
        /\ node' = IF node.runs # "app" THEN node
                   ELSE IF set.ep = "DamperTarget" THEN SetTarget(set.value)
                   ELSE SetMode(set.value)
        /\ UNCHANGED <<vars, server, session, news, known, unsure, happened>>

(* SetDumpRoom().                                                          *)
HandleSetting ==
    LET set == Head(downlink)
    IN  /\ downlink # <<>> /\ node.runs = "app"
        /\ set.ep \in Fields
        /\ SetUnchanged(set.ep, set.value) \/ BeginSave(set.ep, set.value)
        /\ downlink' = Tail(downlink)
        /\ UNCHANGED <<server, session, news, field, unsure, happened>>

Saves ==
    /\ EraseDone \/ EraseFails \/ ProgramDone \/ ProgramFails
    /\ UNCHANGED <<server, links, field, unsure, happened>>

(* A power cut, a commanded reset or a watchdog.                           *)
Restarts ==
    /\ Happens
    /\ node.runs # "down"
    /\ node' = [node EXCEPT !.runs = "down"]
    /\ Reset
    /\ UNCHANGED <<server, links, known, unsure>>

(* Into its bootloader for an update.                                      *)
EntersBootloader ==
    /\ Happens
    /\ node.runs = "app" /\ phase = "Idle"
    /\ node' = [node EXCEPT !.runs = "boot"]
    /\ Learns("boot")
    /\ UNCHANGED <<vars, server, session, downlink, unsure>>

(* With no poll missed nobody learns that it was away.                     *)
ComesUp ==
    /\ node.runs = "down"
    /\ node' = Fresh
    /\ unsure' = (unsure \/ known = "app")
    /\ UNCHANGED <<vars, server, links, known, happened>>

-----------------------------------------------------------------------------

Requested ==
    \/ \E r \in Requests, set \in Sets : SendCommand(r, set)
    \/ \E ep \in DamperEndpoints : DeleteOverride(ep)

CommandsNext ==
    \/ Requested
    \/ \E r \in Requests : Hold(r) \/ Mirror(r)
    \/ OnPresence \/ SendOverride \/ OnConnect \/ LinkDies \/ OnDisconnect
    \/ Misses \/ Announces
    \/ HandleDamper \/ HandleSetting \/ Saves
    \/ Restarts \/ EntersBootloader \/ ComesUp

(* The server's goroutines run, the MainController reconnects and keeps    *)
(* discovering, and the node comes up again and gets its frames.           *)
Fairness ==
    /\ \A r \in Requests : WF_allVars(Hold(r) \/ Mirror(r))
    /\ WF_allVars(OnPresence) /\ WF_allVars(SendOverride) /\ WF_allVars(OnConnect)
    /\ WF_allVars(Announces) /\ WF_allVars(HandleDamper)
    /\ WF_allVars(HandleSetting) /\ WF_allVars(Saves) /\ WF_allVars(ComesUp)

CommandsSpec == CommandsInit /\ [][CommandsNext]_allVars /\ Fairness

-----------------------------------------------------------------------------
(* Properties.                                                             *)

CommandsTypeOK ==
    /\ held \in [DamperEndpoints -> Targets \cup Modes \cup {None}]
    /\ held["DamperTarget"] \in Targets \cup {None}
    /\ held["DamperMode"] \in Modes \cup {None}
    /\ request \in [Requests -> [at : {"idle", "hold", "mirror"},
                                set : Sets \cup {None}]]
    /\ \A r \in Requests : request[r].at # "idle" =>
           request[r].set \in Sets /\ heldByServer(request[r].set.ep)
    /\ resend \in Seq(Sets) /\ downlink \in Seq(Sets)
    /\ session \in {"up", "dead", "down"}
    /\ news \in Seq({"app", "boot", "gone"}) /\ known \in {"app", "boot", "gone"}
    /\ node \in [runs : {"app", "boot", "down"}, mode : Modes,
                 target : Targets \cup {None}]
    /\ unsure \in BOOLEAN
    /\ happened \in Nat

Follows ==
    /\ held["DamperMode"] \in {None, node.mode}
    /\ held["DamperTarget"] \in {None, node.target}

(* The damper ends up as it was told, whatever restarted, was updated or   *)
(* lost its link in between (OnConnect, OnPresence, reassertOverrides).    *)
(* Two cases nobody looks after are excused: a command that overlaps with  *)
(* another or with a re-assert, and a restart of the node that misses no   *)
(* poll -- each until the next time the node rejoins.                      *)
NodeFollowsHeld == <>[](unsure \/ node.runs = "boot" \/ Follows)

(* Between commands a held target stands beside a held Manual or no mode,  *)
(* however the commands of several operators were interleaved, or sending  *)
(* both again would contradict itself (keepDamperOverridesConsistent).     *)
HeldNeverContradicts ==
    ~Busy /\ held["DamperTarget"] # None =>
        held["DamperMode"] \in {None, "Manual"}

=============================================================================
