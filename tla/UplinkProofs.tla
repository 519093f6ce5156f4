---------------------------- MODULE UplinkProofs ----------------------------
(***************************************************************************)
(* What holds of the uplink for any number of connections, nodes and       *)
(* happenings and every queue that holds a roster.                         *)
(*                                                                         *)
(* Connections overlap: one that ends late never shows the uplink down     *)
(* while another is served (IInv, StaysShown).                             *)
(*                                                                         *)
(* What is on its way, the frames read, on the wire and in the queue in a  *)
(* row, leads the server from what it knows of the nodes and of the        *)
(* Thermostat to what the module's side said last (TInv).  When none is    *)
(* left, it knows (KnowsWhoIsThere, StatusArrives).                        *)
(***************************************************************************)
EXTENDS Uplink, SequenceTheorems, FunctionTheorems, FiniteSetTheorems, TLAPS

-----------------------------------------------------------------------------
(* The invariant.                                                          *)

Phases == {"free", "greeting", "greeted", "joined", "serving", "leaving"}

NinaStates == {"Booting", "ProbingAt", "CheckingBluetooth", "DisablingBluetooth",
    "StoringSettings", "RestartingModule", "ConfiguringSsid", "ConfiguringAuth",
    "ConfiguringPsk", "ActivatingWifi", "WaitingNetworkUp", "NetworkUpSettle",
    "ConnectingPeer", "WaitingPeerConnected", "EnteringDataMode",
    "DataModeSettle", "DataMode", "Backoff"}

(* The states in which the module is in a connection.                      *)
Linked == {"WaitingPeerConnected", "EnteringDataMode", "DataModeSettle", "DataMode"}

NinaOK ==
    /\ DOMAIN nina = {"state", "attempts", "events"}
    /\ nina.state \in NinaStates

PeerOK ==
    /\ peer \in 0..Slots
    /\ nina.state \in Linked => peer # 0

ConnsOK ==
    /\ DOMAIN conns = 1..Slots
    /\ \A c \in 1..Slots : "phase" \in DOMAIN conns[c]
    /\ \A c \in 1..Slots : conns[c].phase \in Phases

(* The server's active connection has been greeted and has not ended.      *)
ActiveOK ==
    /\ active \in 0..Slots
    /\ active # 0 => conns[active].phase \in {"joined", "serving"}

(* Nothing is left that could still show a served uplink down: only the    *)
(* active connection can come to leave.                                    *)
NobodyLeaves ==
    active # 0 /\ clean /\ conns[active].phase = "serving" =>
        shown /\ \A c \in 1..Slots : conns[c].phase # "leaving"

ServerOK == ConnsOK /\ ActiveOK /\ NobodyLeaves
IInv == NinaOK /\ PeerOK /\ ServerOK

-----------------------------------------------------------------------------
(* Records.                                                                *)

(* A connection whose frames or ends change stays in its phase.            *)
LEMMA PhaseStays ==
    ASSUME NEW r, "phase" \in DOMAIN r, NEW w, NEW x, NEW y
    PROVE  /\ "phase" \in DOMAIN [r EXCEPT !.wire = w]
           /\ [r EXCEPT !.wire = w].phase = r.phase
           /\ "phase" \in DOMAIN [r EXCEPT !.open = w]
           /\ [r EXCEPT !.open = w].phase = r.phase
           /\ "phase" \in DOMAIN [r EXCEPT !.back = w]
           /\ [r EXCEPT !.back = w].phase = r.phase
           /\ "phase" \in DOMAIN [r EXCEPT !.chunk = w]
           /\ [r EXCEPT !.chunk = w].phase = r.phase
OBVIOUS

(* A connection that changes phase.                                        *)
LEMMA PhaseSet ==
    ASSUME NEW r, "phase" \in DOMAIN r, NEW p
    PROVE  /\ "phase" \in DOMAIN [r EXCEPT !.phase = p]
           /\ [r EXCEPT !.phase = p].phase = p
OBVIOUS
-----------------------------------------------------------------------------
(* The module's side.                                                      *)

(* The link in another state, with other attempts or events.               *)
LEMMA ToState ==
    ASSUME NinaOK, NEW s, NEW e, NEW a
    PROVE  /\ DOMAIN To(s) = DOMAIN nina /\ To(s).state = s
           /\ DOMAIN [To(s) EXCEPT !.events = e] = DOMAIN nina
           /\ [To(s) EXCEPT !.events = e].state = s
           /\ DOMAIN [nina EXCEPT !.events = e] = DOMAIN nina
           /\ [nina EXCEPT !.events = e].state = nina.state
           /\ DOMAIN [nina EXCEPT !.attempts = a] = DOMAIN nina
           /\ [nina EXCEPT !.attempts = a].state = nina.state
BY DEF To, NinaOK

(* Fail(): the link backs off.                                             *)
LEMMA FailState ==
    ASSUME Fail PROVE NinaOK' /\ nina'.state = "Backoff"
BY DEF Fail, NinaOK, NinaStates

(* A refused command is tried again or skipped, or the bring-up fails.     *)
LEMMA RefusedState ==
    ASSUME NinaOK, Refused
    PROVE  /\ NinaOK'
           /\ nina'.state \in {nina.state, "ConfiguringSsid", "Backoff"}
<1>1. ASSUME NEW most, Retry(most)
      PROVE  NinaOK' /\ nina'.state \in {nina.state, "Backoff"}
  <2>1. CASE Fail
    BY <2>1, FailState
  <2>2. CASE nina' = [nina EXCEPT !.attempts = @ + 1]
    BY <2>2, ToState DEF NinaOK
  <2> QED
    BY <1>1, <2>1, <2>2 DEF Retry
<1>2. CASE nina' = To("ConfiguringSsid")
  BY <1>2, ToState DEF NinaOK, NinaStates
<1>3. nina' = To("ConfiguringSsid") \/ \E most : Retry(most)
  BY DEF Refused
<1> QED
  BY <1>1, <1>2, <1>3

(* An accepted one leads on; into a connection only from within it.        *)
LEMMA AcceptedState ==
    ASSUME NinaOK, Accepted, nina.state \in Commands, nina.state # "ConnectingPeer"
    PROVE  /\ NinaOK'
           /\ nina'.state \in Linked => nina.state \in Linked
<1>1. nina.state \in {"ProbingAt", "CheckingBluetooth", "DisablingBluetooth",
         "StoringSettings", "RestartingModule", "ConfiguringSsid",
         "ConfiguringAuth", "ConfiguringPsk", "ActivatingWifi", "EnteringDataMode"}
  BY DEF Commands, Follows
<1>2. CASE nina.state = "ProbingAt"
  <2>1. nina' = To("CheckingBluetooth")
    BY <1>2 DEF Accepted
  <2> QED
    BY <2>1, ToState DEF NinaOK, NinaStates, Linked
<1>3. CASE nina.state = "CheckingBluetooth"
  <2>1. nina' \in {To("DisablingBluetooth"), To("ConfiguringSsid")}
    BY <1>3 DEF Accepted
  <2> QED
    BY <2>1, ToState DEF NinaOK, NinaStates, Linked
<1>4. CASE nina.state = "ConfiguringPsk"
  <2>1. nina' = [To("ActivatingWifi") EXCEPT !.events = Discarded(@)]
    BY <1>4 DEF Accepted
  <2> QED
    BY <2>1, ToState DEF NinaOK, NinaStates, Linked
<1>5. CASE nina.state \notin {"ProbingAt", "CheckingBluetooth", "ConfiguringPsk"}
  <2>1. nina' = To(Follows[nina.state])
    BY <1>5 DEF Accepted
  <2>2. DOMAIN nina' = DOMAIN nina /\ nina'.state = Follows[nina.state]
    BY <2>1, ToState
  <2>3. /\ Follows[nina.state] \in NinaStates
        /\ Follows[nina.state] \in Linked => nina.state = "EnteringDataMode"
    BY <1>1, <1>5 DEF Follows, NinaStates, Linked
  <2> QED
    BY <2>2, <2>3 DEF NinaOK, Linked
<1> QED
  BY <1>2, <1>3, <1>4, <1>5

(* The steps of the bring-up that leave the connections as they are.       *)
LEMMA WaitsState ==
    ASSUME NinaOK, PeerOK, Waits \/ WifiChanges \/ CannotDial \/ StartsSession
    PROVE  NinaOK' /\ PeerOK'
<1>1. peer' = peer
  BY DEF Waits, WifiChanges, CannotDial, StartsSession
<1>2. NinaOK' /\ (nina'.state \in Linked => nina.state \in Linked)
  <2>1. CASE Boots
    BY <2>1, ToState DEF Boots, NinaOK, NinaStates, Linked
  <2>2. CASE NetworkComesUp
    BY <2>2, ToState DEF NetworkComesUp, Drained, NinaOK, NinaStates, Linked
  <2>3. CASE NetworkStaysDown
    BY <2>3, FailState DEF NetworkStaysDown, Linked
  <2>4. CASE NetworkSettles
    BY <2>4, ToState DEF NetworkSettles, Drained, NinaOK, NinaStates, Linked
  <2>5. CASE WifiChanges
    BY <2>5, ToState DEF WifiChanges, Joins, LosesNetwork, NetworkIs, NinaOK
  <2>6. CASE CannotDial
    BY <2>6, RefusedState DEF CannotDial, Linked
  <2>7. CASE StartsSession
    BY <2>7, ToState DEF StartsSession, NinaOK, NinaStates, Linked
  <2> QED
    BY <2>1, <2>2, <2>3, <2>4, <2>5, <2>6, <2>7 DEF Waits
<1> QED
  BY <1>1, <1>2 DEF PeerOK

(* ... and those that hang up or dial.                                     *)
LEMMA CommandState ==
    ASSUME NinaOK, PeerOK, CommandAnswered PROVE NinaOK' /\ PeerOK'
<1>1. NinaOK' /\ (nina'.state \in Linked => nina.state \in Linked)
  BY AcceptedState, RefusedState DEF CommandAnswered, Linked
<1>2. peer' = peer \/ (peer' = 0 /\ nina'.state = "Backoff")
  BY DEF CommandAnswered, HangsUpIfFailed, HangsUp
<1> QED
  BY <1>1, <1>2, UplinkConstants DEF PeerOK, Linked

(* A link that fails is in no connection.                                  *)
LEMMA HangUpState ==
    ASSUME Fail, HangsUp PROVE NinaOK' /\ PeerOK'
BY FailState, UplinkConstants DEF HangsUp, PeerOK, Linked

(* WaitingPeerConnected goes on, or the link fails.                        *)
LEMMA PeerState ==
    ASSUME NinaOK, PeerOK, PeerAnswers PROVE NinaOK' /\ PeerOK'
<1>1. CASE Fail /\ HangsUp
  BY <1>1, HangUpState
<1>2. CASE /\ peer' = peer
           /\ nina' \in {Drained("EnteringDataMode"), [nina EXCEPT !.events = <<>>]}
  <2>1. NinaOK' /\ nina.state \in Linked
    BY <1>2, ToState DEF PeerAnswers, Drained, NinaOK, NinaStates, Linked
  <2> QED
    BY <1>2, <2>1 DEF PeerOK
<1> QED
  BY <1>1, <1>2 DEF PeerAnswers

(* The connection it dials is one of the slots.                            *)
LEMMA DialsState ==
    ASSUME NinaOK, PeerOK, Dials PROVE NinaOK' /\ PeerOK'
<1>1. NinaOK'
  BY ToState DEF Dials, NinaOK, NinaStates
<1>2. peer' \in 1..Slots
  BY DEF Dials
<1> QED
  BY <1>1, <1>2, UplinkConstants DEF PeerOK
-----------------------------------------------------------------------------
(* The server's side.                                                      *)

(* No connection is in another phase than before, and no other is active.  *)
SamePhases ==
    /\ DOMAIN conns' = DOMAIN conns
    /\ \A c \in 1..Slots : "phase" \in DOMAIN conns'[c]
                           /\ conns'[c].phase = conns[c].phase

(* Where no phase changes the server is as it was.                         *)
LEMMA Unmoved ==
    ASSUME ServerOK, SamePhases, UNCHANGED <<active, shown, clean>>
    PROVE  ServerOK'
BY UplinkConstants DEF ServerOK, SamePhases, ConnsOK, ActiveOK, NobodyLeaves

(* Frames that are sent, received or lost and connections that are closed  *)
(* move none.                                                              *)
LEMMA OneMoves ==
    ASSUME ConnsOK, NEW p, NEW r, conns' = [conns EXCEPT ![p] = r],
           p \in 1..Slots => "phase" \in DOMAIN r /\ r.phase = conns[p].phase
    PROVE  SamePhases
BY DEF ConnsOK, SamePhases

(* Frames and ends of connections change no phase.                         *)
LEMMA FrameSteps ==
    ASSUME ConnsOK, \/ Passes \/ KeepaliveAnswered \/ LinkDies \/ HangsUp
                    \/ UNCHANGED conns
                    \/ \E c \in 1..Slots : Reads(c) \/ Dispatches(c)
    PROVE  SamePhases
<1>1. ASSUME Passes PROVE SamePhases
  <2>1. PICK w : conns' = conns
            \/ conns' = [conns EXCEPT ![peer] = [conns[peer] EXCEPT !.wire = w]]
    BY <1>1 DEF Passes
  <2>2. CASE conns' = conns
    BY <2>2 DEF ConnsOK, SamePhases
  <2>3. CASE conns' = [conns EXCEPT ![peer] = [conns[peer] EXCEPT !.wire = w]]
    BY <2>3, OneMoves, PhaseStays DEF ConnsOK
  <2> QED
    BY <2>1, <2>2, <2>3
<1>2. ASSUME KeepaliveAnswered PROVE SamePhases
  <2>1. conns' = [conns EXCEPT ![peer] = [conns[peer] EXCEPT !.back = FALSE]]
    BY <1>2 DEF KeepaliveAnswered
  <2> QED
    BY <2>1, OneMoves, PhaseStays DEF ConnsOK
<1>3. ASSUME LinkDies PROVE SamePhases
  <2>1. PICK w : conns' = [conns EXCEPT ![peer].open = FALSE,
                                       ![peer].back = FALSE, ![peer].wire = w]
    BY <1>3 DEF LinkDies
  <2> DEFINE r1 == [conns[peer] EXCEPT !.open = FALSE]
             r2 == [r1 EXCEPT !.back = FALSE]
             r3 == [r2 EXCEPT !.wire = w]
  <2>2. conns' = [conns EXCEPT ![peer] = r3]
    BY <2>1 DEF ConnsOK
  <2>3. peer \in 1..Slots =>
            "phase" \in DOMAIN conns[peer] /\ conns[peer].phase = conns[peer].phase
    BY DEF ConnsOK
  <2>4. peer \in 1..Slots => "phase" \in DOMAIN r1 /\ r1.phase = conns[peer].phase
    BY <2>3, PhaseStays
  <2> HIDE DEF r1
  <2>5. peer \in 1..Slots => "phase" \in DOMAIN r2 /\ r2.phase = conns[peer].phase
    BY <2>4, PhaseStays
  <2> HIDE DEF r2
  <2>6. peer \in 1..Slots => "phase" \in DOMAIN r3 /\ r3.phase = conns[peer].phase
    BY <2>5, PhaseStays
  <2> HIDE DEF r3
  <2> QED
    BY <2>2, <2>6, OneMoves
<1>4. ASSUME HangsUp PROVE SamePhases
  <2>1. \/ conns' = conns
        \/ conns' = [conns EXCEPT ![peer] = [conns[peer] EXCEPT !.open = FALSE]]
    BY <1>4 DEF HangsUp
  <2>2. CASE conns' = conns
    BY <2>2 DEF ConnsOK, SamePhases
  <2>3. CASE conns' = [conns EXCEPT ![peer] = [conns[peer] EXCEPT !.open = FALSE]]
    BY <2>3, OneMoves, PhaseStays DEF ConnsOK
  <2> QED
    BY <2>1, <2>2, <2>3
<1>5. ASSUME NEW c \in 1..Slots, Reads(c) PROVE SamePhases
  <2> DEFINE r1 == [conns[c] EXCEPT !.chunk = conns[c].wire]
             r2 == [r1 EXCEPT !.wire = <<>>]
  <2>1. conns' = [conns EXCEPT ![c] = r2]
    BY <1>5 DEF Reads, ConnsOK
  <2>2. "phase" \in DOMAIN r1 /\ r1.phase = conns[c].phase
    BY PhaseStays DEF ConnsOK
  <2> HIDE DEF r1
  <2>3. "phase" \in DOMAIN r2 /\ r2.phase = conns[c].phase
    BY <2>2, PhaseStays
  <2> HIDE DEF r2
  <2> QED
    BY <2>1, <2>3, OneMoves
<1>6. ASSUME NEW c \in 1..Slots, Dispatches(c) PROVE SamePhases
  <2>1. PICK w, b : conns' = [conns EXCEPT ![c].chunk = w, ![c].back = b]
    BY <1>6 DEF Dispatches
  <2> DEFINE r1 == [conns[c] EXCEPT !.chunk = w]
             r2 == [r1 EXCEPT !.back = b]
  <2>2. conns' = [conns EXCEPT ![c] = r2]
    BY <2>1 DEF ConnsOK
  <2>3. "phase" \in DOMAIN r1 /\ r1.phase = conns[c].phase
    BY PhaseStays DEF ConnsOK
  <2> HIDE DEF r1
  <2>4. "phase" \in DOMAIN r2 /\ r2.phase = conns[c].phase
    BY <2>3, PhaseStays
  <2> HIDE DEF r2
  <2> QED
    BY <2>2, <2>4, OneMoves
<1>7. ASSUME UNCHANGED conns PROVE SamePhases
  BY <1>7 DEF ConnsOK, SamePhases
<1> QED
  BY <1>1, <1>2, <1>3, <1>4, <1>5, <1>6, <1>7

(* A connection that is not active moves to a phase before it is served.   *)
LEMMA OthersMove ==
    ASSUME ServerOK, NEW c \in 1..Slots, NEW r, conns' = [conns EXCEPT ![c] = r],
           "phase" \in DOMAIN r, r.phase \in {"free", "greeting", "greeted"},
           c # active, UNCHANGED <<active, shown, clean>>
    PROVE  ServerOK'
BY UplinkConstants DEF ServerOK, ConnsOK, ActiveOK, NobodyLeaves, Phases

(* A slot nothing is connected to.                                         *)
LEMMA NoConnPhase == "phase" \in DOMAIN NoConn /\ NoConn.phase = "free"
BY DEF NoConn

(* accept(): a new connection is not the active one.                       *)
LEMMA DialsServer == ASSUME ServerOK, Dials PROVE ServerOK'
<1>1. PICK c \in 1..Slots :
          /\ conns[c].phase = "free"
          /\ conns' = [conns EXCEPT ![c] =
                 [NoConn EXCEPT !.phase = "greeting", !.open = TRUE]]
  BY DEF Dials
<1> DEFINE r == [NoConn EXCEPT !.phase = "greeting", !.open = TRUE]
<1>2. "phase" \in DOMAIN r /\ r.phase = "greeting"
  BY DEF NoConn
<1>3. c # active
  BY <1>1 DEF ServerOK, ActiveOK
<1>4. UNCHANGED <<active, shown, clean>>
  BY DEF Dials, server
<1> HIDE DEF r
<1> QED
  BY <1>1, <1>2, <1>3, <1>4, OthersMove DEF r

(* readHello() and the connections that never say hello.                   *)
LEMMA GreetsServer ==
    ASSUME ServerOK, NEW c \in 1..Slots, Greets(c) \/ NoHello(c) PROVE ServerOK'
<1>1. c # active
  BY DEF ServerOK, ActiveOK, Greets, NoHello
<1>2. UNCHANGED <<active, shown, clean>>
  BY DEF Greets, NoHello, server
<1>3. CASE conns' = [conns EXCEPT ![c] = NoConn]
  BY <1>1, <1>2, <1>3, NoConnPhase, OthersMove
<1>4. ASSUME NEW w, conns' = [conns EXCEPT ![c] =
                 [conns[c] EXCEPT !.phase = "greeted", !.chunk = w, !.wire = <<>>]]
      PROVE  ServerOK'
  <2> DEFINE r1 == [conns[c] EXCEPT !.phase = "greeted"]
             r2 == [r1 EXCEPT !.chunk = w]
             r3 == [r2 EXCEPT !.wire = <<>>]
  <2>1. "phase" \in DOMAIN r1 /\ r1.phase = "greeted"
    BY PhaseSet DEF ServerOK, ConnsOK
  <2>2. conns' = [conns EXCEPT ![c] = r3]
    BY <1>4
  <2> HIDE DEF r1
  <2>3. "phase" \in DOMAIN r2 /\ r2.phase = "greeted"
    BY <2>1, PhaseStays
  <2> HIDE DEF r2
  <2>4. "phase" \in DOMAIN r3 /\ r3.phase = "greeted"
    BY <2>3, PhaseStays
  <2> HIDE DEF r3
  <2> QED
    BY <1>1, <1>2, <2>2, <2>4, OthersMove
<1>5. \/ conns' = [conns EXCEPT ![c] = NoConn]
      \/ \E w : conns' = [conns EXCEPT ![c] =
                 [conns[c] EXCEPT !.phase = "greeted", !.chunk = w, !.wire = <<>>]]
  BY DEF Greets, NoHello
<1> QED
  BY <1>3, <1>4, <1>5

(* The next connection to be served takes the place of the active one.     *)
LEMMA TakesOverServer ==
    ASSUME ServerOK, NEW c \in 1..Slots, TakesOver(c) PROVE ServerOK'
<1>1. /\ DOMAIN conns' = 1..Slots
      /\ \A d \in 1..Slots : "phase" \in DOMAIN conns'[d]
      /\ \A d \in 1..Slots :
             conns'[d].phase = IF d = c THEN "joined" ELSE conns[d].phase
  BY PhaseSet, PhaseStays DEF TakesOver, ServerOK, ConnsOK
<1>2. active' = c /\ UNCHANGED <<shown, clean>>
  BY DEF TakesOver
<1> QED
  BY <1>1, <1>2, UplinkConstants DEF ServerOK, ConnsOK, ActiveOK, NobodyLeaves, Phases
(* OnConnect() shows it; what it finds is remembered as clean.             *)
LEMMA OnConnectServer ==
    ASSUME ServerOK, NEW c \in 1..Slots, OnConnect(c) PROVE ServerOK'
<1>1. conns' = [conns EXCEPT ![c] = [conns[c] EXCEPT !.phase = "serving"]]
  BY DEF OnConnect
<1>2. /\ DOMAIN conns' = 1..Slots
      /\ \A d \in 1..Slots : "phase" \in DOMAIN conns'[d]
      /\ \A d \in 1..Slots :
             conns'[d].phase = IF d = c THEN "serving" ELSE conns[d].phase
  BY <1>1, PhaseSet DEF ServerOK, ConnsOK
<1>3. active' = active /\ shown'
  BY DEF OnConnect
<1>4. conns[c].phase = "joined"
  BY DEF OnConnect
<1>5. ConnsOK' /\ ActiveOK'
  BY <1>2, <1>3 DEF ServerOK, ConnsOK, ActiveOK, Phases
<1>6. CASE active = c
  <2>1. clean' => \A d \in 1..Slots \ {c} : conns[d].phase # "leaving"
    BY <1>6 DEF OnConnect, Alone
  <2> QED
    BY <1>2, <1>3, <1>5, <2>1 DEF ServerOK, NobodyLeaves
<1>7. CASE active # c
  <2>1. clean' = clean
    BY <1>7 DEF OnConnect
  <2>2. active # 0 => conns'[active].phase = conns[active].phase
    BY <1>2, <1>7, UplinkConstants DEF ServerOK, ActiveOK
  <2> QED
    BY <1>2, <1>3, <1>5, <2>1, <2>2 DEF ServerOK, NobodyLeaves
<1> QED
  BY <1>6, <1>7

(* Only the active one has a word to say when it ends.                     *)
LEMMA EndsServer ==
    ASSUME ServerOK, NEW c \in 1..Slots, Ends(c) PROVE ServerOK'
<1>1. CASE active = c
  <2>1. conns' = [conns EXCEPT ![c] = [conns[c] EXCEPT !.phase = "leaving"]]
    BY <1>1 DEF Ends, WasActive
  <2>2. active' = 0
    BY <1>1 DEF Ends
  <2>3. /\ DOMAIN conns' = 1..Slots
        /\ \A d \in 1..Slots : "phase" \in DOMAIN conns'[d]
        /\ \A d \in 1..Slots :
               conns'[d].phase = IF d = c THEN "leaving" ELSE conns[d].phase
    BY <2>1, PhaseSet DEF ServerOK, ConnsOK
  <2> QED
    BY <2>2, <2>3, UplinkConstants
       DEF ServerOK, ConnsOK, ActiveOK, NobodyLeaves, Phases
<1>2. CASE active # c
  <2>1. conns' = [conns EXCEPT ![c] = NoConn] /\ active' = active
    BY <1>2 DEF Ends, WasActive
  <2>2. shown' = shown /\ clean' = clean
    BY DEF Ends
  <2> QED
    BY <1>2, <2>1, <2>2, NoConnPhase, OthersMove
<1> QED
  BY <1>1, <1>2

(* Whoever leaves does not do so beside a clean session.                   *)
LEMMA OnDisconnectServer ==
    ASSUME ServerOK, NEW c \in 1..Slots, OnDisconnect(c) PROVE ServerOK'
<1>1. /\ conns[c].phase = "leaving"
      /\ conns' = [conns EXCEPT ![c] = NoConn]
      /\ active' = active /\ clean' = clean
  BY DEF OnDisconnect
<1>2. active # c
  BY <1>1 DEF ServerOK, ActiveOK
<1>3. ConnsOK' /\ ActiveOK'
  BY <1>1, <1>2, NoConnPhase, UplinkConstants
     DEF ServerOK, ConnsOK, ActiveOK, Phases
<1>4. active # 0 => conns'[active].phase = conns[active].phase
  BY <1>1, <1>2, UplinkConstants DEF ServerOK, ConnsOK, ActiveOK
<1>5. ~(active # 0 /\ clean /\ conns[active].phase = "serving")
  BY <1>1 DEF ServerOK, NobodyLeaves
<1>6. NobodyLeaves'
  BY <1>1, <1>4, <1>5 DEF NobodyLeaves
<1> QED
  BY <1>3, <1>6 DEF ServerOK

(* A server that starts again serves nobody.                               *)
LEMMA RestartServer == ASSUME ServerRestarts PROVE ServerOK'
BY NoConnPhase, UplinkConstants
   DEF ServerRestarts, ServerOK, ConnsOK, ActiveOK, NobodyLeaves, Phases

-----------------------------------------------------------------------------
(* The whole system.                                                       *)

(* The invariant at the start.                                             *)
LEMMA InitHolds == Init => IInv
<1> SUFFICES ASSUME Init PROVE IInv
  OBVIOUS
<1>1. NinaOK
  BY DEF Init, NinaInit, Off, NinaOK, NinaStates
<1>2. PeerOK
  BY UplinkConstants DEF Init, NinaInit, Off, PeerOK, Linked
<1>3. ServerOK
  BY NoConnPhase, UplinkConstants
     DEF Init, ServerOK, ConnsOK, ActiveOK, NobodyLeaves, Phases
<1> QED
  BY <1>1, <1>2, <1>3 DEF IInv

(* What the server does does not reach the module, and nothing but what    *)
(* the server does moves a connection, a new one and a restart excepted.   *)
LEMMA StepHolds == IInv /\ [Next]_vars => IInv'
<1> SUFFICES ASSUME IInv, [Next]_vars PROVE IInv'
  OBVIOUS
<1>1. NinaOK' /\ PeerOK'
  <2>1. CASE UNCHANGED <<nina, peer>>
    BY <2>1 DEF IInv, NinaOK, PeerOK
  <2>2. CASE BringsUp \/ WifiChanges
    BY <2>2, CommandState, WaitsState, DialsState, PeerState, HangUpState
       DEF BringsUp, IInv, PeerFails
  <2>3. CASE KeepaliveFails
    BY <2>3, HangUpState DEF KeepaliveFails
  <2>4. \/ UNCHANGED <<nina, peer>>
        \/ BringsUp \/ WifiChanges \/ KeepaliveFails
    BY DEF Next, vars, link, LinkDies, ServerRestarts, BusChanges, BusReports,
           MonitorTurns, Passes, KeepaliveDue, KeepaliveAnswered, ServeConn,
           ServerOnly
  <2> QED
    BY <2>1, <2>2, <2>3, <2>4
<1>2. ServerOK'
  <2>1. CASE UNCHANGED server /\ (\/ Passes \/ KeepaliveAnswered \/ LinkDies
                                  \/ HangsUp \/ UNCHANGED conns)
    BY <2>1, FrameSteps, Unmoved DEF IInv, ServerOK, server
  <2>2. CASE Dials \/ ServerRestarts
    BY <2>2, DialsServer, RestartServer DEF IInv
  <2>3. ASSUME NEW c \in 1..Slots, ServeConn(c) PROVE ServerOK'
    <3>1. CASE Reads(c) \/ Dispatches(c)
      <4>1. SamePhases
        BY <3>1, FrameSteps DEF IInv, ServerOK
      <4>2. UNCHANGED <<active, shown, clean>>
        BY <3>1 DEF Reads, Dispatches, server
      <4> QED
        BY <4>1, <4>2, Unmoved DEF IInv
    <3>2. CASE ~(Reads(c) \/ Dispatches(c))
      BY <2>3, <3>2, GreetsServer, TakesOverServer, OnConnectServer, EndsServer,
         OnDisconnectServer DEF ServeConn, IInv
    <3> QED
      BY <3>1, <3>2
  <2>4. \/ UNCHANGED server /\ (\/ Passes \/ KeepaliveAnswered \/ LinkDies
                                \/ HangsUp \/ UNCHANGED conns)
        \/ Dials \/ ServerRestarts
        \/ \E c \in 1..Slots : ServeConn(c)
    BY DEF Next, BringsUp, CommandAnswered, HangsUpIfFailed, Waits, WifiChanges,
           CannotDial, PeerAnswers, PeerFails, StartsSession, BusChanges,
           BusReports, MonitorTurns, KeepaliveDue, KeepaliveFails, Passes,
           KeepaliveAnswered, LinkDies, vars
  <2> QED
    BY <2>1, <2>2, <2>3, <2>4
<1> QED
  BY <1>1, <1>2 DEF IInv

(* While a session that had the server to itself is served the uplink is   *)
(* shown as up, whenever the goroutines of earlier connections get to      *)
(* their end (serveConn's wasActive, OnDisconnect).                        *)
THEOREM StaysShown == Spec => []ShownWhileServing
<1>1. IInv => ShownWhileServing
  <2> SUFFICES ASSUME IInv, Serving, clean PROVE shown
    BY DEF ShownWhileServing
  <2>1. active = peer /\ peer # 0 /\ conns[active].phase = "serving"
    BY DEF Serving, InDataMode, IInv, PeerOK, Linked
  <2> QED
    BY <2>1 DEF IInv, ServerOK, NobodyLeaves
<1> QED
  BY <1>1, InitHolds, StepHolds, PTL DEF Spec

-----------------------------------------------------------------------------
(* What a sequence of frames says of the Thermostat and of a node.         *)

Links == {"unknown", "up", "down"}

Frames == {Hello, RosterEnd, Keepalive}
          \cup [is : {"Entry"}, node : Nodes, as : Presences \ {"gone"}]
          \cup [is : {"Presence"}, node : Nodes, as : Presences]
          \cup [is : {"Relayed"}, node : Nodes]
          \cup [is : {"Thermostat"}, link : Links]

(* The last status in s is l; there is none.                               *)
Says(s, l) ==
    \E i \in 1..Len(s) :
        /\ s[i].is = "Thermostat" /\ s[i].link = l
        /\ \A j \in (i + 1)..Len(s) : s[j].is # "Thermostat"
Silent(s) == \A i \in 1..Len(s) : s[i].is # "Thermostat"

(* What the server knows, th, or will know when it has heard s, is l.      *)
Tells(s, l, served, sure, th) ==
    \/ Says(s, l)
    \/ Silent(s) /\ served /\ (sure => th = l)

(* What says of a node how it is, the last one in s, and none.             *)
Sets(f, n) == f.is \in {"Entry", "Presence"} /\ f.node = n
Relays(f, n) == f.is = "Relayed" /\ f.node = n
LastSet(s, n, p) ==
    \E l \in 1..Len(s) :
        /\ Sets(s[l], n) /\ s[l].as = p
        /\ \A j \in (l + 1)..Len(s) : /\ ~Sets(s[j], n)
                                      /\ Relays(s[j], n) => p = "app"
NeverSets(s, n) == \A j \in 1..Len(s) : ~Sets(s[j], n)
EndsRoster(s) == \E i \in 1..Len(s) : s[i].is = "End"

(* A roster ends once, before the first change is reported.                *)
OneEnd(s) ==
    \A i, j \in 1..Len(s) :
        i < j /\ s[i].is \in {"End", "Presence"} => s[j].is # "End"

(* The entry of the nodes table agrees with p.                             *)
Known(entry, p) ==
    /\ entry.online = (p # "gone")
    /\ entry.online => entry.boot = (p = "boot")

(* When it has heard s it will; at the end of a roster who was not listed  *)
(* goes.                                                                   *)
Reports(s, n, p, served, sure, listed, entry) ==
    \/ LastSet(s, n, p)
    \/ /\ NeverSets(s, n)
       /\ ~served => EndsRoster(s) /\ p = "gone"
       /\ served /\ sure =>
              IF EndsRoster(s) /\ ~listed THEN p = "gone" ELSE Known(entry, p)
       /\ (\E i \in 1..Len(s) : Relays(s[i], n)) => p = "app"

(* Frames in a row.                                                        *)
LEMMA Joined ==
    ASSUME NEW s \in Seq(Frames), NEW t \in Seq(Frames)
    PROVE  /\ s \o t \in Seq(Frames)
           /\ Len(s) \in Nat /\ Len(t) \in Nat /\ Len(s \o t) = Len(s) + Len(t)
           /\ \A i \in 1..Len(s) : (s \o t)[i] = s[i]
           /\ \A i \in 1..Len(t) : (s \o t)[Len(s) + i] = t[i]
           /\ \A i \in 1..(Len(s) + Len(t)) :
                  \/ i \in 1..Len(s)
                  \/ i - Len(s) \in 1..Len(t) /\ (s \o t)[i] = t[i - Len(s)]
BY ConcatProperties, LenProperties

(* What is behind the first frame.                                         *)
LEMMA Behind ==
    ASSUME NEW s \in Seq(Frames), s # <<>>
    PROVE  /\ Head(s) = s[1] /\ s[1] \in Frames /\ Tail(s) \in Seq(Frames)
           /\ Len(s) \in Nat \ {0} /\ Len(Tail(s)) = Len(s) - 1
           /\ \A i \in 1..Len(Tail(s)) : Tail(s)[i] = s[i + 1]
           /\ \A i \in 2..Len(s) : i - 1 \in 1..Len(Tail(s)) /\ Tail(s)[i - 1] = s[i]
<1>1. Len(s) \in Nat \ {0}
  BY EmptySeq
<1>2. Head(s) \in Frames /\ Tail(s) \in Seq(Frames) /\ Len(Tail(s)) = Len(s) - 1
      /\ \A i \in 1..Len(Tail(s)) : Tail(s)[i] = s[i + 1]
  BY HeadTailProperties
<1>3. Head(s) = s[1]
  BY <1>1
<1>4. ASSUME NEW i \in 2..Len(s)
      PROVE  i - 1 \in 1..Len(Tail(s)) /\ Tail(s)[i - 1] = s[i]
  BY <1>1, <1>2
<1> QED
  BY <1>1, <1>2, <1>3, <1>4

(* The status.                                                             *)
LEMMA TellsMore ==
    ASSUME NEW s \in Seq(Frames), NEW t \in Seq(Frames), NEW l
    PROVE  /\ Says(t, l) => Says(s \o t, l)
           /\ \A served, sure, th :
                  Tells(s, l, served, sure, th) /\ Silent(t)
                      => Tells(s \o t, l, served, sure, th)
<1>1. Says(t, l) => Says(s \o t, l)
  <2> SUFFICES ASSUME NEW i \in 1..Len(t), t[i].is = "Thermostat", t[i].link = l,
                      \A j \in (i + 1)..Len(t) : t[j].is # "Thermostat"
               PROVE  Says(s \o t, l)
    BY DEF Says
  <2> DEFINE k == Len(s) + i
  <2>1. k \in 1..Len(s \o t) /\ (s \o t)[k] = t[i]
    BY Joined
  <2>2. ASSUME NEW j \in (k + 1)..Len(s \o t)
        PROVE  (s \o t)[j].is # "Thermostat"
    <3>1. j - Len(s) \in (i + 1)..Len(t) /\ (s \o t)[j] = t[j - Len(s)]
      BY Joined
    <3> QED
      BY <3>1
  <2> QED
    BY <2>1, <2>2 DEF Says
<1>2. Says(s, l) /\ Silent(t) => Says(s \o t, l)
  <2> SUFFICES ASSUME NEW i \in 1..Len(s), s[i].is = "Thermostat", s[i].link = l,
                      \A j \in (i + 1)..Len(s) : s[j].is # "Thermostat", Silent(t)
               PROVE  Says(s \o t, l)
    BY DEF Says
  <2>1. i \in 1..Len(s \o t) /\ (s \o t)[i] = s[i]
    BY Joined
  <2>2. ASSUME NEW j \in (i + 1)..Len(s \o t)
        PROVE  (s \o t)[j].is # "Thermostat"
    <3>1. CASE j \in 1..Len(s)
      <4>1. (s \o t)[j] = s[j] /\ j \in (i + 1)..Len(s)
        BY <3>1, Joined
      <4> QED
        BY <4>1
    <3>2. CASE j \notin 1..Len(s)
      <4>1. j - Len(s) \in 1..Len(t) /\ (s \o t)[j] = t[j - Len(s)]
        BY <3>2, Joined
      <4> QED
        BY <4>1 DEF Silent
    <3> QED
      BY <3>1, <3>2
  <2> QED
    BY <2>1, <2>2 DEF Says
<1>3. Silent(s) /\ Silent(t) => Silent(s \o t)
  <2> SUFFICES ASSUME Silent(s), Silent(t), NEW j \in 1..Len(s \o t)
               PROVE  (s \o t)[j].is # "Thermostat"
    BY DEF Silent
  <2>1. CASE j \in 1..Len(s)
    BY <2>1, Joined DEF Silent
  <2>2. CASE j \notin 1..Len(s)
    <3>1. j - Len(s) \in 1..Len(t) /\ (s \o t)[j] = t[j - Len(s)]
      BY <2>2, Joined
    <3> QED
      BY <3>1 DEF Silent
  <2> QED
    BY <2>1, <2>2
<1> QED
  BY <1>1, <1>2, <1>3 DEF Tells

(* Hearing the first frame of it.                                          *)
LEMMA TellsRest ==
    ASSUME NEW s \in Seq(Frames), s # <<>>, NEW l, NEW served \in BOOLEAN, NEW sure, NEW th,
           Tells(s, l, served, sure, th),
           served \/ Head(s).is # "Thermostat"
    PROVE  Tells(Tail(s), l, served, sure,
                 IF Head(s).is = "Thermostat" THEN Head(s).link ELSE th)
<1>1. CASE Silent(s)
  <2>1. Silent(Tail(s)) /\ Head(s).is # "Thermostat"
    BY <1>1, Behind DEF Silent
  <2>2. ~Says(s, l)
    BY <1>1 DEF Silent, Says
  <2> QED
    BY <2>1, <2>2 DEF Tells
<1>2. CASE ~Silent(s)
  <2>1. PICK i \in 1..Len(s) :
            /\ s[i].is = "Thermostat" /\ s[i].link = l
            /\ \A j \in (i + 1)..Len(s) : s[j].is # "Thermostat"
    BY <1>2 DEF Tells, Says
  <2>2. CASE i = 1
    <3>1. Silent(Tail(s))
      <4> SUFFICES ASSUME NEW j \in 1..Len(Tail(s))
                   PROVE  Tail(s)[j].is # "Thermostat"
        BY DEF Silent
      <4>1. Tail(s)[j] = s[j + 1] /\ j + 1 \in (i + 1)..Len(s)
        BY <2>2, Behind
      <4> QED
        BY <2>1, <4>1
    <3>2. Head(s).is = "Thermostat" /\ Head(s).link = l
      BY <2>1, <2>2, Behind
    <3> QED
      BY <3>1, <3>2 DEF Tells
  <2>3. CASE i # 1
    <3>1. i - 1 \in 1..Len(Tail(s)) /\ Tail(s)[i - 1] = s[i]
      BY <2>3, Behind
    <3>2. ASSUME NEW j \in ((i - 1) + 1)..Len(Tail(s))
          PROVE  Tail(s)[j].is # "Thermostat"
      <4>1. j \in 1..Len(Tail(s)) /\ Tail(s)[j] = s[j + 1] /\ j + 1 \in (i + 1)..Len(s)
        BY <3>1, Behind
      <4> QED
        BY <2>1, <4>1
    <3> QED
      BY <2>1, <3>1, <3>2 DEF Tells, Says
  <2> QED
    BY <2>2, <2>3
<1> QED
  BY <1>1, <1>2

(* More frames about other nodes, or relayed from one that is up.          *)
LEMMA ReportsMore ==
    ASSUME NEW s \in Seq(Frames), NEW t \in Seq(Frames), NEW n, NEW p,
           NEW served, NEW sure, NEW listed, NEW entry,
           Reports(s, n, p, served, sure, listed, entry),
           NeverSets(t, n), ~EndsRoster(t),
           (\E i \in 1..Len(t) : Relays(t[i], n)) => p = "app"
    PROVE  Reports(s \o t, n, p, served, sure, listed, entry)
<1> DEFINE st == s \o t
<1>1. CASE LastSet(s, n, p)
  <2>1. PICK l \in 1..Len(s) : /\ Sets(s[l], n) /\ s[l].as = p
                               /\ \A j \in (l + 1)..Len(s) :
                                      /\ ~Sets(s[j], n)
                                      /\ Relays(s[j], n) => p = "app"
    BY <1>1 DEF LastSet
  <2>2. l \in 1..Len(st) /\ st[l] = s[l]
    BY Joined
  <2>3. ASSUME NEW j \in (l + 1)..Len(st)
        PROVE  ~Sets(st[j], n) /\ (Relays(st[j], n) => p = "app")
    <3>1. CASE j \in 1..Len(s)
      <4>1. st[j] = s[j] /\ j \in (l + 1)..Len(s)
        BY <3>1, Joined
      <4> QED
        BY <2>1, <4>1
    <3>2. CASE j \notin 1..Len(s)
      <4>1. j - Len(s) \in 1..Len(t) /\ st[j] = t[j - Len(s)]
        BY <3>2, Joined
      <4> QED
        BY <4>1 DEF NeverSets
    <3> QED
      BY <3>1, <3>2
  <2> HIDE DEF st
  <2>4. LastSet(st, n, p)
    BY <2>1, <2>2, <2>3 DEF LastSet
  <2> QED
    BY <2>4 DEF Reports, st
<1>2. CASE ~LastSet(s, n, p)
  <2>1. /\ NeverSets(s, n)
        /\ ~served => EndsRoster(s) /\ p = "gone"
        /\ served /\ sure =>
              IF EndsRoster(s) /\ ~listed THEN p = "gone" ELSE Known(entry, p)
        /\ (\E i \in 1..Len(s) : Relays(s[i], n)) => p = "app"
    BY <1>2 DEF Reports
  <2>2. NeverSets(st, n)
    <3> SUFFICES ASSUME NEW j \in 1..Len(st) PROVE ~Sets(st[j], n)
      BY DEF NeverSets
    <3>1. CASE j \in 1..Len(s)
      BY <2>1, <3>1, Joined DEF NeverSets
    <3>2. CASE j \notin 1..Len(s)
      <4>1. j - Len(s) \in 1..Len(t) /\ st[j] = t[j - Len(s)]
        BY <3>2, Joined
      <4> QED
        BY <4>1 DEF NeverSets
    <3> QED
      BY <3>1, <3>2
  <2>3. EndsRoster(st) <=> EndsRoster(s)
    <3>1. EndsRoster(s) => EndsRoster(st)
      <4> SUFFICES ASSUME NEW i \in 1..Len(s), s[i].is = "End" PROVE EndsRoster(st)
        BY DEF EndsRoster
      <4>1. i \in 1..Len(st) /\ st[i] = s[i]
        BY Joined
      <4> QED
        BY <4>1 DEF EndsRoster
    <3>2. EndsRoster(st) => EndsRoster(s)
      <4> SUFFICES ASSUME NEW j \in 1..Len(st), st[j].is = "End" PROVE EndsRoster(s)
        BY DEF EndsRoster
      <4>1. CASE j \in 1..Len(s)
        BY <4>1, Joined DEF EndsRoster
      <4>2. CASE j \notin 1..Len(s)
        <5>1. j - Len(s) \in 1..Len(t) /\ st[j] = t[j - Len(s)]
          BY <4>2, Joined
        <5> QED
          BY <5>1 DEF EndsRoster
      <4> QED
        BY <4>1, <4>2
    <3> QED
      BY <3>1, <3>2
  <2>4. ASSUME NEW j \in 1..Len(st), Relays(st[j], n) PROVE p = "app"
    <3>1. CASE j \in 1..Len(s)
      BY <2>1, <2>4, <3>1, Joined
    <3>2. CASE j \notin 1..Len(s)
      <4>1. j - Len(s) \in 1..Len(t) /\ st[j] = t[j - Len(s)]
        BY <3>2, Joined
      <4> QED
        BY <2>4, <4>1
    <3> QED
      BY <3>1, <3>2
  <2> HIDE DEF st
  <2>5. (\E i \in 1..Len(st) : Relays(st[i], n)) => p = "app"
    BY <2>4
  <2> QED
    BY <2>1, <2>2, <2>3, <2>5 DEF Reports, st
<1> QED
  BY <1>1, <1>2

(* A report of how the node is now makes all before it past.               *)
LEMMA ReportsNow ==
    ASSUME NEW s \in Seq(Frames), NEW t \in Seq(Frames), NEW n, NEW p, LastSet(t, n, p)
    PROVE  LastSet(s \o t, n, p)
<1>1. PICK i \in 1..Len(t) : /\ Sets(t[i], n) /\ t[i].as = p
                             /\ \A j \in (i + 1)..Len(t) :
                                    /\ ~Sets(t[j], n)
                                    /\ Relays(t[j], n) => p = "app"
  BY DEF LastSet
<1> DEFINE k == Len(s) + i
<1>2. k \in 1..Len(s \o t) /\ (s \o t)[k] = t[i]
  BY Joined
<1>3. ASSUME NEW j \in (k + 1)..Len(s \o t)
      PROVE  ~Sets((s \o t)[j], n) /\ (Relays((s \o t)[j], n) => p = "app")
  <2>1. j - Len(s) \in (i + 1)..Len(t) /\ (s \o t)[j] = t[j - Len(s)]
    BY Joined
  <2> QED
    BY <1>1, <2>1
<1> QED
  BY <1>1, <1>2, <1>3 DEF LastSet

(* The roster stays ended, and is not ended again.                         *)
LEMMA OneEndMore ==
    ASSUME NEW s \in Seq(Frames), NEW t \in Seq(Frames), OneEnd(s), ~EndsRoster(t)
    PROVE  OneEnd(s \o t)
<1> DEFINE st == s \o t
<1> SUFFICES ASSUME NEW i \in 1..Len(st), NEW j \in 1..Len(st), i < j,
                    st[i].is \in {"End", "Presence"}
             PROVE  st[j].is # "End"
  BY DEF OneEnd
<1>1. CASE j \in 1..Len(s)
  <2>1. i \in 1..Len(s) /\ st[i] = s[i] /\ st[j] = s[j]
    BY <1>1, Joined
  <2> QED
    BY <1>1, <2>1 DEF OneEnd
<1>2. CASE j \notin 1..Len(s)
  <2>1. j - Len(s) \in 1..Len(t) /\ st[j] = t[j - Len(s)]
    BY <1>2, Joined
  <2> QED
    BY <2>1 DEF EndsRoster
<1> QED
  BY <1>1, <1>2

(* Behind the end of the roster, or a change, no roster ends.              *)
LEMMA OneEndRest ==
    ASSUME NEW s \in Seq(Frames), s # <<>>, OneEnd(s)
    PROVE  /\ OneEnd(Tail(s))
           /\ Head(s).is \in {"End", "Presence"} => ~EndsRoster(Tail(s))
<1> DEFINE r == Tail(s)
<1>1. ASSUME NEW i \in 1..Len(r), NEW j \in 1..Len(r), i < j,
             r[i].is \in {"End", "Presence"}
      PROVE  r[j].is # "End"
  <2>1. /\ i + 1 \in 1..Len(s) /\ r[i] = s[i + 1]
        /\ j + 1 \in 1..Len(s) /\ r[j] = s[j + 1] /\ i + 1 < j + 1
    BY <1>1, Behind
  <2> QED
    BY <1>1, <2>1 DEF OneEnd
<1>2. ASSUME Head(s).is \in {"End", "Presence"}, NEW j \in 1..Len(r)
      PROVE  r[j].is # "End"
  <2>1. 1 \in 1..Len(s) /\ Head(s) = s[1] /\ j + 1 \in 1..Len(s) /\ r[j] = s[j + 1] /\ 1 < j + 1
    BY Behind
  <2> QED
    BY <1>2, <2>1 DEF OneEnd
<1> QED
  BY <1>1, <1>2 DEF OneEnd, EndsRoster

(* What a frame does to the entry of a node, and to its being listed.      *)
EntryAfter(f, n, listed, entry) ==
    IF Sets(f, n)
    THEN [online |-> f.as # "gone", boot |-> f.as = "boot"]
    ELSE IF Relays(f, n) THEN [entry EXCEPT !.online = TRUE]
    ELSE IF f.is = "End" THEN [entry EXCEPT !.online = entry.online /\ listed]
    ELSE entry
ListedAfter(f, n, listed) ==
    (f.is = "Entry" /\ f.node = n) \/ (listed /\ f.is # "End")

(* Dispatching the first frame.                                            *)
LEMMA ReportsRest ==
    ASSUME NEW s \in Seq(Frames), s # <<>>, NEW n \in Nodes, NEW p \in Presences,
           NEW sure \in BOOLEAN, NEW listed \in BOOLEAN,
           NEW entry \in [online : BOOLEAN, boot : BOOLEAN],
           OneEnd(s), Reports(s, n, p, TRUE, sure, listed, entry)
    PROVE  Reports(Tail(s), n, p, TRUE, sure, ListedAfter(Head(s), n, listed),
                   EntryAfter(Head(s), n, listed, entry))
<1> DEFINE r == Tail(s)
           f == Head(s)
           after == EntryAfter(f, n, listed, entry)
           then == ListedAfter(f, n, listed)
<1>1. f = s[1] /\ f \in Frames /\ r \in Seq(Frames) /\ 1 \in 1..Len(s)
  BY Behind
<1>2. OneEnd(r) /\ (f.is \in {"End", "Presence"} => ~EndsRoster(r))
  BY OneEndRest
<1>3. EndsRoster(s) <=> f.is = "End" \/ EndsRoster(r)
  <2>1. EndsRoster(r) => EndsRoster(s)
    <3> SUFFICES ASSUME NEW i \in 1..Len(r), r[i].is = "End" PROVE EndsRoster(s)
      BY DEF EndsRoster
    <3>1. i + 1 \in 1..Len(s) /\ r[i] = s[i + 1]
      BY Behind
    <3> QED
      BY <3>1 DEF EndsRoster
  <2>2. f.is = "End" => EndsRoster(s)
    BY <1>1 DEF EndsRoster
  <2>3. EndsRoster(s) => f.is = "End" \/ EndsRoster(r)
    <3> SUFFICES ASSUME NEW i \in 1..Len(s), s[i].is = "End", i # 1 PROVE EndsRoster(r)
      BY <1>1 DEF EndsRoster
    <3>1. i - 1 \in 1..Len(r) /\ r[i - 1] = s[i]
      BY Behind
    <3> QED
      BY <3>1 DEF EndsRoster
  <2> QED
    BY <2>1, <2>2, <2>3
<1>4. ASSUME NEW j \in 1..Len(r)
      PROVE  r[j] = s[j + 1] /\ j + 1 \in 2..Len(s) /\ j + 1 \in 1..Len(s)
  BY Behind
<1>5. f.is = "Entry" => f.as # "gone"
  BY <1>1 DEF Frames, Hello, RosterEnd, Keepalive
<1> HIDE DEF r, f
<1>6. SUFFICES Reports(r, n, p, TRUE, sure, then, after)
  BY DEF r, f
<1>7. CASE LastSet(s, n, p)
  <2>1. PICK l \in 1..Len(s) : /\ Sets(s[l], n) /\ s[l].as = p
                               /\ \A j \in (l + 1)..Len(s) :
                                      /\ ~Sets(s[j], n)
                                      /\ Relays(s[j], n) => p = "app"
    BY <1>7 DEF LastSet
  <2>2. CASE l # 1
    <3>1. l - 1 \in 1..Len(r) /\ r[l - 1] = s[l]
      BY <2>2, Behind DEF r
    <3>2. ASSUME NEW j \in ((l - 1) + 1)..Len(r)
          PROVE  ~Sets(r[j], n) /\ (Relays(r[j], n) => p = "app")
      <4>1. r[j] = s[j + 1] /\ j + 1 \in (l + 1)..Len(s)
        BY <3>1, Behind DEF r
      <4> QED
        BY <2>1, <4>1
    <3> QED
      BY <2>1, <3>1, <3>2 DEF LastSet, Reports
  <2>3. CASE l = 1
    <3>1. Sets(f, n) /\ f.as = p
      BY <1>1, <2>1, <2>3
    <3>2. ASSUME NEW j \in 1..Len(r)
          PROVE  ~Sets(r[j], n) /\ (Relays(r[j], n) => p = "app")
      <4>1. r[j] = s[j + 1] /\ j + 1 \in (l + 1)..Len(s)
        BY <2>3, Behind DEF r
      <4> QED
        BY <2>1, <4>1
    <3>3. NeverSets(r, n) /\ ((\E i \in 1..Len(r) : Relays(r[i], n)) => p = "app")
      BY <3>2 DEF NeverSets
    <3>4. after = [online |-> p # "gone", boot |-> p = "boot"]
      BY <3>1 DEF EntryAfter
    <3>5. Known(after, p)
      BY <3>4 DEF Known
    <3>6. f.is = "Entry" => then
      BY <3>1 DEF ListedAfter, Sets
    <3>7. ~EndsRoster(r) \/ then
      BY <1>2, <3>1, <3>6 DEF Sets
    <3> HIDE DEF after, then
    <3> QED
      BY <3>3, <3>5, <3>7 DEF Reports
  <2> QED
    BY <2>2, <2>3
<1>8. CASE ~LastSet(s, n, p)
  <2>1. /\ NeverSets(s, n)
        /\ sure => IF EndsRoster(s) /\ ~listed THEN p = "gone" ELSE Known(entry, p)
        /\ (\E i \in 1..Len(s) : Relays(s[i], n)) => p = "app"
    BY <1>8 DEF Reports
  <2>2. ~Sets(f, n)
    BY <1>1, <2>1 DEF NeverSets
  <2>3. NeverSets(r, n) /\ ((\E i \in 1..Len(r) : Relays(r[i], n)) => p = "app")
    <3>1. ASSUME NEW j \in 1..Len(r)
          PROVE  ~Sets(r[j], n) /\ (Relays(r[j], n) => p = "app")
      BY <1>4, <2>1 DEF NeverSets
    <3> QED
      BY <3>1 DEF NeverSets
  <2>4. then <=> listed /\ f.is # "End"
    BY <2>2 DEF ListedAfter, Sets
  <2>5. CASE Relays(f, n)
    <3>1. p = "app" /\ f.is # "End"
      BY <1>1, <2>1, <2>5 DEF Relays
    <3>2. after = [entry EXCEPT !.online = TRUE]
      BY <2>2, <2>5 DEF EntryAfter
    <3>3. Known(entry, p) => Known(after, p)
      BY <3>1, <3>2 DEF Known
    <3>4. EndsRoster(r) <=> EndsRoster(s)
      BY <1>3, <3>1
    <3> HIDE DEF after, then
    <3>5. sure => IF EndsRoster(r) /\ ~then THEN p = "gone" ELSE Known(after, p)
      BY <2>1, <2>4, <3>1, <3>3, <3>4
    <3> QED
      BY <2>3, <3>5 DEF Reports
  <2>6. CASE f.is = "End"
    <3>1. after = [entry EXCEPT !.online = entry.online /\ listed]
      BY <2>2, <2>6 DEF EntryAfter, Relays
    <3>2. listed /\ Known(entry, p) => Known(after, p)
      BY <3>1 DEF Known
    <3>3. ~listed /\ p = "gone" => Known(after, p)
      BY <3>1 DEF Known
    <3>4. EndsRoster(s) /\ ~EndsRoster(r)
      BY <1>2, <1>3, <2>6
    <3> HIDE DEF after, then
    <3>5. sure => IF EndsRoster(r) /\ ~then THEN p = "gone" ELSE Known(after, p)
      BY <2>1, <3>2, <3>3, <3>4
    <3> QED
      BY <2>3, <3>5 DEF Reports
  <2>7. CASE ~Relays(f, n) /\ f.is # "End"
    <3>1. after = entry
      BY <2>2, <2>7 DEF EntryAfter
    <3>2. EndsRoster(r) <=> EndsRoster(s)
      BY <1>3, <2>7
    <3> HIDE DEF after, then
    <3>3. sure => IF EndsRoster(r) /\ ~then THEN p = "gone" ELSE Known(after, p)
      BY <2>1, <2>4, <2>7, <3>1, <3>2
    <3> QED
      BY <2>3, <3>3 DEF Reports
  <2> QED
    BY <2>5, <2>6, <2>7
<1> QED
  BY <1>7, <1>8

(* The hello says nothing.                                                 *)
LEMMA ReportsGreeted ==
    ASSUME NEW s \in Seq(Frames), s # <<>>, NEW n \in Nodes, NEW p, NEW sure, NEW listed,
           NEW entry, Head(s) = Hello,
           Reports(s, n, p, FALSE, sure, listed, entry)
    PROVE  Reports(Tail(s), n, p, FALSE, sure, listed, entry)
<1> DEFINE r == Tail(s)
<1>1. s[1] = Hello /\ s[1].is = "Hello"
  BY Behind DEF Hello
<1>2. ASSUME NEW j \in 1..Len(r)
      PROVE  r[j] = s[j + 1] /\ j + 1 \in 2..Len(s) /\ j + 1 \in 1..Len(s)
  BY Behind
<1>3. CASE LastSet(s, n, p)
  <2>1. PICK l \in 1..Len(s) : /\ Sets(s[l], n) /\ s[l].as = p
                               /\ \A j \in (l + 1)..Len(s) :
                                      /\ ~Sets(s[j], n)
                                      /\ Relays(s[j], n) => p = "app"
    BY <1>3 DEF LastSet
  <2>2. l # 1
    BY <1>1, <2>1 DEF Sets
  <2>3. l - 1 \in 1..Len(r) /\ r[l - 1] = s[l]
    BY <2>2, Behind
  <2>4. ASSUME NEW j \in ((l - 1) + 1)..Len(r)
        PROVE  ~Sets(r[j], n) /\ (Relays(r[j], n) => p = "app")
    <3>1. r[j] = s[j + 1] /\ j + 1 \in (l + 1)..Len(s)
      BY <2>3, Behind
    <3> QED
      BY <2>1, <3>1
  <2> HIDE DEF r
  <2>5. LastSet(r, n, p)
    BY <2>1, <2>3, <2>4 DEF LastSet
  <2> QED
    BY <2>5 DEF Reports, r
<1>4. CASE ~LastSet(s, n, p)
  <2>1. /\ NeverSets(s, n) /\ EndsRoster(s) /\ p = "gone"
        /\ (\E i \in 1..Len(s) : Relays(s[i], n)) => p = "app"
    BY <1>4 DEF Reports
  <2>2. NeverSets(r, n)
    BY <1>2, <2>1 DEF NeverSets
  <2>3. \A i \in 1..Len(r) : ~Relays(r[i], n)
    BY <1>2, <2>1
  <2>4. EndsRoster(r)
    <3>1. PICK i \in 1..Len(s) : s[i].is = "End"
      BY <2>1 DEF EndsRoster
    <3>2. i - 1 \in 1..Len(r) /\ r[i - 1] = s[i]
      BY <1>1, <3>1, Behind
    <3> QED
      BY <3>1, <3>2 DEF EndsRoster
  <2> HIDE DEF r
  <2>5. Reports(r, n, p, FALSE, sure, listed, entry)
    BY <2>1, <2>2, <2>3, <2>4 DEF Reports
  <2> QED
    BY <2>5 DEF r
<1> QED
  BY <1>3, <1>4

(* The nodes of a set, each once, in some order.                           *)
LEMMA Listing ==
    ASSUME NEW S \in SUBSET Nodes
    PROVE  /\ SetToSeq(S) \in Seq(S) /\ SetToSeq(S) \in Seq(Nodes)
           /\ Len(SetToSeq(S)) \in Nat /\ Len(SetToSeq(S)) <= Cardinality(Nodes)
           /\ \A i \in 1..Len(SetToSeq(S)) : SetToSeq(S)[i] \in S
           /\ \A i, j \in 1..Len(SetToSeq(S)) :
                  SetToSeq(S)[i] = SetToSeq(S)[j] => i = j
           /\ \A n \in S : \E i \in 1..Len(SetToSeq(S)) : SetToSeq(S)[i] = n
<1> DEFINE N == Cardinality(S)
           q == SetToSeq(S)
<1>1. IsFiniteSet(S) /\ N \in Nat /\ N <= Cardinality(Nodes)
  BY FS_Subset, FS_CardinalityType, UplinkConstants
<1>2. PICK b : b \in Bijection(1..N, S)
  BY <1>1, FS_CardinalityType, Fun_ExistsBij
<1>3. b \in [1..N -> S] /\ IsInjective(b)
  <2> DEFINE D == 1..N
  <2>1. b \in Bijection(D, S)
    BY <1>2
  <2> HIDE DEF D
  <2>2. b \in [D -> S] /\ \A i, j \in D : b[i] = b[j] => i = j
    BY <2>1, Fun_BijectionProperties
  <2>3. DOMAIN b = D
    BY <2>2
  <2>4. IsInjective(b)
    BY <2>2, <2>3 DEF IsInjective
  <2> QED
    BY <2>2, <2>4 DEF D
<1>4. q \in [1..N -> S] /\ IsInjective(q)
  BY <1>3 DEF SetToSeq
<1>5. \A i, j \in 1..N : q[i] = q[j] => i = j
  BY <1>4 DEF IsInjective
<1>6. q \in Injection(1..N, S)
  BY <1>4, <1>5, Fun_IsInj
<1>7. IsFiniteSet(1..N) /\ Cardinality(1..N) = N
  BY <1>1, FS_Interval
<1>8. q \in Surjection(1..N, S)
  BY <1>1, <1>6, <1>7, FS_Injection
<1>9. \A n \in S : \E i \in 1..N : q[i] = n
  <2> DEFINE D == 1..N
  <2>1. q \in Surjection(D, S)
    BY <1>8
  <2> HIDE DEF D, q
  <2>2. \A n \in S : \E i \in D : q[i] = n
    BY <2>1, Fun_SurjectionProperties
  <2> QED
    BY <2>2 DEF D
<1> HIDE DEF q, N
<1>10. q \in Seq(S)
  BY <1>1, <1>4
<1>11. Len(q) = N
  <2>1. DOMAIN q = 1..Len(q) /\ Len(q) \in Nat
    BY <1>10, LenProperties
  <2>2. DOMAIN q = 1..N
    BY <1>4
  <2> DEFINE L == Len(q)
  <2>3. 1..L = 1..N
    BY <2>1, <2>2
  <2>4. L \in Nat /\ N \in Nat
    BY <1>1, <2>1
  <2> HIDE DEF L
  <2>5. L = N
    BY <2>3, <2>4
  <2> QED
    BY <2>5 DEF L
<1>12. q \in Seq(Nodes)
  BY <1>10, SeqMonotonic
<1>13. \A i \in 1..N : q[i] \in S
  BY <1>4
<1> QED
  BY <1>1, <1>5, <1>9, <1>10, <1>11, <1>12, <1>13 DEF q

(* Frames about each of them.                                              *)
LEMMA FrameKinds ==
    /\ Hello \in Frames /\ RosterEnd \in Frames /\ Keepalive \in Frames
    /\ \A n \in Nodes : Relayed(n) \in Frames
    /\ \A n \in Nodes : bus \in [Nodes -> Presences] =>
           /\ NodePresence(n) \in Frames
           /\ bus[n] # "gone" => RosterEntry(n) \in Frames
    /\ monitor \in [link : Links, due : BOOLEAN] => ThermostatStatus \in Frames
BY DEF Frames, Relayed, NodePresence, RosterEntry, ThermostatStatus, Presences

(* One frame.                                                              *)
LEMMA OneFrame ==
    ASSUME NEW f \in Frames
    PROVE  /\ <<f>> \in Seq(Frames) /\ Len(<<f>>) = 1 /\ <<f>>[1] = f
           /\ \A i \in 1..Len(<<f>>) : <<f>>[i] = f
OBVIOUS

(* Send() keeps what there is and takes what there is room for.            *)
LEMMA StagedIs ==
    ASSUME NEW q \in Seq(Frames), NEW t \in Seq(Frames), Len(q) <= QueueSize
    PROVE  /\ Staged(q, t) \in Seq(Frames) /\ Len(Staged(q, t)) <= QueueSize
           /\ \E k \in 0..Len(t) :
                  /\ SubSeq(t, 1, k) \in Seq(Frames) /\ Len(SubSeq(t, 1, k)) = k
                  /\ \A i \in 1..k : SubSeq(t, 1, k)[i] = t[i]
                  /\ Staged(q, t) = q \o SubSeq(t, 1, k)
                  /\ k < Len(t) => Len(q) + k = QueueSize
           /\ Len(q) + Len(t) <= QueueSize => Staged(q, t) = q \o t
<1>1. Len(q) \in Nat /\ Len(t) \in Nat /\ QueueSize \in Nat
  BY UplinkConstants, LenProperties
<1> DEFINE k == IF Len(q) + Len(t) < QueueSize THEN Len(t) ELSE QueueSize - Len(q)
           m == Len(q) + k
           a == SubSeq(t, 1, k)
           b == SubSeq(q \o t, 1, m)
<1>2. k \in 0..Len(t) /\ m \in Nat /\ m <= QueueSize /\ m <= Len(q) + Len(t)
      /\ (k < Len(t) => m = QueueSize)
  BY <1>1
<1>3. Staged(q, t) = b
  BY <1>1 DEF Staged
<1> HIDE DEF k
<1>4. a \in Seq(Frames) /\ Len(a) = k /\ \A i \in 1..k : a[i] = t[i]
  <2>1. \A i \in 1..k : t[i] \in Frames
    BY <1>1, <1>2, ElementOfSeq
  <2>2. k \in Int /\ 1 \in Int /\ k - 1 + 1 = k
    BY <1>2
  <2>3. /\ a \in Seq(Frames)
        /\ Len(a) = IF 1 <= k THEN k - 1 + 1 ELSE 0
        /\ \A i \in 1..(k - 1 + 1) : a[i] = t[1 + i - 1]
    BY <2>1, <2>2, SubSeqProperties
  <2> QED
    BY <1>2, <2>3
<1>5. q \o t \in Seq(Frames) /\ Len(q \o t) = Len(q) + Len(t)
  BY Joined
<1>6. b \in Seq(Frames) /\ Len(b) = m /\ \A i \in 1..m : b[i] = (q \o t)[i]
  <2>1. \A i \in 1..m : (q \o t)[i] \in Frames
    BY <1>1, <1>2, <1>5, ElementOfSeq
  <2>3. /\ b \in Seq(Frames)
        /\ Len(b) = IF 1 <= m THEN m - 1 + 1 ELSE 0
        /\ \A i \in 1..(m - 1 + 1) : b[i] = (q \o t)[1 + i - 1]
    <3> DEFINE u == q \o t
    <3>1. m \in Int /\ 1 \in Int /\ \A i \in 1..m : u[i] \in Frames
      BY <1>2, <2>1
    <3> HIDE DEF m, u
    <3>2. /\ SubSeq(u, 1, m) \in Seq(Frames)
          /\ Len(SubSeq(u, 1, m)) = IF 1 <= m THEN m - 1 + 1 ELSE 0
          /\ \A i \in 1..(m - 1 + 1) : SubSeq(u, 1, m)[i] = u[1 + i - 1]
      BY <3>1, SubSeqProperties
    <3> QED
      BY <3>2 DEF u
  <2> HIDE DEF m
  <2> QED
    BY <1>2, <2>3
<1>7. b = q \o a
  <2> HIDE DEF a, b
  <2>1. q \o a \in Seq(Frames) /\ Len(q \o a) = m
    BY <1>4, ConcatProperties
  <2>2. ASSUME NEW i \in 1..m PROVE b[i] = (q \o a)[i]
    <3>1. (q \o a)[i] = IF i <= Len(q) THEN q[i] ELSE a[i - Len(q)]
      BY <1>4, ConcatProperties
    <3>2. b[i] = IF i <= Len(q) THEN q[i] ELSE t[i - Len(q)]
      BY <1>1, <1>2, <1>6, ConcatProperties
    <3>3. i > Len(q) => i - Len(q) \in 1..k
      BY <1>1, <1>2
    <3> QED
      BY <1>1, <1>2, <1>4, <3>1, <3>2, <3>3
  <2> QED
    BY <1>6, <2>1, <2>2, SeqEqual
<1>8. ASSUME Len(q) + Len(t) <= QueueSize PROVE b = q \o t
  <2>1. k = Len(t)
    BY <1>1, <1>8 DEF k
  <2>2. a = t
    BY <2>1, SubSeqFull
  <2> QED
    BY <1>7, <2>2
<1> HIDE DEF a, b
<1>9. Len(q) + k = QueueSize \/ ~(k < Len(t))
  BY <1>2
<1> QED
  BY <1>2, <1>3, <1>4, <1>6, <1>7, <1>8, <1>9 DEF a

(* What CheckNodePresence() sends.                                         *)
LEMMA NewsIs ==
    ASSUME bus \in [Nodes -> Presences], presence \in [Nodes -> Presences]
    PROVE  /\ PresenceNews \in Seq(Frames) /\ Len(PresenceNews) \in Nat
           /\ \A i \in 1..Len(PresenceNews) : PresenceNews[i].is = "Presence"
           /\ \A n \in Nodes :
                  IF Changed(n) THEN LastSet(PresenceNews, n, bus[n])
                                ELSE NeverSets(PresenceNews, n)
<1> DEFINE C == {n \in Nodes : Changed(n)}
           q == SetToSeq(C)
           w == [i \in 1..Len(q) |-> NodePresence(q[i])]
<1>1. C \in SUBSET Nodes
  OBVIOUS
<1>2. PresenceNews = w
  BY DEF PresenceNews
<1> HIDE DEF C
<1>3. /\ Len(q) \in Nat
      /\ \A i \in 1..Len(q) : q[i] \in C
      /\ \A i, j \in 1..Len(q) : q[i] = q[j] => i = j
      /\ \A n \in C : \E i \in 1..Len(q) : q[i] = n
  BY <1>1, Listing
<1> HIDE DEF q
<1>4. \A i \in 1..Len(q) : NodePresence(q[i]) \in Frames
  BY <1>1, <1>3, FrameKinds
<1>5. w \in Seq(Frames)
  BY <1>3, <1>4, IsASeq
<1>6. Len(w) = Len(q)
  <2>1. DOMAIN w = 1..Len(w) /\ Len(w) \in Nat
    BY <1>5, LenProperties
  <2>2. DOMAIN w = 1..Len(q)
    OBVIOUS
  <2> HIDE DEF w
  <2> QED
    BY <1>3, <2>1, <2>2
<1>7. \A i \in 1..Len(q) : /\ w[i].is = "Presence" /\ w[i].node = q[i]
                            /\ w[i].as = bus[q[i]]
  BY DEF NodePresence
<1> HIDE DEF w
<1>8. ASSUME NEW n \in Nodes, Changed(n) PROVE LastSet(w, n, bus[n])
  <2>1. PICK i \in 1..Len(q) : q[i] = n
    BY <1>3, <1>8 DEF C
  <2>2. Sets(w[i], n) /\ w[i].as = bus[n]
    BY <1>7, <2>1 DEF Sets
  <2>3. ASSUME NEW j \in (i + 1)..Len(w)
        PROVE  ~Sets(w[j], n) /\ (Relays(w[j], n) => bus[n] = "app")
    <3>1. j \in 1..Len(q) /\ i # j
      BY <1>3, <1>6
    <3>2. q[j] # n
      BY <1>3, <2>1, <3>1
    <3> QED
      BY <1>7, <3>1, <3>2 DEF Sets, Relays
  <2> QED
    BY <1>6, <2>2, <2>3 DEF LastSet
<1>9. ASSUME NEW n \in Nodes, ~Changed(n) PROVE NeverSets(w, n)
  <2>1. \A i \in 1..Len(q) : q[i] # n
    BY <1>3, <1>9 DEF C
  <2> QED
    BY <1>6, <1>7, <2>1 DEF NeverSets, Sets
<1> QED
  BY <1>2, <1>3, <1>5, <1>6, <1>7, <1>8, <1>9

(* What StartSession() leaves in the queue: the hello, an entry of every   *)
(* active node and the terminator.                                         *)
LEMMA OpeningIs ==
    ASSUME bus \in [Nodes -> Presences]
    PROVE  /\ Opening \in Seq(Frames) /\ Len(Opening) <= QueueSize
           /\ OneEnd(Opening)
           /\ \A n \in Nodes : \A sure, listed, entry :
                  Reports(Opening, n, bus[n], FALSE, sure, listed, entry)
<1> DEFINE C == {n \in Nodes : bus[n] # "gone"}
           q == SetToSeq(C)
           L == Len(q)
           w == [i \in 1..L |-> RosterEntry(q[i])]
           r == w \o <<RosterEnd>>
           x == <<Hello>> \o r
<1>1. C \in SUBSET Nodes
  OBVIOUS
<1>2. Opening = Staged(<<>>, x)
  BY DEF Opening, Roster
<1> HIDE DEF C
<1>3. /\ L \in Nat /\ L <= Cardinality(Nodes)
      /\ \A i \in 1..L : q[i] \in C
      /\ \A i, j \in 1..L : q[i] = q[j] => i = j
      /\ \A n \in C : \E i \in 1..L : q[i] = n
  BY <1>1, Listing
<1> HIDE DEF q, L
<1>4. \A i \in 1..L : RosterEntry(q[i]) \in Frames
  BY <1>3, FrameKinds DEF C
<1>5. w \in Seq(Frames)
  BY <1>3, <1>4, IsASeq
<1>6. Len(w) = L
  <2> DEFINE K == Len(w)
  <2>1. DOMAIN w = 1..K /\ K \in Nat
    BY <1>5, LenProperties
  <2>2. DOMAIN w = 1..L
    OBVIOUS
  <2> HIDE DEF K, w
  <2>3. K = L
    BY <1>3, <2>1, <2>2
  <2> QED
    BY <2>3 DEF K
<1>7. \A i \in 1..L : /\ w[i].is = "Entry" /\ w[i].node = q[i]
                      /\ w[i].as = bus[q[i]]
  BY DEF RosterEntry
<1> HIDE DEF w
<1>8. /\ r \in Seq(Frames) /\ Len(r) = L + 1
      /\ \A i \in 1..L : r[i] = w[i]
      /\ r[L + 1] = RosterEnd
  <2>1. <<RosterEnd>> \in Seq(Frames) /\ Len(<<RosterEnd>>) = 1
        /\ <<RosterEnd>>[1] = RosterEnd
    BY FrameKinds, OneFrame
  <2> HIDE DEF r
  <2> QED
    BY <1>3, <1>5, <1>6, <2>1, Joined DEF r
<1> HIDE DEF r
<1>9. /\ x \in Seq(Frames) /\ Len(x) = L + 2
      /\ x[1] = Hello
      /\ \A i \in 1..(L + 1) : x[1 + i] = r[i]
  <2>1. <<Hello>> \in Seq(Frames) /\ Len(<<Hello>>) = 1 /\ <<Hello>>[1] = Hello
    BY FrameKinds, OneFrame
  <2> QED
    BY <1>3, <1>8, <2>1, Joined
<1> HIDE DEF x
<1>10. /\ x[1].is = "Hello"
       /\ \A i \in 2..(L + 1) : /\ x[i].is = "Entry" /\ x[i].node = q[i - 1]
                                /\ x[i].as = bus[q[i - 1]]
       /\ x[L + 2].is = "End"
  <2>1. \A i \in 2..(L + 1) : i - 1 \in 1..L /\ 1 + (i - 1) = i
    BY <1>3
  <2>2. \A i \in 2..(L + 1) : x[i] = w[i - 1]
    BY <1>3, <1>8, <1>9, <2>1
  <2>3. x[L + 2] = RosterEnd
    <3>1. L + 1 \in 1..(L + 1) /\ 1 + (L + 1) = L + 2
      BY <1>3
    <3> QED
      BY <1>8, <1>9, <3>1
  <2> QED
    BY <1>7, <1>9, <2>1, <2>2, <2>3 DEF Hello, RosterEnd
<1>11. Opening = x
  <2>1. <<>> \in Seq(Frames) /\ Len(<<>>) = 0
    BY EmptySeq
  <2>2. Cardinality(Nodes) \in Nat /\ QueueSize \in Nat
        /\ QueueSize >= Cardinality(Nodes) + 2
    BY UplinkConstants, FS_CardinalityType
  <2>3. Len(<<>>) + Len(x) <= QueueSize /\ Len(<<>>) <= QueueSize
    BY <1>3, <1>9, <2>1, <2>2
  <2>4. Staged(<<>>, x) = <<>> \o x
    BY <1>9, <2>1, <2>3, StagedIs
  <2>5. <<>> \o x = x
    BY <1>9, ConcatEmptySeq
  <2> QED
    BY <1>2, <2>4, <2>5
<1>12. L + 2 <= QueueSize
  BY <1>3, UplinkConstants, FS_CardinalityType
<1>13. OneEnd(x)
  BY <1>3, <1>9, <1>10 DEF OneEnd
<1>14. ASSUME NEW n \in Nodes, NEW sure, NEW listed, NEW entry
       PROVE  Reports(x, n, bus[n], FALSE, sure, listed, entry)
  <2>1. \A i \in 1..Len(x) : ~Relays(x[i], n)
    BY <1>3, <1>9, <1>10 DEF Relays
  <2>2. CASE bus[n] # "gone"
    <3>1. PICK i \in 1..L : q[i] = n
      BY <1>3, <2>2 DEF C
    <3>2. i + 1 \in 1..Len(x) /\ i + 1 \in 2..(L + 1) /\ (i + 1) - 1 = i
      BY <1>3, <1>9
    <3>3. Sets(x[i + 1], n) /\ x[i + 1].as = bus[n]
      BY <1>10, <3>1, <3>2 DEF Sets
    <3>4. ASSUME NEW j \in ((i + 1) + 1)..Len(x)
          PROVE  ~Sets(x[j], n)
      <4>1. CASE j = L + 2
        BY <1>10, <4>1 DEF Sets
      <4>2. CASE j # L + 2
        <5>1. j \in 2..(L + 1) /\ j - 1 \in 1..L /\ j - 1 # i
          BY <1>3, <1>9, <4>2
        <5>2. q[j - 1] # n
          BY <1>3, <3>1, <5>1
        <5> QED
          BY <1>10, <5>1, <5>2 DEF Sets
      <4> QED
        BY <4>1, <4>2
    <3>5. \A j \in ((i + 1) + 1)..Len(x) : j \in 1..Len(x)
      BY <1>3, <1>9
    <3>6. LastSet(x, n, bus[n])
      BY <2>1, <3>2, <3>3, <3>4, <3>5 DEF LastSet
    <3> QED
      BY <3>6 DEF Reports
  <2>3. CASE bus[n] = "gone"
    <3>1. \A i \in 1..L : q[i] # n
      BY <1>3, <2>3 DEF C
    <3>2. NeverSets(x, n)
      <4> SUFFICES ASSUME NEW j \in 1..Len(x) PROVE ~Sets(x[j], n)
        BY DEF NeverSets
      <4>1. j = 1 \/ j = L + 2 \/ (j \in 2..(L + 1) /\ j - 1 \in 1..L)
        BY <1>3, <1>9
      <4>2. CASE j = 1 \/ j = L + 2
        BY <1>10, <4>2 DEF Sets
      <4>3. CASE j \in 2..(L + 1) /\ j - 1 \in 1..L
        BY <1>10, <3>1, <4>3 DEF Sets
      <4> QED
        BY <4>1, <4>2, <4>3
    <3>3. EndsRoster(x)
      BY <1>3, <1>9, <1>10 DEF EndsRoster
    <3> QED
      BY <2>1, <2>3, <3>2, <3>3 DEF Reports
  <2> QED
    BY <2>2, <2>3
<1> QED
  BY <1>9, <1>11, <1>12, <1>13, <1>14

-----------------------------------------------------------------------------
(* The invariant of what is under way.                                     *)

Connections == [phase : Phases, open : BOOLEAN, wire : Seq(Frames),
                chunk : Seq(Frames), back : BOOLEAN]

BusTypeOK ==
    /\ bus \in [Nodes -> Presences]
    /\ presence \in [Nodes -> Presences]
    /\ monitor \in [link : Links, due : BOOLEAN]
    /\ queue \in Seq(Frames) /\ Len(queue) <= QueueSize
    /\ lost \in BOOLEAN

ServerTypeOK ==
    /\ conns \in [1..Slots -> Connections]
    /\ rosterIDs \in SUBSET Nodes
    /\ store \in [Nodes -> [online : BOOLEAN, boot : BOOLEAN]]
    /\ thermostat \in Links
    /\ clean \in BOOLEAN

(* A connection before it was greeted has nothing of it read; one that is  *)
(* not the active one, or was, has nothing more to come.                   *)
Slot(r, serves) ==
    /\ r.phase \in {"free", "leaving"} => ~r.open
    /\ r.phase \in {"free", "greeting"} => r.chunk = <<>>
    /\ r.phase \in {"joined", "serving"} /\ ~serves => ~r.open /\ r.wire = <<>>
    /\ Len(r.wire) <= Ring

SlotsOK == \A c \in 1..Slots : Slot(conns[c], c = active)

(* The connection the module dials is new until it enters data mode.       *)
Fresh ==
    nina.state \in Linked \ {"DataMode"} /\ conns[peer].open =>
        conns[peer].phase = "greeting" /\ conns[peer].wire = <<>>

(* No other goroutine dispatches beside a clean session.                   *)
OthersSilent ==
    active # 0 /\ clean /\ conns[active].phase = "serving" =>
        \A d \in 1..Slots \ {active} :
            conns[d].phase \in {"joined", "serving"} => conns[d].chunk = <<>>

(* What the module's side sent last and what the server has stored.        *)
Said == [monitor |-> monitor, presence |-> presence, lost |-> lost]
Knowing == [clean |-> clean, thermostat |-> thermostat, rosterIDs |-> rosterIDs,
            store |-> store]

Sayings == [monitor : [link : Links, due : BOOLEAN],
            presence : [Nodes -> Presences], lost : BOOLEAN]
Knowings == [clean : BOOLEAN, thermostat : Links, rosterIDs : SUBSET Nodes,
             store : [Nodes -> [online : BOOLEAN, boot : BOOLEAN]]]

(* What a session said that has not been heard, s, leads the server from   *)
(* what it knows to what was said last.                                    *)
Told(s, served, said, known) ==
    /\ ~said.monitor.due /\ said.monitor.link # "unknown" =>
           Tells(s, said.monitor.link, served, known.clean, known.thermostat)
    /\ ~said.lost =>
           /\ OneEnd(s)
           /\ \A n \in Nodes : Reports(s, n, said.presence[n], served, known.clean,
                                       n \in known.rosterIDs, known.store[n])

Stream == (conns[peer].chunk \o conns[peer].wire) \o queue

SessionInv ==
    InDataMode /\ conns[peer].open =>
        Told(Stream, conns[peer].phase = "serving", Said, Knowing)

TInv == BusTypeOK /\ ServerTypeOK /\ SlotsOK /\ Fresh /\ OthersSilent /\ SessionInv

-----------------------------------------------------------------------------
(* What is said and heard.                                                 *)

(* More that says nothing new of the Thermostat or of who is there.        *)
LEMMA ToldMore ==
    ASSUME NEW s \in Seq(Frames), NEW t \in Seq(Frames), NEW served,
           NEW said, NEW known, Told(s, served, said, known),
           Silent(t), ~EndsRoster(t),
           \A n \in Nodes : /\ NeverSets(t, n)
                            /\ (\E i \in 1..Len(t) : Relays(t[i], n))
                                   => said.presence[n] = "app"
    PROVE  Told(s \o t, served, said, known)
<1>1. ASSUME ~said.monitor.due /\ said.monitor.link # "unknown"
      PROVE  Tells(s \o t, said.monitor.link, served, known.clean, known.thermostat)
  BY <1>1, TellsMore DEF Told
<1>2. ASSUME ~said.lost PROVE OneEnd(s \o t)
  BY <1>2, OneEndMore DEF Told
<1>3. ASSUME ~said.lost, NEW n \in Nodes
      PROVE  Reports(s \o t, n, said.presence[n], served, known.clean,
                     n \in known.rosterIDs, known.store[n])
  <2>1. Reports(s, n, said.presence[n], served, known.clean,
                n \in known.rosterIDs, known.store[n])
    BY <1>3 DEF Told
  <2> QED
    BY <2>1, ReportsMore
<1> QED
  BY <1>1, <1>2, <1>3 DEF Told

(* A status makes all before it past.                                      *)
LEMMA ToldStatus ==
    ASSUME NEW s \in Seq(Frames), NEW f \in Frames, NEW served,
           NEW said, NEW known, NEW now, Told(s, served, said, known),
           f.is = "Thermostat", f.link = said.monitor.link,
           now.monitor.link = said.monitor.link,
           now.presence = said.presence, now.lost = said.lost
    PROVE  Told(s \o <<f>>, served, now, known)
<1> DEFINE t == <<f>>
<1>1. t \in Seq(Frames) /\ Len(t) = 1 /\ t[1] = f /\ \A i \in 1..Len(t) : t[i] = f
  BY OneFrame
<1> HIDE DEF t
<1>2. Says(t, said.monitor.link)
  <2>1. 1 \in 1..Len(t) /\ \A j \in (1 + 1)..Len(t) : FALSE
    BY <1>1
  <2> QED
    BY <1>1, <2>1 DEF Says
<1>3. Says(s \o t, said.monitor.link)
  BY <1>1, <1>2, TellsMore
<1>4. /\ ~EndsRoster(t)
      /\ \A n \in Nodes : NeverSets(t, n) /\ \A i \in 1..Len(t) : ~Relays(t[i], n)
  BY <1>1 DEF EndsRoster, NeverSets, Sets, Relays
<1>5. ASSUME ~said.lost PROVE OneEnd(s \o t)
  BY <1>1, <1>4, <1>5, OneEndMore DEF Told
<1>6. ASSUME ~said.lost, NEW n \in Nodes
      PROVE  Reports(s \o t, n, said.presence[n], served, known.clean,
                     n \in known.rosterIDs, known.store[n])
  <2>1. Reports(s, n, said.presence[n], served, known.clean,
                n \in known.rosterIDs, known.store[n])
    BY <1>6 DEF Told
  <2> QED
    BY <1>1, <1>4, <2>1, ReportsMore
<1>7. Told(s \o t, served, now, known)
  BY <1>3, <1>5, <1>6 DEF Told, Tells
<1> QED
  BY <1>7 DEF t

(* What the server knows does not matter when all of it is told anew, or   *)
(* when nothing is claimed of it.                                          *)
LEMMA ToldAnew ==
    ASSUME NEW s, NEW served \in BOOLEAN, NEW said, NEW known, NEW other,
           Told(s, served, said, known),
           ~(served /\ known.clean), ~(served /\ other.clean)
    PROVE  Told(s, served, said, other)
BY DEF Told, Tells, Reports

(* The hello says nothing.                                                 *)
LEMMA ToldGreeted ==
    ASSUME NEW s \in Seq(Frames), s # <<>>, Head(s) = Hello, NEW said, NEW known,
           Told(s, FALSE, said, known)
    PROVE  Told(Tail(s), FALSE, said, known)
<1>1. Head(s).is = "Hello"
  BY DEF Hello
<1>2. ASSUME ~said.monitor.due /\ said.monitor.link # "unknown"
      PROVE  Tells(Tail(s), said.monitor.link, FALSE, known.clean, known.thermostat)
  <2>1. Tells(s, said.monitor.link, FALSE, known.clean, known.thermostat)
    BY <1>2 DEF Told
  <2> QED
    BY <1>1, <2>1, TellsRest
<1>3. ASSUME ~said.lost PROVE OneEnd(Tail(s))
  BY <1>3, OneEndRest DEF Told
<1>4. ASSUME ~said.lost, NEW n \in Nodes
      PROVE  Reports(Tail(s), n, said.presence[n], FALSE, known.clean,
                     n \in known.rosterIDs, known.store[n])
  <2>1. Reports(s, n, said.presence[n], FALSE, known.clean,
                n \in known.rosterIDs, known.store[n])
    BY <1>4 DEF Told
  <2> QED
    BY <2>1, ReportsGreeted
<1> QED
  BY <1>2, <1>3, <1>4 DEF Told

(* OnConnect() finds it all still to be heard.                             *)
LEMMA ToldServed ==
    ASSUME NEW s, NEW said, NEW known, NEW other, Told(s, FALSE, said, known),
           other.clean => other.rosterIDs = {}
    PROVE  Told(s, TRUE, said, other)
BY DEF Told, Tells, Reports

(* dispatch() of the first frame.                                          *)
LEMMA ToldRest ==
    ASSUME NEW s \in Seq(Frames), s # <<>>, NEW said \in Sayings,
           NEW known \in Knowings, NEW then,
           Told(s, TRUE, said, known),
           then.clean = known.clean,
           then.thermostat = IF Head(s).is = "Thermostat" THEN Head(s).link
                             ELSE known.thermostat,
           \A n \in Nodes :
               /\ (n \in then.rosterIDs) =
                      ListedAfter(Head(s), n, n \in known.rosterIDs)
               /\ then.store[n] =
                      EntryAfter(Head(s), n, n \in known.rosterIDs, known.store[n])
    PROVE  Told(Tail(s), TRUE, said, then)
<1>1. ASSUME ~said.monitor.due /\ said.monitor.link # "unknown"
      PROVE  Tells(Tail(s), said.monitor.link, TRUE, then.clean, then.thermostat)
  <2>1. Tells(s, said.monitor.link, TRUE, known.clean, known.thermostat)
    BY <1>1 DEF Told
  <2> QED
    BY <2>1, TellsRest
<1>2. ASSUME ~said.lost PROVE OneEnd(Tail(s))
  BY <1>2, OneEndRest DEF Told
<1>3. ASSUME ~said.lost, NEW n \in Nodes
      PROVE  Reports(Tail(s), n, said.presence[n], TRUE, then.clean,
                     n \in then.rosterIDs, then.store[n])
  <2> DEFINE listed == n \in known.rosterIDs
             entry == known.store[n]
             p == said.presence[n]
             sure == known.clean
  <2>1. OneEnd(s) /\ Reports(s, n, p, TRUE, sure, listed, entry)
    BY <1>3 DEF Told
  <2>2. /\ p \in Presences /\ sure \in BOOLEAN /\ listed \in BOOLEAN
        /\ entry \in [online : BOOLEAN, boot : BOOLEAN]
    BY DEF Sayings, Knowings
  <2>3. /\ then.clean = sure
        /\ (n \in then.rosterIDs) = ListedAfter(Head(s), n, listed)
        /\ then.store[n] = EntryAfter(Head(s), n, listed, entry)
    OBVIOUS
  <2> HIDE DEF listed, entry, p, sure
  <2>4. Reports(Tail(s), n, p, TRUE, sure, ListedAfter(Head(s), n, listed),
                EntryAfter(Head(s), n, listed, entry))
    BY <2>1, <2>2, ReportsRest
  <2> QED
    BY <2>3, <2>4 DEF p
<1> QED
  BY <1>1, <1>2, <1>3 DEF Told

-----------------------------------------------------------------------------
(* Connections.                                                            *)

(* A field of one is set.                                                  *)
LEMMA PhaseEdited ==
    ASSUME NEW r \in Connections, NEW p \in Phases
    PROVE  LET e == [r EXCEPT !.phase = p]
           IN  /\ e \in Connections
               /\ e.phase = p /\ e.open = r.open
               /\ e.wire = r.wire /\ e.chunk = r.chunk
BY DEF Connections

(* One that opens or closes.                                               *)
LEMMA OpenEdited ==
    ASSUME NEW r \in Connections, NEW b \in BOOLEAN
    PROVE  LET e == [r EXCEPT !.open = b]
           IN  /\ e \in Connections
               /\ e.phase = r.phase /\ e.open = b
               /\ e.wire = r.wire /\ e.chunk = r.chunk
BY DEF Connections

(* One with an answer on the way back.                                     *)
LEMMA BackEdited ==
    ASSUME NEW r \in Connections, NEW b \in BOOLEAN
    PROVE  LET e == [r EXCEPT !.back = b]
           IN  /\ e \in Connections
               /\ e.phase = r.phase /\ e.open = r.open
               /\ e.wire = r.wire /\ e.chunk = r.chunk
BY DEF Connections

(* One with other frames on the wire.                                      *)
LEMMA WireEdited ==
    ASSUME NEW r \in Connections, NEW w \in Seq(Frames)
    PROVE  LET e == [r EXCEPT !.wire = w]
           IN  /\ e \in Connections
               /\ e.phase = r.phase /\ e.open = r.open
               /\ e.wire = w /\ e.chunk = r.chunk
BY DEF Connections

(* One with other frames read.                                             *)
LEMMA ChunkEdited ==
    ASSUME NEW r \in Connections, NEW w \in Seq(Frames)
    PROVE  LET e == [r EXCEPT !.chunk = w]
           IN  /\ e \in Connections
               /\ e.phase = r.phase /\ e.open = r.open
               /\ e.wire = r.wire /\ e.chunk = w
BY DEF Connections

(* A free slot is well formed whoever is active.                           *)
LEMMA NoConnection ==
    /\ NoConn \in Connections /\ NoConn.phase = "free" /\ ~NoConn.open
    /\ NoConn.wire = <<>> /\ NoConn.chunk = <<>>
    /\ \A serves : Slot(NoConn, serves)
BY EmptySeq, UplinkConstants DEF NoConn, Connections, Phases, Slot

(* What a slot holds.                                                      *)
LEMMA Typed ==
    ASSUME ServerTypeOK, NEW c \in 1..Slots
    PROVE  /\ conns[c] \in Connections
           /\ conns[c].phase \in Phases /\ conns[c].open \in BOOLEAN
           /\ conns[c].wire \in Seq(Frames) /\ conns[c].chunk \in Seq(Frames)
           /\ conns[c].back \in BOOLEAN
<1>1. conns[c] \in Connections
  BY DEF ServerTypeOK
<1> QED
  BY <1>1 DEF Connections

(* One connection moves, to a phase in which it is not served, or as it is *)
(* served without taking in more.                                          *)
LEMMA OneConn ==
    ASSUME ServerTypeOK, SlotsOK, OthersSilent, NEW c \in 1..Slots,
           NEW r \in Connections, conns' = [conns EXCEPT ![c] = r],
           active' = active, clean' = clean, active \in 0..Slots,
           Slot(r, c = active),
           c = active /\ r.phase = "serving" => conns[c].phase = "serving",
           c # active /\ r.phase \in {"joined", "serving"} =>
               /\ conns[c].phase \in {"joined", "serving"}
               /\ conns[c].chunk = <<>> => r.chunk = <<>>
    PROVE  /\ conns' \in [1..Slots -> Connections]
           /\ conns'[c] = r
           /\ \A d \in 1..Slots \ {c} : conns'[d] = conns[d]
           /\ SlotsOK' /\ OthersSilent'
<1>1. conns \in [1..Slots -> Connections]
  BY DEF ServerTypeOK
<1>2. /\ conns' \in [1..Slots -> Connections]
      /\ conns'[c] = r
      /\ \A d \in 1..Slots \ {c} : conns'[d] = conns[d]
  BY <1>1
<1>3. SlotsOK'
  <2> SUFFICES ASSUME NEW d \in 1..Slots PROVE Slot(conns[d], d = active)'
    BY DEF SlotsOK
  <2>1. CASE d = c
    BY <1>2, <2>1 DEF Slot
  <2>2. CASE d # c
    BY <1>2, <2>2 DEF SlotsOK, Slot
  <2> QED
    BY <2>1, <2>2
<1>4. OthersSilent'
  <2> SUFFICES ASSUME active # 0, clean, conns'[active].phase = "serving",
                      NEW d \in 1..Slots \ {active},
                      conns'[d].phase \in {"joined", "serving"}
               PROVE  conns'[d].chunk = <<>>
    BY DEF OthersSilent
  <2>1. conns[active].phase = "serving"
    BY <1>2
  <2>2. conns[d].phase \in {"joined", "serving"} => conns[d].chunk = <<>>
    BY <2>1 DEF OthersSilent
  <2> QED
    BY <1>2, <2>2
<1> QED
  BY <1>2, <1>3, <1>4

(* The module's connection.                                                *)
LEMMA PeerIs ==
    ASSUME IInv, TInv, nina.state \in Linked
    PROVE  /\ peer \in 1..Slots
           /\ conns[peer].wire \in Seq(Frames) /\ conns[peer].chunk \in Seq(Frames)
           /\ conns[peer].chunk \o conns[peer].wire \in Seq(Frames)
           /\ Stream \in Seq(Frames)
<1>1. peer \in 1..Slots
  BY UplinkConstants DEF IInv, PeerOK
<1>2. conns[peer].wire \in Seq(Frames) /\ conns[peer].chunk \in Seq(Frames)
  BY <1>1, Typed DEF TInv
<1>3. queue \in Seq(Frames)
  BY DEF TInv, BusTypeOK
<1>4. conns[peer].chunk \o conns[peer].wire \in Seq(Frames)
  BY <1>2, ConcatProperties
<1> QED
  BY <1>1, <1>2, <1>3, <1>4, ConcatProperties DEF Stream

(* What was said and what is known are well formed.                        *)
LEMMA SaidTyped ==
    TInv => Said \in Sayings /\ Knowing \in Knowings
BY DEF TInv, BusTypeOK, ServerTypeOK, Said, Knowing, Sayings, Knowings

-----------------------------------------------------------------------------
(* What the MainController stages.                                         *)

(* A frame more, when there is room.                                       *)
LEMMA OneStaged ==
    ASSUME BusTypeOK, NEW f \in Frames
    PROVE  /\ Staged(queue, <<f>>) \in Seq(Frames)
           /\ Len(Staged(queue, <<f>>)) <= QueueSize
           /\ Staged(queue, <<f>>) = queue \/ Staged(queue, <<f>>) = queue \o <<f>>
<1>1. <<f>> \in Seq(Frames) /\ Len(<<f>>) = 1
  BY OneFrame
<1>2. queue \in Seq(Frames) /\ Len(queue) <= QueueSize
  BY DEF BusTypeOK
<1>3. /\ Staged(queue, <<f>>) \in Seq(Frames)
      /\ Len(Staged(queue, <<f>>)) <= QueueSize
      /\ Len(queue) + Len(<<f>>) <= QueueSize => Staged(queue, <<f>>) = queue \o <<f>>
  BY <1>1, <1>2, StagedIs
<1>4. CASE Len(queue) + 1 <= QueueSize
  BY <1>1, <1>3, <1>4
<1>5. CASE Len(queue) + 1 > QueueSize
  <2>1. Len(queue) = QueueSize
    BY <1>2, <1>5, UplinkConstants, LenProperties
  <2>2. Staged(queue, <<f>>) = SubSeq(queue \o <<f>>, 1, Len(queue))
    BY <1>1, <2>1, UplinkConstants DEF Staged
  <2>3. PICK k \in 0..1 : /\ Staged(queue, <<f>>) = queue \o SubSeq(<<f>>, 1, k)
                          /\ Len(SubSeq(<<f>>, 1, k)) = k
                          /\ SubSeq(<<f>>, 1, k) \in Seq(Frames)
    BY <1>1, <1>2, StagedIs
  <2>4. k = 0
    BY <1>2, <1>3, <2>1, <2>3, ConcatProperties, UplinkConstants
  <2>5. SubSeq(<<f>>, 1, k) = <<>>
    BY <2>4, SubSeqEmpty
  <2> QED
    BY <1>2, <1>3, <2>3, <2>5, ConcatEmptySeq
<1> QED
  BY <1>2, <1>3, <1>4, <1>5, UplinkConstants, LenProperties

(* The news, or as much of it as there is room for.                        *)
LEMMA NewsStaged ==
    ASSUME BusTypeOK
    PROVE  \E a \in Seq(Frames) :
               /\ Staged(queue, PresenceNews) = queue \o a
               /\ Staged(queue, PresenceNews) \in Seq(Frames)
               /\ Len(Staged(queue, PresenceNews)) <= QueueSize
               /\ Silent(a) /\ ~EndsRoster(a)
               /\ \A n : \A i \in 1..Len(a) : ~Relays(a[i], n)
               /\ ~Drops(queue, PresenceNews) => a = PresenceNews
<1>1. /\ PresenceNews \in Seq(Frames) /\ Len(PresenceNews) \in Nat
      /\ \A i \in 1..Len(PresenceNews) : PresenceNews[i].is = "Presence"
  BY NewsIs DEF BusTypeOK
<1>2. queue \in Seq(Frames) /\ Len(queue) <= QueueSize /\ Len(queue) \in Nat
      /\ QueueSize \in Nat
  BY UplinkConstants, LenProperties DEF BusTypeOK
<1> DEFINE w == PresenceNews
<1> HIDE DEF w
<1>3. /\ Staged(queue, w) \in Seq(Frames) /\ Len(Staged(queue, w)) <= QueueSize
      /\ \E k \in 0..Len(w) :
             /\ SubSeq(w, 1, k) \in Seq(Frames) /\ Len(SubSeq(w, 1, k)) = k
             /\ \A i \in 1..k : SubSeq(w, 1, k)[i] = w[i]
             /\ Staged(queue, w) = queue \o SubSeq(w, 1, k)
             /\ k < Len(w) => Len(queue) + k = QueueSize
  BY <1>1, <1>2, StagedIs DEF w
<1>4. PICK k \in 0..Len(w) :
             /\ SubSeq(w, 1, k) \in Seq(Frames) /\ Len(SubSeq(w, 1, k)) = k
             /\ \A i \in 1..k : SubSeq(w, 1, k)[i] = w[i]
             /\ Staged(queue, w) = queue \o SubSeq(w, 1, k)
             /\ k < Len(w) => Len(queue) + k = QueueSize
  BY <1>3
<1> DEFINE a == SubSeq(w, 1, k)
<1> HIDE DEF a
<1>5. a \in Seq(Frames) /\ Len(a) = k /\ \A i \in 1..k : a[i] = w[i]
  BY <1>4 DEF a
<1>6. \A i \in 1..Len(a) : a[i].is = "Presence"
  BY <1>1, <1>4, <1>5 DEF w
<1>7. Silent(a) /\ ~EndsRoster(a) /\ \A n : \A i \in 1..Len(a) : ~Relays(a[i], n)
  BY <1>6 DEF Silent, EndsRoster, Relays
<1>8. ASSUME ~Drops(queue, w) PROVE a = w
  <2>1. k = Len(w)
    <3> SUFFICES ASSUME k < Len(w) PROVE FALSE
      BY <1>1, <1>4 DEF w
    <3>1. /\ k + 1 \in 1..Len(w) /\ Len(queue) + (k + 1) > QueueSize
          /\ w[k + 1].is \in News
      BY <1>1, <1>2, <1>4 DEF w, News
    <3> QED
      BY <1>8, <3>1 DEF Drops
  <2> QED
    BY <1>1, <2>1, SubSeqFull DEF a, w
<1> QED
  BY <1>3, <1>4, <1>5, <1>7, <1>8 DEF a, w

(* What a step that moves no connection leaves of the invariant.           *)
LEMMA SameConns ==
    ASSUME TInv, UNCHANGED <<nina, peer, conns, active, rosterIDs, store, thermostat,
                             clean>>
    PROVE  ServerTypeOK' /\ SlotsOK' /\ Fresh' /\ OthersSilent' /\ Knowing' = Knowing
BY DEF TInv, ServerTypeOK, SlotsOK, Fresh, OthersSilent, Knowing

(* In the session a frame more is staged, or lost.                         *)
LEMMA SaysMore ==
    ASSUME IInv, TInv, InDataMode, conns[peer].open, NEW f \in Frames,
           f.is \in {"Relayed", "Keepalive"},
           f.is = "Relayed" => presence[f.node] = "app",
           queue' = Staged(queue, <<f>>),
           UNCHANGED <<peer, conns, presence, lost, clean, thermostat, rosterIDs, store>>,
           monitor' = monitor \/ monitor'.due
    PROVE  Told(Stream, conns[peer].phase = "serving", Said, Knowing)'
<1>1. nina.state \in Linked
  BY DEF InDataMode, Linked
<1> DEFINE head == conns[peer].chunk \o conns[peer].wire
           served == conns[peer].phase = "serving"
           t == <<f>>
<1>2. Told(Stream, served, Said, Knowing)
  BY DEF TInv, SessionInv
<1>3. Stream = head \o queue /\ Stream' = head \o queue'
      /\ head \in Seq(Frames) /\ queue \in Seq(Frames) /\ Stream \in Seq(Frames)
  BY <1>1, PeerIs DEF Stream, TInv, BusTypeOK
<1>4. t \in Seq(Frames) /\ Len(t) = 1 /\ \A i \in 1..Len(t) : t[i] = f
  BY OneFrame
<1> HIDE DEF head, t
<1>5. queue' = queue \/ queue' = queue \o t
  BY OneStaged DEF TInv, t
<1>6. Stream' = Stream \/ Stream' = Stream \o t
  <2>1. CASE queue' = queue
    BY <1>3, <2>1
  <2>2. CASE queue' = queue \o t
    <3>1. (head \o queue) \o t = head \o (queue \o t)
      BY <1>3, <1>4, ConcatAssociative
    <3> QED
      BY <1>3, <2>2, <3>1
  <2> QED
    BY <1>5, <2>1, <2>2
<1>7. /\ Silent(t) /\ ~EndsRoster(t)
      /\ \A n \in Nodes : /\ NeverSets(t, n)
                          /\ (\E i \in 1..Len(t) : Relays(t[i], n))
                                 => Said.presence[n] = "app"
  BY <1>4 DEF Silent, EndsRoster, NeverSets, Sets, Relays, Said
<1>8. Told(Stream', served, Said, Knowing)
  BY <1>2, <1>3, <1>4, <1>6, <1>7, ToldMore
<1>9. Knowing' = Knowing /\ (conns[peer].phase = "serving")' = served
  BY DEF Knowing
<1>10. Told(Stream', served, Said', Knowing)
  <2>1. /\ Said'.lost = Said.lost /\ Said'.presence = Said.presence
        /\ Said'.monitor = Said.monitor \/ Said'.monitor.due
    BY DEF Said
  <2> QED
    BY <1>8, <2>1 DEF Told
<1> HIDE DEF served
<1> QED
  BY <1>9, <1>10

(* ReceivedMessage(): a relayed report.                                    *)
LEMMA ReportsHolds == ASSUME IInv, TInv, BusReports PROVE TInv'
<1>1. PICK n \in Nodes :
          /\ InDataMode => presence[n] = "app"
          /\ \/ UNCHANGED monitor
             \/ \E l \in {"up", "down"} :
                    monitor' = [link |-> l, due |-> monitor.due \/ l # monitor.link]
          /\ queue' = IF InDataMode THEN Staged(queue, <<Relayed(n)>>) ELSE queue
          /\ UNCHANGED <<nina, bus, presence, peer, conns, server, lost>>
  BY DEF BusReports
<1>2. UNCHANGED <<nina, peer, conns, active, rosterIDs, store, thermostat, clean>>
  BY <1>1 DEF server
<1>3. /\ Relayed(n) \in Frames /\ Relayed(n).is = "Relayed" /\ Relayed(n).node = n
  BY FrameKinds DEF Relayed
<1>4. monitor' \in [link : Links, due : BOOLEAN] /\ (monitor' = monitor \/ monitor'.due)
  <2>1. monitor \in [link : Links, due : BOOLEAN]
    BY DEF TInv, BusTypeOK
  <2>2. CASE UNCHANGED monitor
    BY <2>1, <2>2
  <2>3. CASE \E l \in {"up", "down"} :
                 monitor' = [link |-> l, due |-> monitor.due \/ l # monitor.link]
    <3>1. PICK l \in {"up", "down"} :
                 monitor' = [link |-> l, due |-> monitor.due \/ l # monitor.link]
      BY <2>3
    <3>2. monitor'.due = (monitor.due \/ l # monitor.link)
      BY <3>1
    <3>3. CASE l = monitor.link
      BY <2>1, <3>1, <3>3 DEF Links
    <3>4. CASE l # monitor.link
      BY <2>1, <3>1, <3>4 DEF Links
    <3> QED
      BY <3>3, <3>4
  <2> QED
    BY <1>1, <2>2, <2>3
<1>5. BusTypeOK'
  <2>1. queue' \in Seq(Frames) /\ Len(queue') <= QueueSize
    BY <1>1, <1>3, OneStaged DEF TInv, BusTypeOK
  <2> QED
    BY <1>1, <1>4, <2>1 DEF TInv, BusTypeOK
<1>6. SessionInv'
  <2> SUFFICES ASSUME InDataMode', conns[peer].open'
               PROVE  Told(Stream, conns[peer].phase = "serving", Said, Knowing)'
    BY DEF SessionInv
  <2>1. InDataMode /\ conns[peer].open
    BY <1>2 DEF InDataMode
  <2> QED
    BY <1>1, <1>2, <1>3, <1>4, <2>1, SaysMore
<1> QED
  BY <1>2, <1>5, <1>6, SameConns DEF TInv

(* A keepalive is staged.                                                  *)
LEMMA KeepaliveDueHolds == ASSUME IInv, TInv, KeepaliveDue PROVE TInv'
<1>1. UNCHANGED <<nina, bus, presence, monitor, peer, conns, active, rosterIDs, store,
                  thermostat, clean, lost>>
  BY DEF KeepaliveDue, link, server
<1>2. queue' = Staged(queue, <<Keepalive>>)
  BY DEF KeepaliveDue
<1>3. Keepalive \in Frames /\ Keepalive.is = "Keepalive"
  BY FrameKinds DEF Keepalive
<1>4. BusTypeOK'
  BY <1>1, <1>2, <1>3, OneStaged DEF TInv, BusTypeOK
<1>5. SessionInv'
  <2> SUFFICES ASSUME InDataMode', conns[peer].open'
               PROVE  Told(Stream, conns[peer].phase = "serving", Said, Knowing)'
    BY DEF SessionInv
  <2>1. InDataMode /\ conns[peer].open
    BY <1>1 DEF InDataMode
  <2> QED
    BY <1>1, <1>2, <1>3, <2>1, SaysMore
<1> QED
  BY <1>1, <1>4, <1>5, SameConns DEF TInv

(* The monitor turns to a status that is due, or to none.                  *)
LEMMA MonitorHolds == ASSUME IInv, TInv, MonitorTurns PROVE TInv'
<1>1. UNCHANGED <<nina, bus, presence, queue, peer, conns, active, rosterIDs, store,
                  thermostat, clean, lost>>
  BY DEF MonitorTurns, link, server
<1>2. monitor' \in [link : Links, due : BOOLEAN]
      /\ (monitor'.due \/ monitor'.link = "unknown")
  <2>1. \/ monitor' = [link |-> "unknown", due |-> FALSE]
        \/ monitor' = [monitor EXCEPT !.due = TRUE]
    BY DEF MonitorTurns
  <2>2. CASE monitor' = [link |-> "unknown", due |-> FALSE]
    BY <2>2 DEF Links
  <2>3. CASE monitor' = [monitor EXCEPT !.due = TRUE]
    <3>1. monitor \in [link : Links, due : BOOLEAN]
      BY DEF TInv, BusTypeOK
    <3> QED
      BY <2>3, <3>1
  <2> QED
    BY <2>1, <2>2, <2>3
<1>3. BusTypeOK'
  BY <1>1, <1>2 DEF TInv, BusTypeOK
<1>4. SessionInv'
  <2> SUFFICES ASSUME InDataMode', conns[peer].open'
               PROVE  Told(Stream, conns[peer].phase = "serving", Said, Knowing)'
    BY DEF SessionInv
  <2> DEFINE served == conns[peer].phase = "serving"
  <2>1. InDataMode /\ conns[peer].open
    BY <1>1 DEF InDataMode
  <2>2. Told(Stream, served, Said, Knowing)
    BY <2>1 DEF TInv, SessionInv
  <2>3. Stream' = Stream /\ Knowing' = Knowing
        /\ (conns[peer].phase = "serving")' = served
    BY <1>1 DEF Stream, Knowing
  <2>4. /\ Said'.lost = Said.lost /\ Said'.presence = Said.presence
        /\ Said'.monitor.due \/ Said'.monitor.link = "unknown"
    BY <1>1, <1>2 DEF Said
  <2>5. Told(Stream, served, Said', Knowing)
    BY <2>2, <2>4 DEF Told
  <2> HIDE DEF served
  <2> QED
    BY <2>3, <2>5
<1> QED
  BY <1>1, <1>3, <1>4, SameConns DEF TInv

(* A change of the bus is no news before the next pass sees it.            *)
LEMMA BusChangesHolds == ASSUME IInv, TInv, BusChanges PROVE TInv'
<1>1. UNCHANGED <<nina, presence, monitor, queue, peer, conns, active, rosterIDs, store,
                  thermostat, clean, lost>>
  BY DEF BusChanges, server
<1>2. bus' \in [Nodes -> Presences]
  BY DEF BusChanges, TInv, BusTypeOK
<1>3. BusTypeOK'
  BY <1>1, <1>2 DEF TInv, BusTypeOK
<1>4. SessionInv'
  BY <1>1 DEF TInv, SessionInv, InDataMode, Stream, Said, Knowing
<1> QED
  BY <1>1, <1>3, <1>4, SameConns DEF TInv

(* The session starts with a connection that is new, and tells it all.     *)
LEMMA StartsHolds == ASSUME IInv, TInv, StartsSession PROVE TInv'
<1>1. /\ nina.state = "DataModeSettle" /\ queue' = Opening /\ presence' = bus
      /\ monitor' = [monitor EXCEPT !.due = monitor.link # "unknown"]
      /\ ~lost' /\ nina' = To("DataMode")
      /\ UNCHANGED <<bus, peer, conns, active, rosterIDs, store, thermostat, clean>>
  BY DEF StartsSession, Snapshot, Resend, server
<1>2. nina'.state = "DataMode" /\ nina.state \in Linked \ {"DataMode"}
  BY <1>1, ToState DEF IInv, Linked
<1>3. /\ Opening \in Seq(Frames) /\ Len(Opening) <= QueueSize
      /\ OneEnd(Opening)
      /\ \A n \in Nodes : \A sure, listed, entry :
             Reports(Opening, n, bus[n], FALSE, sure, listed, entry)
  BY OpeningIs DEF TInv, BusTypeOK
<1>4. monitor' \in [link : Links, due : BOOLEAN]
      /\ (monitor'.due \/ monitor'.link = "unknown")
  BY <1>1 DEF TInv, BusTypeOK
<1>5. BusTypeOK'
  <2>1. lost' \in BOOLEAN
    BY DEF StartsSession
  <2> QED
    BY <1>1, <1>3, <1>4, <2>1 DEF TInv, BusTypeOK
<1>6. ServerTypeOK' /\ SlotsOK' /\ OthersSilent'
  BY <1>1 DEF TInv, ServerTypeOK, SlotsOK, OthersSilent
<1>7. Fresh'
  BY <1>2 DEF Fresh
<1>8. SessionInv'
  <2> SUFFICES ASSUME conns[peer].open'
               PROVE  Told(Stream, conns[peer].phase = "serving", Said, Knowing)'
    BY DEF SessionInv
  <2>1. peer \in 1..Slots /\ conns[peer].phase = "greeting" /\ conns[peer].wire = <<>>
    BY <1>1, <1>2, PeerIs DEF TInv, Fresh
  <2>2. conns[peer].chunk = <<>>
    BY <2>1 DEF TInv, SlotsOK, Slot
  <2>3. Stream' = Opening
    BY <1>1, <1>3, <2>1, <2>2, ConcatEmptySeq, EmptySeq DEF Stream
  <2>4. (conns[peer].phase = "serving")' = FALSE
    BY <1>1, <2>1
  <2>5. /\ Said'.presence = bus
        /\ Said'.monitor.due \/ Said'.monitor.link = "unknown"
    BY <1>1, <1>4 DEF Said
  <2> DEFINE k == Knowing'
             s == Said'
  <2> HIDE DEF k, s
  <2>6. Told(Opening, FALSE, s, k)
    BY <1>3, <2>5 DEF Told, s
  <2> QED
    BY <2>3, <2>4, <2>6 DEF s, k
<1> QED
  BY <1>5, <1>6, <1>7, <1>8 DEF TInv

(* Three sequences in a row.                                               *)
LEMMA Regrouped ==
    \A s, t, u \in Seq(Frames) :
        (s \o t) \o u \in Seq(Frames) /\ (s \o t) \o u = s \o (t \o u)
BY ConcatAssociative, ConcatProperties

(* A pass of the relays on the queue: the news, and a status if it fits.   *)
LEMMA PassStages ==
    ASSUME IInv, TInv, Passes
    PROVE  \E full \in Seq(Frames), takes \in Nat :
             /\ Len(full) <= QueueSize /\ takes <= Len(full)
             /\ queue' = SubSeq(full, takes + 1, Len(full))
             /\ conns[peer].open =>
                    /\ takes + Len(conns[peer].wire) <= Ring
                    /\ conns' = [conns EXCEPT ![peer] = [conns[peer] EXCEPT
                           !.wire = conns[peer].wire \o SubSeq(full, 1, takes)]]
                    /\ Told((conns[peer].chunk \o conns[peer].wire) \o full,
                            conns[peer].phase = "serving", Said', Knowing)
             /\ ~conns[peer].open => conns' = conns
             /\ monitor' \in [link : Links, due : BOOLEAN]
<1> DEFINE checked == Staged(queue, PresenceNews)
           fits == StatusFits(checked)
           full == IF fits THEN Staged(checked, <<ThermostatStatus>>) ELSE checked
           wire == conns[peer].wire
           head == conns[peer].chunk \o wire
           served == conns[peer].phase = "serving"
           takes == IF ~conns[peer].open THEN Len(full)
                    ELSE Min({Len(full), Ring - Len(wire)})
<1>1. /\ presence' = bus
      /\ monitor' = [monitor EXCEPT !.due = @ /\ ~fits]
      /\ queue' = SubSeq(full, takes + 1, Len(full))
      /\ conns' = IF conns[peer].open
                  THEN [conns EXCEPT ![peer] = [conns[peer] EXCEPT
                           !.wire = wire \o SubSeq(full, 1, takes)]]
                  ELSE conns
      /\ lost' = (lost \/ Drops(queue, PresenceNews))
      /\ InDataMode
  BY DEF Passes
<1>2. peer \in 1..Slots /\ wire \in Seq(Frames) /\ head \in Seq(Frames)
      /\ Stream \in Seq(Frames) /\ Stream = head \o queue
  BY <1>1, PeerIs DEF InDataMode, Linked, Stream
<1>3. PICK a \in Seq(Frames) :
         /\ checked = queue \o a
         /\ checked \in Seq(Frames) /\ Len(checked) <= QueueSize
         /\ Silent(a) /\ ~EndsRoster(a)
         /\ \A n : \A i \in 1..Len(a) : ~Relays(a[i], n)
         /\ ~Drops(queue, PresenceNews) => a = PresenceNews
  BY NewsStaged DEF TInv
<1>4. monitor \in [link : Links, due : BOOLEAN] /\ lost \in BOOLEAN
      /\ queue \in Seq(Frames)
  BY DEF TInv, BusTypeOK
<1>5. ThermostatStatus \in Frames /\ ThermostatStatus.is = "Thermostat"
      /\ ThermostatStatus.link = monitor.link
  BY <1>4, FrameKinds DEF ThermostatStatus
<1> HIDE DEF checked
<1>6. fits => full = checked \o <<ThermostatStatus>> /\ monitor.due
  <2> SUFFICES ASSUME fits
               PROVE  full = checked \o <<ThermostatStatus>> /\ monitor.due
    OBVIOUS
  <2>1. monitor.due /\ Len(checked) < QueueSize \div 2
    BY DEF StatusFits
  <2>2. Len(checked) + 1 <= QueueSize
    BY <1>3, <2>1, LenProperties, UplinkConstants
  <2>3. <<ThermostatStatus>> \in Seq(Frames) /\ Len(<<ThermostatStatus>>) = 1
    BY <1>5, OneFrame
  <2> QED
    BY <1>3, <2>1, <2>2, <2>3, StagedIs
<1>7. full \in Seq(Frames) /\ Len(full) <= QueueSize /\ Len(full) \in Nat
  <2>1. CASE fits
    <3>1. <<ThermostatStatus>> \in Seq(Frames)
      BY <1>5, OneFrame
    <3> QED
      BY <1>3, <2>1, <3>1, StagedIs, LenProperties
  <2>2. CASE ~fits
    BY <1>3, <2>2, LenProperties
  <2> QED
    BY <2>1, <2>2
<1> HIDE DEF full, fits
<1>8. Len(wire) <= Ring /\ Len(wire) \in Nat /\ Ring \in Nat
  BY <1>2, LenProperties, UplinkConstants DEF TInv, SlotsOK, Slot
<1>9. /\ takes \in Nat /\ takes <= Len(full)
      /\ conns[peer].open => takes + Len(wire) <= Ring
  <2>1. CASE ~conns[peer].open
    BY <1>7, <2>1
  <2>2. CASE conns[peer].open
    <3> DEFINE x == Len(full)
               y == Ring - Len(wire)
    <3>1. x \in Nat /\ y \in Nat
      BY <1>7, <1>8
    <3>2. takes = Min({x, y})
      BY <2>2
    <3>3. \E m \in {x, y} : \A o \in {x, y} : m =< o
      BY <3>1
    <3>4. takes \in {x, y} /\ takes <= x /\ takes <= y
      BY <3>2, <3>3 DEF Min
    <3> QED
      BY <1>7, <1>8, <3>1, <3>4
  <2> QED
    BY <2>1, <2>2
<1>10. ASSUME conns[peer].open PROVE Told(head \o full, served, Said', Knowing)
  <2> DEFINE now == [monitor |-> monitor, presence |-> bus, lost |-> lost']
             told == (head \o queue) \o a
  <2>1. Told(head \o queue, served, Said, Knowing)
    BY <1>1, <1>2, <1>10 DEF TInv, SessionInv
  <2>2. told \in Seq(Frames) /\ told = head \o checked
    <3> HIDE DEF head
    <3>1. head \o queue \in Seq(Frames)
      BY <1>2, <1>4, ConcatProperties
    <3>2. (head \o queue) \o a \in Seq(Frames)
      BY <1>3, <3>1, ConcatProperties
    <3>3. (head \o queue) \o a = head \o (queue \o a)
      BY <1>2, <1>3, <1>4, ConcatAssociative
    <3> QED
      BY <1>3, <3>2, <3>3
  <2>3. Said.monitor = monitor /\ Said.presence = presence /\ Said.lost = lost
    BY DEF Said
  <2>4. Told(told, served, now, Knowing)
    <3>1. ASSUME ~monitor.due, monitor.link # "unknown"
          PROVE  Tells(told, monitor.link, served, Knowing.clean, Knowing.thermostat)
      <4>1. Tells(head \o queue, monitor.link, served, Knowing.clean, Knowing.thermostat)
        BY <2>1, <2>3, <3>1 DEF Told
      <4> QED
        BY <1>2, <1>3, <4>1, TellsMore
    <3>2. ASSUME ~lost'
          PROVE  /\ OneEnd(told)
                 /\ \A n \in Nodes : Reports(told, n, bus[n], served, Knowing.clean,
                                     n \in Knowing.rosterIDs, Knowing.store[n])
      <4>1. ~lost /\ a = PresenceNews
        BY <1>1, <1>3, <3>2
      <4>2. OneEnd(head \o queue)
        BY <2>1, <2>3, <4>1 DEF Told
      <4>3. OneEnd(told)
        BY <1>2, <1>3, <4>2, OneEndMore
      <4>4. ASSUME NEW n \in Nodes
            PROVE  Reports(told, n, bus[n], served, Knowing.clean,
                           n \in Knowing.rosterIDs, Knowing.store[n])
        <5> DEFINE listed == n \in Knowing.rosterIDs
                   entry == Knowing.store[n]
                   sure == Knowing.clean
        <5>1. Reports(head \o queue, n, presence[n], served, sure, listed, entry)
          BY <2>1, <2>3, <4>1 DEF Told
        <5>2. IF Changed(n) THEN LastSet(a, n, bus[n]) ELSE NeverSets(a, n)
          BY <4>1, NewsIs DEF TInv, BusTypeOK
        <5> HIDE DEF listed, entry, sure, served
        <5>3. CASE Changed(n)
          <6>1. LastSet(told, n, bus[n])
            BY <1>2, <1>3, <5>2, <5>3, ReportsNow
          <6> HIDE DEF told
          <6>2. Reports(told, n, bus[n], served, sure, listed, entry)
            BY <6>1 DEF Reports
          <6> QED
            BY <6>2 DEF listed, entry, sure
        <5>4. CASE ~Changed(n)
          <6>1. bus[n] = presence[n]
            BY <5>4 DEF Changed
          <6>2. Reports(told, n, bus[n], served, sure, listed, entry)
            BY <1>2, <1>3, <5>1, <5>2, <5>4, <6>1, ReportsMore
          <6> QED
            BY <6>2 DEF listed, entry, sure
        <5> QED
          BY <5>3, <5>4
      <4> QED
        BY <4>3, <4>4
    <3>3. now.monitor = monitor /\ now.presence = bus /\ now.lost = lost'
      OBVIOUS
    <3> HIDE DEF now, told, served
    <3> QED
      BY <3>1, <3>2, <3>3 DEF Told
  <2>5. /\ Said'.presence = bus /\ Said'.lost = lost'
        /\ Said'.monitor = monitor'
        /\ now.presence = bus /\ now.lost = lost' /\ now.monitor = monitor
    BY <1>1 DEF Said
  <2>6. monitor'.link = monitor.link /\ (~fits => monitor' = monitor)
    BY <1>1, <1>4
  <2> HIDE DEF now, told, served
  <2>7. CASE fits
    <3>1. head \o full = told \o <<ThermostatStatus>>
      <4>1. <<ThermostatStatus>> \in Seq(Frames)
        BY <1>5, OneFrame
      <4> QED
        <5> HIDE DEF head
        <5>1. (head \o checked) \o <<ThermostatStatus>>
                  = head \o (checked \o <<ThermostatStatus>>)
          BY <1>2, <1>3, <4>1, ConcatAssociative
        <5> QED
          BY <1>6, <2>2, <2>7, <5>1
    <3> DEFINE then == Said'
    <3>2. /\ then.monitor.link = now.monitor.link
          /\ then.presence = now.presence /\ then.lost = now.lost
      BY <2>5, <2>6
    <3> HIDE DEF then
    <3>3. Told(told \o <<ThermostatStatus>>, served, then, Knowing)
      BY <1>5, <2>2, <2>4, <2>5, <3>2, ToldStatus
    <3> QED
      BY <3>1, <3>3 DEF then
  <2>8. CASE ~fits
    <3>1. head \o full = told
      BY <2>2, <2>8 DEF full
    <3>2. /\ Said'.monitor = now.monitor
          /\ Said'.presence = now.presence /\ Said'.lost = now.lost
      BY <2>5, <2>6, <2>8
    <3>3. Told(told, served, Said', Knowing)
      BY <2>4, <3>2 DEF Told
    <3> QED
      BY <3>1, <3>3
  <2> QED
    BY <2>7, <2>8
<1>11. monitor' \in [link : Links, due : BOOLEAN]
  <2>1. (monitor.due /\ ~fits) \in BOOLEAN
    OBVIOUS
  <2> QED
    BY <1>1, <1>4, <2>1
<1> HIDE DEF takes
<1> QED
  BY <1>1, <1>7, <1>9, <1>10, <1>11

(* DrainDataMode().                                                        *)
LEMMA PassesHolds == ASSUME IInv, TInv, Passes PROVE TInv'
<1>1. PICK full \in Seq(Frames), takes \in Nat :
             /\ Len(full) <= QueueSize /\ takes <= Len(full)
             /\ queue' = SubSeq(full, takes + 1, Len(full))
             /\ conns[peer].open =>
                    /\ takes + Len(conns[peer].wire) <= Ring
                    /\ conns' = [conns EXCEPT ![peer] = [conns[peer] EXCEPT
                           !.wire = conns[peer].wire \o SubSeq(full, 1, takes)]]
                    /\ Told((conns[peer].chunk \o conns[peer].wire) \o full,
                            conns[peer].phase = "serving", Said', Knowing)
             /\ ~conns[peer].open => conns' = conns
             /\ monitor' \in [link : Links, due : BOOLEAN]
  BY PassStages
<1>2. /\ InDataMode /\ presence' = bus /\ (lost' = (lost \/ Drops(queue, PresenceNews)))
      /\ UNCHANGED <<nina, bus, peer, active, rosterIDs, store, thermostat, clean>>
  BY DEF Passes, link, server
<1>3. nina.state \in Linked /\ InDataMode'
  BY <1>2 DEF InDataMode, Linked
<1> DEFINE x == SubSeq(full, 1, takes)
           y == SubSeq(full, takes + 1, Len(full))
           wire == conns[peer].wire
           chunk == conns[peer].chunk
<1>4. /\ peer \in 1..Slots /\ wire \in Seq(Frames) /\ chunk \in Seq(Frames)
      /\ chunk \o wire \in Seq(Frames)
  BY <1>3, PeerIs
<1>5. Len(full) \in Nat /\ \A i \in 1..Len(full) : full[i] \in Frames
  BY LenProperties, ElementOfSeq
<1>6. x \in Seq(Frames) /\ Len(x) = takes
  <2>1. \A i \in 1..takes : full[i] \in Frames
    BY <1>1, <1>5
  <2>2. x \in Seq(Frames) /\ Len(x) = IF 1 <= takes THEN takes - 1 + 1 ELSE 0
    BY <2>1, SubSeqProperties
  <2> QED
    BY <2>2
<1>7. y \in Seq(Frames) /\ Len(y) <= QueueSize
  <2>1. \A i \in (takes + 1)..Len(full) : full[i] \in Frames
    BY <1>5
  <2>2. takes + 1 \in Int /\ Len(full) \in Int
    BY <1>5
  <2>3. /\ y \in Seq(Frames)
        /\ Len(y) = IF takes + 1 <= Len(full) THEN Len(full) - (takes + 1) + 1 ELSE 0
    BY <2>1, <2>2, SubSeqProperties
  <2> QED
    BY <1>1, <1>5, <2>3, UplinkConstants
<1>8. x \o y = full
  <2>1. 1 \in 1..(Len(full) + 1) /\ takes \in (1 - 1)..Len(full)
        /\ Len(full) \in takes..Len(full)
    BY <1>1, <1>5
  <2>2. x \o y = SubSeq(full, 1, Len(full))
    BY <2>1, ConcatAdjacentSubSeq
  <2> QED
    BY <2>2, SubSeqFull
<1> HIDE DEF x, y
<1>9. BusTypeOK'
  <2>1. lost' \in BOOLEAN
    BY <1>2 DEF TInv, BusTypeOK, Drops
  <2> QED
    BY <1>1, <1>2, <1>7, <2>1 DEF TInv, BusTypeOK, y
<1>10. CASE ~conns[peer].open
  <2>1. UNCHANGED <<nina, peer, conns, active, rosterIDs, store, thermostat, clean>>
    BY <1>1, <1>2, <1>10
  <2>2. SessionInv'
    BY <1>10, <2>1 DEF SessionInv
  <2> QED
    BY <1>9, <2>1, <2>2, SameConns DEF TInv
<1>11. CASE conns[peer].open
  <2> DEFINE r == [conns[peer] EXCEPT !.wire = wire \o x]
  <2>1. conns' = [conns EXCEPT ![peer] = r]
    BY <1>1, <1>11 DEF x
  <2>2. wire \o x \in Seq(Frames) /\ Len(wire \o x) <= Ring
    <3>1. wire \o x \in Seq(Frames) /\ Len(wire \o x) = Len(wire) + Len(x)
      BY <1>4, <1>6, ConcatProperties
    <3>2. takes + Len(wire) <= Ring
      BY <1>1, <1>11
    <3>3. Len(wire) \in Nat /\ Ring \in Nat
      BY <1>4, LenProperties, UplinkConstants
    <3> QED
      BY <1>6, <3>1, <3>2, <3>3
  <2>3. conns[peer] \in Connections /\ Slot(conns[peer], peer = active)
    BY <1>4, Typed DEF TInv, SlotsOK
  <2>4. r \in Connections
    <3> DEFINE v == wire \o x
               b == conns[peer]
    <3>1. v \in Seq(Frames) /\ b \in Connections
      BY <2>2, <2>3
    <3> HIDE DEF v, b
    <3>2. [b EXCEPT !.wire = v] \in Connections
      BY <3>1 DEF Connections
    <3> QED
      BY <3>2 DEF v, b
  <2>5. /\ r.phase = conns[peer].phase /\ r.open = conns[peer].open
        /\ r.wire = wire \o x /\ r.chunk = chunk
    BY <2>3, WireEdited
  <2> HIDE DEF r
  <2>6. Slot(r, peer = active)
    BY <1>11, <2>2, <2>3, <2>5 DEF Slot
  <2>7. active \in 0..Slots
    BY DEF IInv, ServerOK, ActiveOK
  <2>8. /\ conns' \in [1..Slots -> Connections] /\ conns'[peer] = r
        /\ SlotsOK' /\ OthersSilent'
    BY <1>2, <1>4, <2>1, <2>4, <2>5, <2>6, <2>7, OneConn DEF TInv
  <2>9. ServerTypeOK'
    BY <1>2, <2>8 DEF TInv, ServerTypeOK
  <2>10. Fresh'
    BY <1>3 DEF Fresh, InDataMode
  <2>11. Stream' = (chunk \o wire) \o full
    <3>1. Stream' = (chunk \o (wire \o x)) \o y
      BY <1>1, <1>2, <2>5, <2>8 DEF Stream, y
    <3>6. chunk \in Seq(Frames) /\ wire \in Seq(Frames) /\ x \in Seq(Frames)
      BY <1>4, <1>6
    <3> HIDE DEF chunk, wire
    <3>2. chunk \o (wire \o x) = (chunk \o wire) \o x
      BY <3>6, Regrouped
    <3> DEFINE h == chunk \o wire
    <3>3. h \in Seq(Frames) /\ x \in Seq(Frames) /\ y \in Seq(Frames)
      BY <1>4, <1>6, <1>7
    <3>5. Stream' = (h \o x) \o y
      BY <3>1, <3>2
    <3> HIDE DEF h
    <3>4. (h \o x) \o y = h \o (x \o y)
      BY <3>3, ConcatAssociative
    <3> QED
      BY <1>8, <3>4, <3>5 DEF h
  <2>12. Knowing' = Knowing /\ (conns[peer].phase = "serving")' = (conns[peer].phase = "serving")
    BY <1>2, <2>5, <2>8 DEF Knowing
  <2>13. SessionInv'
    <3>1. Told(Stream', conns[peer].phase = "serving", Said', Knowing)
      BY <1>1, <1>11, <2>11
    <3> QED
      BY <2>12, <3>1 DEF SessionInv
  <2> QED
    BY <1>9, <2>8, <2>9, <2>10, <2>13 DEF TInv
<1> QED
  BY <1>10, <1>11

-----------------------------------------------------------------------------
(* Making and losing the link.                                             *)

(* Outside a session only the connections matter.                          *)
LEMMA NoSession ==
    ASSUME TInv, nina'.state # "DataMode",
           UNCHANGED <<bus, presence, monitor, rosterIDs, store, thermostat, clean, lost>>,
           queue' \in Seq(Frames), Len(queue') <= QueueSize,
           conns' \in [1..Slots -> Connections], SlotsOK', OthersSilent', Fresh'
    PROVE  TInv'
BY DEF TInv, BusTypeOK, ServerTypeOK, SessionInv, InDataMode

(* A link that fails ends its session.                                     *)
LEMMA HangUpHolds ==
    ASSUME IInv, TInv, HangsUp, nina'.state = "Backoff",
           UNCHANGED <<bus, presence, monitor, server, lost>>,
           queue' \in Seq(Frames), Len(queue') <= QueueSize
    PROVE  TInv'
<1>1. UNCHANGED <<active, rosterIDs, store, thermostat, clean>>
  BY DEF server
<1>2. Fresh'
  BY DEF Fresh, Linked
<1>3. /\ conns' \in [1..Slots -> Connections] /\ SlotsOK' /\ OthersSilent'
  <2>1. CASE peer = 0
    <3>1. conns' = conns
      BY <2>1 DEF HangsUp
    <3> QED
      BY <1>1, <3>1 DEF TInv, ServerTypeOK, SlotsOK, OthersSilent
  <2>2. CASE peer # 0
    <3> DEFINE r == [conns[peer] EXCEPT !.open = FALSE]
    <3>1. peer \in 1..Slots /\ active \in 0..Slots
      BY <2>2, UplinkConstants DEF IInv, PeerOK, ServerOK, ActiveOK
    <3>2. conns' = [conns EXCEPT ![peer] = r]
      BY <2>2 DEF HangsUp
    <3>3. conns[peer] \in Connections /\ Slot(conns[peer], peer = active)
      BY <3>1, Typed DEF TInv, SlotsOK
    <3>5. /\ r \in Connections /\ r.phase = conns[peer].phase /\ ~r.open
          /\ r.wire = conns[peer].wire /\ r.chunk = conns[peer].chunk
      BY <3>3, OpenEdited
    <3> HIDE DEF r
    <3>6. Slot(r, peer = active)
      BY <3>3, <3>5 DEF Slot
    <3> QED
      BY <1>1, <3>1, <3>2, <3>5, <3>6, OneConn DEF TInv
  <2> QED
    BY <2>1, <2>2
<1> QED
  BY <1>1, <1>2, <1>3, NoSession

(* None of the bring-up's steps but the last leads into a session.         *)
LEMMA LeadsOn ==
    ASSUME IInv, \/ CommandAnswered \/ Waits \/ CannotDial \/ PeerAnswers
                 \/ PeerFails \/ WifiChanges
    PROVE  /\ nina'.state # "DataMode"
           /\ \/ nina'.state = "Backoff" /\ HangsUp
              \/ /\ UNCHANGED <<peer, conns>>
                 /\ nina'.state \in Linked => nina.state \in Linked \ {"DataMode"}
<1> USE DEF IInv
<1>1. CASE CommandAnswered
  <2>1. nina.state \in Commands \ {"ConnectingPeer"} /\ (Accepted \/ Refused)
        /\ HangsUpIfFailed
    BY <1>1 DEF CommandAnswered
  <2>2. nina.state # "DataMode"
    BY <2>1 DEF Commands, Follows
  <2>3. CASE Accepted
    <3>1. nina'.state \in Linked => nina.state \in Linked
      BY <2>1, <2>3, AcceptedState
    <3>2. nina'.state # "DataMode"
      <4>1. \/ nina' = To("CheckingBluetooth")
            \/ nina' \in {To("DisablingBluetooth"), To("ConfiguringSsid")}
            \/ nina' = [To("ActivatingWifi") EXCEPT !.events = Discarded(@)]
            \/ nina' = To(Follows[nina.state]) /\ nina.state \in DOMAIN Follows
        <5>1. CASE nina.state = "ProbingAt"
          BY <2>3, <5>1 DEF Accepted
        <5>2. CASE nina.state = "CheckingBluetooth"
          BY <2>3, <5>2 DEF Accepted
        <5>3. CASE nina.state = "ConfiguringPsk"
          BY <2>3, <5>3 DEF Accepted
        <5>4. CASE nina.state \notin {"ProbingAt", "CheckingBluetooth", "ConfiguringPsk"}
          <6>1. nina.state \in DOMAIN Follows
            BY <2>1, <5>4 DEF Commands
          <6>2. nina' = To(Follows[nina.state])
            BY <2>3, <5>4 DEF Accepted
          <6> QED
            BY <6>1, <6>2
        <5> QED
          BY <5>1, <5>2, <5>3, <5>4
      <4>2. \A s \in DOMAIN Follows : Follows[s] # "DataMode"
        BY DEF Follows
      <4>3. \A s, e : To(s).state = s /\ [To(s) EXCEPT !.events = e].state = s
        BY ToState
      <4>4. CASE nina' = To(Follows[nina.state]) /\ nina.state \in DOMAIN Follows
        <5>1. nina'.state = Follows[nina.state]
          BY <4>3, <4>4
        <5> QED
          BY <4>2, <4>4, <5>1
      <4>5. CASE nina' = [To("ActivatingWifi") EXCEPT !.events = Discarded(@)]
        <5>1. nina'.state = "ActivatingWifi"
          BY <4>5, ToState
        <5> QED
          BY <5>1
      <4>6. CASE nina' \in {To("CheckingBluetooth"), To("DisablingBluetooth"),
                            To("ConfiguringSsid")}
        BY <4>3, <4>6
      <4> QED
        BY <4>1, <4>4, <4>5, <4>6
    <3> QED
      BY <2>1, <2>2, <3>1, <3>2 DEF HangsUpIfFailed
  <2>4. CASE Refused
    <3>1. nina'.state \in {nina.state, "ConfiguringSsid", "Backoff"}
      BY <2>4, RefusedState
    <3> QED
      BY <2>1, <2>2, <3>1 DEF HangsUpIfFailed, Linked
  <2> QED
    BY <2>1, <2>3, <2>4
<1>2. CASE Waits
  <2>1. UNCHANGED <<peer, conns>>
    BY <1>2 DEF Waits
  <2>2. nina'.state \notin Linked
    <3>1. CASE Boots
      BY <3>1, ToState DEF Boots, Linked
    <3>2. CASE NetworkComesUp
      BY <3>2, ToState DEF NetworkComesUp, Drained, Linked
    <3>3. CASE NetworkStaysDown
      BY <3>3, FailState DEF NetworkStaysDown, Linked
    <3>4. CASE NetworkSettles
      BY <3>4, ToState DEF NetworkSettles, Drained, Linked
    <3> QED
      BY <1>2, <3>1, <3>2, <3>3, <3>4 DEF Waits
  <2> QED
    BY <2>1, <2>2 DEF Linked
<1>3. CASE CannotDial
  BY <1>3, RefusedState DEF CannotDial, Linked
<1>4. CASE PeerAnswers
  <2>1. CASE Fail /\ HangsUp
    BY <2>1, FailState
  <2>2. CASE /\ UNCHANGED <<peer, conns>>
             /\ nina' \in {Drained("EnteringDataMode"), [nina EXCEPT !.events = <<>>]}
    <3>2. nina.state = "WaitingPeerConnected"
      BY <1>4 DEF PeerAnswers
    <3>3. \A s, e : [To(s) EXCEPT !.events = e].state = s
      BY ToState
    <3>4. \A e : [nina EXCEPT !.events = e].state = nina.state
      BY ToState
    <3>1. nina'.state \in {"EnteringDataMode", "WaitingPeerConnected"}
      <4>1. CASE nina' = Drained("EnteringDataMode")
        BY <3>3, <4>1 DEF Drained
      <4>2. CASE nina' = [nina EXCEPT !.events = <<>>]
        BY <3>2, <3>4, <4>2
      <4> QED
        BY <2>2, <4>1, <4>2
    <3> QED
      BY <2>2, <3>1, <3>2 DEF Linked
  <2> QED
    BY <1>4, <2>1, <2>2 DEF PeerAnswers
<1>5. CASE PeerFails
  BY <1>5, FailState DEF PeerFails
<1>6. CASE WifiChanges
  <2>1. nina.state \in OnWifi /\ nina'.state = nina.state /\ UNCHANGED <<peer, conns>>
    BY <1>6, ToState DEF WifiChanges, Joins, LosesNetwork, NetworkIs
  <2> QED
    BY <2>1 DEF OnWifi, Linked
<1> QED
  BY <1>1, <1>2, <1>3, <1>4, <1>5, <1>6

(* The steps of the bring-up but dialling and starting the session.        *)
LEMMA LinkStepsHold ==
    ASSUME IInv, TInv, \/ CommandAnswered \/ Waits \/ CannotDial \/ PeerAnswers
                       \/ PeerFails \/ WifiChanges
    PROVE  TInv'
<1>1. UNCHANGED <<bus, presence, monitor, queue, server, lost>>
  BY DEF CommandAnswered, Waits, CannotDial, PeerAnswers, PeerFails, WifiChanges, master
<1>2. queue' \in Seq(Frames) /\ Len(queue') <= QueueSize
  BY <1>1 DEF TInv, BusTypeOK
<1>3. CASE nina'.state = "Backoff" /\ HangsUp
  BY <1>1, <1>2, <1>3, HangUpHolds
<1>4. CASE /\ UNCHANGED <<peer, conns>>
           /\ nina'.state \in Linked => nina.state \in Linked \ {"DataMode"}
  <2>1. UNCHANGED <<active, rosterIDs, store, thermostat, clean>>
    BY <1>1 DEF server
  <2>2. Fresh'
    BY <1>4 DEF TInv, Fresh
  <2>3. /\ conns' \in [1..Slots -> Connections] /\ SlotsOK' /\ OthersSilent'
    BY <1>4, <2>1 DEF TInv, ServerTypeOK, SlotsOK, OthersSilent
  <2> QED
    BY <1>1, <1>2, <2>1, <2>2, <2>3, LeadsOn, NoSession
<1> QED
  BY <1>3, <1>4, LeadsOn

(* A keepalive that is not answered.                                       *)
LEMMA KeepaliveFailsHolds == ASSUME IInv, TInv, KeepaliveFails PROVE TInv'
<1>1. HangsUp /\ queue' = Staged(queue, <<Keepalive>>)
      /\ UNCHANGED <<bus, presence, monitor, server, lost>>
  BY DEF KeepaliveFails
<1>2. nina'.state = "Backoff"
  BY FailState DEF KeepaliveFails
<1>3. queue' \in Seq(Frames) /\ Len(queue') <= QueueSize
  BY <1>1, FrameKinds, OneStaged DEF TInv
<1> QED
  BY <1>1, <1>2, <1>3, HangUpHolds

(* A new connection takes a free slot.                                     *)
LEMMA DialsHolds == ASSUME IInv, TInv, Dials PROVE TInv'
<1> DEFINE r == [NoConn EXCEPT !.phase = "greeting", !.open = TRUE]
<1>1. PICK c \in 1..Slots :
          conns[c].phase = "free" /\ conns' = [conns EXCEPT ![c] = r] /\ peer' = c
  BY DEF Dials
<1>2. /\ r \in Connections /\ r.phase = "greeting" /\ r.open
      /\ r.wire = <<>> /\ r.chunk = <<>>
  BY EmptySeq DEF NoConn, Connections, Phases
<1> HIDE DEF r
<1>3. Slot(r, c = active)
  BY <1>2, EmptySeq, UplinkConstants DEF Slot
<1>4. UNCHANGED <<bus, presence, monitor, queue, active, rosterIDs, store, thermostat,
                  clean, lost>>
  BY DEF Dials, master, server
<1>5. active \in 0..Slots
  BY DEF IInv, ServerOK, ActiveOK
<1>6. /\ conns' \in [1..Slots -> Connections] /\ conns'[c] = r
      /\ SlotsOK' /\ OthersSilent'
  BY <1>1, <1>2, <1>3, <1>4, <1>5, OneConn DEF TInv
<1>7. nina'.state # "DataMode"
  BY ToState DEF Dials, IInv
<1>8. Fresh'
  BY <1>1, <1>2, <1>6 DEF Fresh
<1>9. queue' \in Seq(Frames) /\ Len(queue') <= QueueSize
  BY <1>4 DEF TInv, BusTypeOK
<1> QED
  BY <1>4, <1>6, <1>7, <1>8, <1>9, NoSession

(* A connection that is lost, or all of them, and the answer to a          *)
(* keepalive, which says nothing.                                          *)
LEMMA LinkDiesHolds == ASSUME IInv, TInv, LinkDies PROVE TInv'
<1>1. peer # 0 /\ UNCHANGED <<nina, bus, presence, monitor, queue, peer, active,
                              rosterIDs, store, thermostat, clean, lost>>
  BY DEF LinkDies, master, server
<1>2. PICK w \in {conns[peer].wire, <<>>} :
          conns' = [conns EXCEPT ![peer].open = FALSE, ![peer].back = FALSE,
                                 ![peer].wire = w]
  BY DEF LinkDies
<1> DEFINE r1 == [conns[peer] EXCEPT !.open = FALSE]
           r2 == [r1 EXCEPT !.back = FALSE]
           r3 == [r2 EXCEPT !.wire = w]
<1>3. peer \in 1..Slots /\ active \in 0..Slots
  BY <1>1, UplinkConstants DEF IInv, PeerOK, ServerOK, ActiveOK
<1>4. conns[peer] \in Connections /\ Slot(conns[peer], peer = active)
      /\ conns \in [1..Slots -> Connections] /\ conns[peer].wire \in Seq(Frames)
  BY <1>3, Typed DEF TInv, SlotsOK, ServerTypeOK
<1>5. conns' = [conns EXCEPT ![peer] = r3]
  BY <1>2, <1>3, <1>4
<1>6. /\ r1 \in Connections
      /\ r1.phase = conns[peer].phase /\ ~r1.open
      /\ r1.wire = conns[peer].wire /\ r1.chunk = conns[peer].chunk
  BY <1>4, OpenEdited
<1> HIDE DEF r1
<1>7. /\ r2 \in Connections
      /\ r2.phase = conns[peer].phase /\ ~r2.open
      /\ r2.wire = conns[peer].wire /\ r2.chunk = conns[peer].chunk
  BY <1>6, BackEdited
<1> HIDE DEF r2
<1>8. /\ r3 \in Connections
      /\ r3.phase = conns[peer].phase /\ ~r3.open
      /\ r3.wire = w /\ r3.chunk = conns[peer].chunk
  <2>1. w \in Seq(Frames)
    BY <1>2, <1>4, EmptySeq
  <2> QED
    BY <1>7, <2>1, WireEdited
<1> HIDE DEF r3
<1>9. Slot(r3, peer = active)
  BY <1>2, <1>4, <1>8, EmptySeq, UplinkConstants DEF Slot
<1>10. /\ conns' \in [1..Slots -> Connections] /\ conns'[peer] = r3
       /\ SlotsOK' /\ OthersSilent'
  BY <1>1, <1>3, <1>5, <1>8, <1>9, OneConn DEF TInv
<1>11. Fresh' /\ SessionInv'
  BY <1>1, <1>8, <1>10 DEF Fresh, SessionInv
<1> QED
  BY <1>1, <1>10, <1>11 DEF TInv, BusTypeOK, ServerTypeOK

(* The server starts again: what is known of the nodes is kept.            *)
LEMMA RestartHolds == ASSUME IInv, TInv, ServerRestarts PROVE TInv'
<1>1. /\ conns' = [c \in 1..Slots |-> NoConn] /\ active' = 0 /\ rosterIDs' = {}
      /\ UNCHANGED <<nina, bus, presence, monitor, queue, peer, store, thermostat,
                     clean, lost>>
  BY DEF ServerRestarts, master
<1>2. conns' \in [1..Slots -> Connections] /\ SlotsOK' /\ OthersSilent'
  BY <1>1, NoConnection DEF SlotsOK, OthersSilent
<1>3. BusTypeOK' /\ ServerTypeOK'
  BY <1>1, <1>2 DEF TInv, BusTypeOK, ServerTypeOK
<1>4. nina.state \in Linked => ~conns'[peer'].open
  BY <1>1, NoConnection, PeerIs
<1>5. Fresh' /\ SessionInv'
  BY <1>1, <1>4 DEF Fresh, SessionInv, InDataMode, Linked
<1> QED
  BY <1>2, <1>3, <1>5 DEF TInv

(* The answer to a keepalive.                                              *)
LEMMA AnsweredHolds == ASSUME IInv, TInv, KeepaliveAnswered PROVE TInv'
<1>1. InDataMode /\ UNCHANGED <<nina, bus, presence, monitor, queue, peer, active,
                                rosterIDs, store, thermostat, clean, lost>>
  BY DEF KeepaliveAnswered, link, server
<1> DEFINE r == [conns[peer] EXCEPT !.back = FALSE]
<1>2. conns' = [conns EXCEPT ![peer] = r]
  BY DEF KeepaliveAnswered
<1>3. peer \in 1..Slots /\ active \in 0..Slots
  BY <1>1, PeerIs DEF InDataMode, Linked, IInv, ServerOK, ActiveOK
<1>4. conns[peer] \in Connections /\ Slot(conns[peer], peer = active)
  BY <1>3, Typed DEF TInv, SlotsOK
<1>5. /\ r \in Connections
      /\ r.phase = conns[peer].phase /\ r.open = conns[peer].open
      /\ r.wire = conns[peer].wire /\ r.chunk = conns[peer].chunk
  BY <1>4, BackEdited
<1> HIDE DEF r
<1>6. Slot(r, peer = active)
  BY <1>4, <1>5 DEF Slot
<1>7. /\ conns' \in [1..Slots -> Connections] /\ conns'[peer] = r
      /\ SlotsOK' /\ OthersSilent'
  BY <1>1, <1>2, <1>3, <1>5, <1>6, OneConn DEF TInv
<1>8. Stream' = Stream /\ Said' = Said /\ Knowing' = Knowing
  BY <1>1, <1>5, <1>7 DEF Stream, Said, Knowing
<1>9. SessionInv'
  BY <1>1, <1>5, <1>7, <1>8 DEF TInv, SessionInv, InDataMode
<1>10. Fresh'
  BY <1>1 DEF Fresh, InDataMode
<1> QED
  BY <1>1, <1>7, <1>9, <1>10 DEF TInv, BusTypeOK, ServerTypeOK

-----------------------------------------------------------------------------
(* What the server does.                                                   *)

(* Taking the first of two sequences in a row.                             *)
LEMMA TailOfBoth ==
    ASSUME NEW s \in Seq(Frames), s # <<>>, NEW t \in Seq(Frames)
    PROVE  /\ s \o t \in Seq(Frames) /\ s \o t # <<>>
           /\ Head(s \o t) = Head(s)
           /\ Tail(s \o t) = Tail(s) \o t
<1>1. /\ Len(s) \in Nat \ {0} /\ Head(s) = s[1]
      /\ Tail(s) \in Seq(Frames) /\ Len(Tail(s)) = Len(s) - 1
      /\ \A i \in 1..Len(Tail(s)) : Tail(s)[i] = s[i + 1]
  BY Behind
<1>2. /\ s \o t \in Seq(Frames) /\ Len(s \o t) = Len(s) + Len(t) /\ Len(t) \in Nat
      /\ \A i \in 1..Len(s) : (s \o t)[i] = s[i]
      /\ \A i \in 1..Len(t) : (s \o t)[Len(s) + i] = t[i]
  BY Joined
<1> DEFINE st == s \o t
<1> HIDE DEF st
<1>3. /\ st \in Seq(Frames) /\ Len(st) = Len(s) + Len(t)
      /\ \A i \in 1..Len(s) : st[i] = s[i]
      /\ \A i \in 1..Len(t) : st[Len(s) + i] = t[i]
  BY <1>2 DEF st
<1>4. st # <<>>
  BY <1>1, <1>2, <1>3, EmptySeq
<1>5. /\ Head(st) = st[1] /\ Tail(st) \in Seq(Frames) /\ Len(Tail(st)) = Len(st) - 1
      /\ \A i \in 1..Len(Tail(st)) : Tail(st)[i] = st[i + 1]
  BY <1>3, <1>4, Behind
<1>6. Head(st) = Head(s)
  BY <1>1, <1>3, <1>5
<1> DEFINE r == Tail(s)
<1> HIDE DEF r
<1>7. /\ r \o t \in Seq(Frames) /\ Len(r \o t) = Len(r) + Len(t)
      /\ \A i \in 1..Len(r) : (r \o t)[i] = r[i]
      /\ \A i \in 1..(Len(r) + Len(t)) :
             \/ i \in 1..Len(r)
             \/ i - Len(r) \in 1..Len(t) /\ (r \o t)[i] = t[i - Len(r)]
  BY <1>1, Joined DEF r
<1>8. Len(Tail(st)) = Len(r \o t)
  BY <1>1, <1>2, <1>3, <1>5, <1>7 DEF r
<1>9. ASSUME NEW i \in 1..Len(Tail(st)) PROVE Tail(st)[i] = (r \o t)[i]
  <2>1. Tail(st)[i] = st[i + 1]
    BY <1>5
  <2>2. CASE i \in 1..Len(r)
    <3>1. (r \o t)[i] = s[i + 1] /\ i + 1 \in 1..Len(s)
      BY <1>1, <1>7, <2>2 DEF r
    <3> QED
      BY <1>3, <2>1, <3>1
  <2>3. CASE i \notin 1..Len(r)
    <3> DEFINE m == i - Len(r)
    <3>1. m \in 1..Len(t) /\ (r \o t)[i] = t[m]
      BY <1>7, <1>8, <2>3
    <3>2. i + 1 = Len(s) + m
      <4>1. i \in Int /\ Len(r) = Len(s) - 1 /\ Len(s) \in Int
        BY <1>1 DEF r
      <4> QED
        BY <4>1
    <3> HIDE DEF m
    <3>3. st[Len(s) + m] = t[m]
      BY <1>3, <3>1
    <3> QED
      BY <2>1, <3>1, <3>2, <3>3
  <2> QED
    BY <2>2, <2>3
<1>10. Tail(st) = r \o t
  BY <1>5, <1>7, <1>8, <1>9, SeqEqual
<1> QED
  BY <1>3, <1>4, <1>6, <1>10 DEF st, r

(* The module's connection is as it was, or is closed; and what changed    *)
(* that the server knows does not matter to it.                            *)
LEMMA PeerKept ==
    ASSUME IInv, TInv, ServerOnly,
           peer \in 1..Slots =>
               \/ ~conns'[peer].open
               \/ /\ conns'[peer].open = conns[peer].open
                  /\ (conns'[peer].phase = "serving") = (conns[peer].phase = "serving")
                  /\ conns[peer].phase = "greeting" /\ conns[peer].wire = <<>> =>
                         conns'[peer].phase = "greeting" /\ conns'[peer].wire = <<>>
                  /\ Stream' = Stream
                  /\ \/ Knowing' = Knowing
                     \/ conns[peer].open /\ conns[peer].phase = "serving" =>
                            ~clean /\ ~clean'
    PROVE  Fresh' /\ SessionInv'
<1>1. UNCHANGED <<nina, bus, presence, monitor, queue, peer, lost>>
  BY DEF ServerOnly, link, master
<1>2. nina.state \in Linked => peer \in 1..Slots
  BY PeerIs
<1>3. Fresh'
  BY <1>1, <1>2 DEF TInv, Fresh
<1>4. SessionInv'
  <2> SUFFICES ASSUME InDataMode', conns'[peer'].open
               PROVE  Told(Stream, conns[peer].phase = "serving", Said, Knowing)'
    BY DEF SessionInv
  <2> DEFINE served == conns[peer].phase = "serving"
             k == Knowing
             kk == Knowing'
  <2>1. InDataMode /\ peer \in 1..Slots /\ conns'[peer].open
    BY <1>1, <1>2 DEF InDataMode, Linked
  <2>2. /\ conns[peer].open /\ (conns[peer].phase = "serving")' = served
        /\ Stream' = Stream
        /\ kk = k \/ (served => ~clean /\ ~clean')
    BY <1>1, <2>1
  <2>3. Told(Stream, served, Said, k)
    BY <2>1, <2>2 DEF TInv, SessionInv
  <2>4. Said' = Said /\ k.clean = clean /\ kk.clean = clean'
    BY <1>1 DEF Said, Knowing
  <2>5. served \in BOOLEAN
    OBVIOUS
  <2> HIDE DEF served, k, kk
  <2>6. Told(Stream, served, Said, kk)
    <3>1. CASE kk = k
      BY <2>3, <3>1
    <3>2. CASE served => ~clean /\ ~clean'
      BY <2>3, <2>4, <2>5, <3>2, ToldAnew
    <3> QED
      BY <2>2, <3>1, <3>2
  <2> QED
    BY <2>2, <2>4, <2>6 DEF kk
<1> QED
  BY <1>3, <1>4

(* With the rest of the invariant that is all.                             *)
LEMMA ServerKept ==
    ASSUME TInv, ServerOnly, conns' \in [1..Slots -> Connections],
           rosterIDs' \in SUBSET Nodes, thermostat' \in Links, clean' \in BOOLEAN,
           store' \in [Nodes -> [online : BOOLEAN, boot : BOOLEAN]],
           SlotsOK', OthersSilent', Fresh', SessionInv'
    PROVE  TInv'
BY DEF TInv, BusTypeOK, ServerTypeOK, ServerOnly, link, master

(* A connection that goes.                                                 *)
LEMMA Goes ==
    ASSUME IInv, TInv, ServerOnly, NEW c \in 1..Slots,
           conns' = [conns EXCEPT ![c] = NoConn],
           rosterIDs' \in SUBSET Nodes,
           UNCHANGED <<active, store, thermostat, clean>>,
           \/ rosterIDs' = rosterIDs
           \/ active # 0 /\ conns[active].phase = "serving" => ~clean
    PROVE  TInv'
<1>1. active \in 0..Slots
  BY DEF IInv, ServerOK, ActiveOK
<1>2. /\ conns' \in [1..Slots -> Connections]
      /\ conns'[c] = NoConn
      /\ \A d \in 1..Slots \ {c} : conns'[d] = conns[d]
      /\ SlotsOK' /\ OthersSilent'
  BY <1>1, NoConnection, OneConn DEF TInv
<1>3. peer' = peer /\ queue' = queue
  BY DEF ServerOnly, master
<1>4. ASSUME peer \in 1..Slots
      PROVE  \/ ~conns'[peer].open
             \/ /\ conns'[peer] = conns[peer] /\ Stream' = Stream
                /\ \/ Knowing' = Knowing
                   \/ conns[peer].open /\ conns[peer].phase = "serving" =>
                            ~clean /\ ~clean'
  <2>1. CASE peer = c
    BY <1>2, <2>1, NoConnection
  <2>2. CASE peer # c
    <3>1. conns'[peer] = conns[peer] /\ Stream' = Stream
      BY <1>2, <1>3, <1>4, <2>2 DEF Stream
    <3>2. rosterIDs' = rosterIDs => Knowing' = Knowing
      BY DEF Knowing
    <3>3. conns[peer].open /\ conns[peer].phase = "serving" => active = peer
      BY <1>4 DEF TInv, SlotsOK, Slot
    <3>4. peer # 0
      BY <1>4, UplinkConstants
    <3> QED
      BY <3>1, <3>2, <3>3, <3>4
  <2> QED
    BY <2>1, <2>2
<1>5. Fresh' /\ SessionInv'
  BY <1>4, PeerKept
<1> QED
  BY <1>2, <1>5, ServerKept DEF TInv, ServerTypeOK

(* An open connection that was greeted and joined is the active one.       *)
LEMMA ActiveIs ==
    ASSUME IInv, TInv
    PROVE  /\ active \in 0..Slots
           /\ active # 0 => conns[active].phase \in {"joined", "serving"}
           /\ \A c \in 1..Slots : conns[c].open /\ conns[c].phase \in {"joined", "serving"}
                                      => active = c /\ active # 0
BY UplinkConstants DEF IInv, ServerOK, ActiveOK, TInv, SlotsOK, Slot

(* readHello().                                                            *)
LEMMA GreetsHolds ==
    ASSUME IInv, TInv, ServerOnly, NEW c \in 1..Slots, Greets(c) PROVE TInv'
<1> DEFINE wire == conns[c].wire
           r1 == [conns[c] EXCEPT !.phase = "greeted"]
           r2 == [r1 EXCEPT !.chunk = Tail(wire)]
           r == [r2 EXCEPT !.wire = <<>>]
<1>1. /\ conns[c].phase = "greeting" /\ wire # <<>>
      /\ conns' = [conns EXCEPT ![c] = IF Head(wire) = Hello THEN r ELSE NoConn]
      /\ UNCHANGED <<active, rosterIDs, store, thermostat, clean>>
  BY DEF Greets, server
<1>2. CASE Head(wire) # Hello
  BY <1>1, <1>2, Goes DEF TInv, ServerTypeOK
<1>3. CASE Head(wire) = Hello
  <2>1. conns[c] \in Connections /\ wire \in Seq(Frames) /\ Slot(conns[c], c = active)
    BY Typed DEF TInv, SlotsOK
  <2>2. Tail(wire) \in Seq(Frames) /\ <<>> \in Seq(Frames) /\ Len(<<>>) = 0
        /\ "greeted" \in Phases
    BY <1>1, <2>1, Behind, EmptySeq DEF Phases
  <2> DEFINE rest == Tail(wire)
  <2>3. /\ r1 \in Connections /\ r1.phase = "greeted" /\ r1.open = conns[c].open
    BY <2>1, <2>2, PhaseEdited
  <2> HIDE DEF r1
  <2>4. /\ r2 \in Connections /\ r2.phase = "greeted" /\ r2.open = conns[c].open
        /\ r2.chunk = rest
    BY <2>2, <2>3, ChunkEdited
  <2> HIDE DEF r2
  <2>5. /\ r \in Connections /\ r.phase = "greeted" /\ r.open = conns[c].open
        /\ r.chunk = rest /\ r.wire = <<>>
    BY <2>2, <2>4, WireEdited
  <2> HIDE DEF r
  <2>6. Slot(r, c = active)
    BY <2>2, <2>5, UplinkConstants DEF Slot
  <2>7. active \in 0..Slots /\ conns' = [conns EXCEPT ![c] = r]
    BY <1>1, <1>3, ActiveIs
  <2>8. /\ conns' \in [1..Slots -> Connections]
        /\ conns'[c] = r
        /\ \A d \in 1..Slots \ {c} : conns'[d] = conns[d]
        /\ SlotsOK' /\ OthersSilent'
    BY <1>1, <2>5, <2>6, <2>7, OneConn DEF TInv
  <2>9. Knowing' = Knowing
    BY <1>1 DEF Knowing
  <2>10. UNCHANGED <<nina, bus, presence, monitor, queue, peer, lost>>
    BY DEF ServerOnly, link, master
  <2>11. CASE peer # c
    <3>1. peer \in 1..Slots => conns'[peer] = conns[peer] /\ Stream' = Stream
      BY <2>8, <2>10, <2>11 DEF Stream
    <3>2. Fresh' /\ SessionInv'
      BY <2>9, <3>1, PeerKept
    <3> QED
      BY <1>1, <2>8, <3>2, ServerKept DEF TInv, ServerTypeOK
  <2>12. CASE peer = c
    <3>1. Fresh'
      BY <1>1, <2>5, <2>8, <2>10, <2>12 DEF TInv, Fresh
    <3>2. SessionInv'
      <4> SUFFICES ASSUME InDataMode', conns'[peer'].open
                   PROVE  Told(Stream, conns[peer].phase = "serving", Said, Knowing)'
        BY DEF SessionInv
      <4>1. InDataMode /\ conns[peer].open /\ (conns[peer].phase = "serving") = FALSE
        BY <1>1, <2>5, <2>8, <2>10, <2>12 DEF InDataMode
      <4>2. Told(Stream, FALSE, Said, Knowing)
        BY <4>1 DEF TInv, SessionInv
      <4>3. conns[c].chunk = <<>> /\ queue \in Seq(Frames)
        BY <1>1, <2>1 DEF Slot, TInv, BusTypeOK
      <4>4. Stream = wire \o queue /\ Stream' = rest \o queue
        <5>1. <<>> \o wire = wire
          BY <2>1, ConcatEmptySeq
        <5>2. rest \o <<>> = rest
          BY <2>2, ConcatEmptySeq
        <5>3. Stream = (<<>> \o wire) \o queue
          BY <2>12, <4>3 DEF Stream
        <5>4. Stream' = (rest \o <<>>) \o queue
          BY <2>5, <2>8, <2>10, <2>12 DEF Stream
        <5> QED
          BY <5>1, <5>2, <5>3, <5>4
      <4> HIDE DEF wire, rest
      <4>5. /\ wire \o queue \in Seq(Frames) /\ wire \o queue # <<>>
            /\ Head(wire \o queue) = Hello
            /\ Tail(wire \o queue) = rest \o queue
        BY <1>1, <1>3, <2>1, <4>3, TailOfBoth DEF rest
      <4>6. Told(rest \o queue, FALSE, Said, Knowing)
        BY <4>2, <4>4, <4>5, ToldGreeted
      <4>7. Said' = Said /\ (conns[peer].phase = "serving")' = FALSE
        BY <2>5, <2>8, <2>10, <2>12 DEF Said
      <4> QED
        BY <2>9, <4>4, <4>6, <4>7
    <3> QED
      BY <1>1, <2>8, <3>1, <3>2, ServerKept DEF TInv, ServerTypeOK
  <2> QED
    BY <2>11, <2>12
<1> QED
  BY <1>2, <1>3

(* A connection that never says hello.                                     *)
LEMMA NoHelloHolds ==
    ASSUME IInv, TInv, ServerOnly, NEW c \in 1..Slots, NoHello(c) PROVE TInv'
<1>1. /\ conns' = [conns EXCEPT ![c] = NoConn]
      /\ UNCHANGED <<active, rosterIDs, store, thermostat, clean>>
  BY DEF NoHello, server
<1> QED
  BY <1>1, Goes DEF TInv, ServerTypeOK

(* OnDisconnect(): the roster that is dropped is not that of a clean       *)
(* session.                                                                *)
LEMMA OnDisconnectHolds ==
    ASSUME IInv, TInv, ServerOnly, NEW c \in 1..Slots, OnDisconnect(c) PROVE TInv'
<1>1. /\ conns[c].phase = "leaving"
      /\ conns' = [conns EXCEPT ![c] = NoConn] /\ rosterIDs' = {}
      /\ UNCHANGED <<active, store, thermostat, clean>>
  BY DEF OnDisconnect
<1>2. active # 0 /\ conns[active].phase = "serving" => ~clean
  BY <1>1 DEF IInv, ServerOK, NobodyLeaves
<1> QED
  BY <1>1, <1>2, Goes

(* The read fails.                                                         *)
LEMMA EndsHolds ==
    ASSUME IInv, TInv, ServerOnly, NEW c \in 1..Slots, Ends(c) PROVE TInv'
<1>1. /\ ~conns[c].open
      /\ conns' = [conns EXCEPT ![c] =
             IF active = c THEN [conns[c] EXCEPT !.phase = "leaving"] ELSE NoConn]
      /\ active' = IF active = c THEN 0 ELSE active
      /\ UNCHANGED <<rosterIDs, store, thermostat, clean>>
  BY DEF Ends, WasActive
<1>2. CASE active # c
  BY <1>1, <1>2, Goes DEF TInv, ServerTypeOK
<1>3. CASE active = c
  <2> DEFINE r == [conns[c] EXCEPT !.phase = "leaving"]
  <2>1. conns[c] \in Connections /\ Slot(conns[c], c = active)
        /\ conns \in [1..Slots -> Connections]
    BY Typed DEF TInv, SlotsOK, ServerTypeOK
  <2>2. "leaving" \in Phases
    BY DEF Phases
  <2>3. /\ r \in Connections /\ r.phase = "leaving" /\ ~r.open
        /\ r.wire = conns[c].wire /\ r.chunk = conns[c].chunk
    BY <1>1, <2>1, <2>2, PhaseEdited
  <2>4. conns' = [conns EXCEPT ![c] = r] /\ active' = 0
    BY <1>1, <1>3
  <2> HIDE DEF r
  <2>5. /\ conns' \in [1..Slots -> Connections] /\ conns'[c] = r
        /\ \A d \in 1..Slots \ {c} : conns'[d] = conns[d]
    BY <2>1, <2>3, <2>4
  <2>6. SlotsOK'
    <3> SUFFICES ASSUME NEW d \in 1..Slots PROVE Slot(conns'[d], d = active')
      BY DEF SlotsOK
    <3>1. CASE d = c
      BY <2>1, <2>3, <2>5, <3>1 DEF Slot
    <3>2. CASE d # c
      <4>1. Slot(conns[d], FALSE) /\ (d = active') = FALSE
        BY <1>3, <2>4, <3>2, UplinkConstants DEF TInv, SlotsOK, Slot
      <4> QED
        BY <2>5, <3>2, <4>1 DEF Slot
    <3> QED
      BY <3>1, <3>2
  <2>7. OthersSilent'
    BY <2>4 DEF OthersSilent
  <2>8. Knowing' = Knowing /\ peer' = peer /\ queue' = queue
    BY <1>1 DEF Knowing, ServerOnly, master
  <2>9. ASSUME peer \in 1..Slots
        PROVE  ~conns'[peer].open \/ (conns'[peer] = conns[peer] /\ Stream' = Stream)
    BY <2>3, <2>5, <2>8, <2>9 DEF Stream
  <2>10. Fresh' /\ SessionInv'
    BY <2>8, <2>9, PeerKept
  <2> QED
    BY <1>1, <2>5, <2>6, <2>7, <2>10, ServerKept DEF TInv, ServerTypeOK
<1> QED
  BY <1>2, <1>3

(* The next one to be served closes the one that is.                       *)
LEMMA TakesOverHolds ==
    ASSUME IInv, TInv, ServerOnly, NEW c \in 1..Slots, TakesOver(c) PROVE TInv'
<1> DEFINE joined == [conns[c] EXCEPT !.phase = "joined"]
           o == conns[active]
           o1 == [o EXCEPT !.open = FALSE]
           o2 == [o1 EXCEPT !.wire = <<>>]
           closed == [o2 EXCEPT !.back = FALSE]
<1>1. /\ conns[c].phase = "greeted" /\ active' = c
      /\ conns' = [d \in 1..Slots |-> IF d = c THEN joined
                                      ELSE IF d = active THEN closed ELSE conns[d]]
      /\ UNCHANGED <<rosterIDs, store, thermostat, clean>>
  BY DEF TakesOver
<1>2. conns[c] \in Connections /\ Slot(conns[c], c = active)
      /\ conns \in [1..Slots -> Connections] /\ "joined" \in Phases
      /\ <<>> \in Seq(Frames) /\ Len(<<>>) = 0
  BY Typed, EmptySeq DEF TInv, SlotsOK, ServerTypeOK, Phases
<1>3. /\ joined \in Connections /\ joined.phase = "joined"
      /\ joined.open = conns[c].open /\ joined.wire = conns[c].wire
      /\ joined.chunk = conns[c].chunk
  BY <1>2, PhaseEdited
<1>4. active \in 1..Slots => /\ closed \in Connections /\ closed.phase = o.phase
                             /\ ~closed.open /\ closed.wire = <<>>
  <2> SUFFICES ASSUME active \in 1..Slots
               PROVE  /\ closed \in Connections /\ closed.phase = o.phase
                      /\ ~closed.open /\ closed.wire = <<>>
    OBVIOUS
  <2>1. o \in Connections
    BY <1>2
  <2>2. o1 \in Connections /\ o1.phase = o.phase /\ ~o1.open
    BY <2>1, OpenEdited
  <2> HIDE DEF o1
  <2>3. o2 \in Connections /\ o2.phase = o.phase /\ ~o2.open /\ o2.wire = <<>>
    BY <1>2, <2>2, WireEdited
  <2> HIDE DEF o2
  <2> QED
    BY <2>3, BackEdited
<1> HIDE DEF joined, closed
<1>5. /\ conns' \in [1..Slots -> Connections] /\ conns'[c] = joined
      /\ \A d \in 1..Slots \ {c} : conns'[d] = IF d = active THEN closed ELSE conns[d]
  BY <1>1, <1>2, <1>3, <1>4
<1>6. active \in 0..Slots /\ active # c
      /\ (active # 0 => conns[active].phase \in {"joined", "serving"})
  BY <1>1, ActiveIs
<1>7. SlotsOK'
  <2> SUFFICES ASSUME NEW d \in 1..Slots PROVE Slot(conns'[d], d = active')
    BY DEF SlotsOK
  <2>1. CASE d = c
    BY <1>1, <1>2, <1>3, <1>5, <2>1 DEF Slot
  <2>2. CASE d # c /\ d = active
    <3>1. /\ closed.phase \in {"joined", "serving"}
          /\ ~closed.open /\ closed.wire = <<>>
      BY <1>4, <1>6, <2>2, UplinkConstants
    <3>2. conns'[d] = closed
      BY <1>5, <2>2
    <3> QED
      BY <1>2, <3>1, <3>2, UplinkConstants DEF Slot
  <2>3. CASE d # c /\ d # active
    <3>1. Slot(conns[d], FALSE) /\ (d = active') = FALSE
      BY <1>1, <2>3 DEF TInv, SlotsOK, Slot
    <3> QED
      BY <1>5, <2>3, <3>1 DEF Slot
  <2> QED
    BY <2>1, <2>2, <2>3
<1>8. OthersSilent'
  BY <1>1, <1>3, <1>5 DEF OthersSilent
<1>9. Knowing' = Knowing /\ peer' = peer /\ queue' = queue
  BY <1>1 DEF Knowing, ServerOnly, master
<1>10. ASSUME peer \in 1..Slots
       PROVE  \/ ~conns'[peer].open
              \/ /\ conns'[peer].open = conns[peer].open
                 /\ (conns'[peer].phase = "serving") = (conns[peer].phase = "serving")
                 /\ conns[peer].phase = "greeting" => conns'[peer] = conns[peer]
                 /\ Stream' = Stream
  <2>1. CASE peer = c
    BY <1>1, <1>3, <1>5, <1>9, <2>1 DEF Stream
  <2>2. CASE peer # c /\ peer = active
    BY <1>4, <1>5, <1>10, <2>2
  <2>3. CASE peer # c /\ peer # active
    BY <1>5, <1>9, <1>10, <2>3 DEF Stream
  <2> QED
    BY <2>1, <2>2, <2>3
<1>11. Fresh' /\ SessionInv'
  BY <1>9, <1>10, PeerKept
<1> QED
  BY <1>1, <1>5, <1>7, <1>8, <1>11, ServerKept DEF TInv, ServerTypeOK

(* OnConnect().                                                            *)
LEMMA OnConnectHolds ==
    ASSUME IInv, TInv, ServerOnly, NEW c \in 1..Slots, OnConnect(c) PROVE TInv'
<1> DEFINE r == [conns[c] EXCEPT !.phase = "serving"]
<1>1. /\ conns[c].phase = "joined" /\ conns' = [conns EXCEPT ![c] = r]
      /\ UNCHANGED <<active, rosterIDs, store, thermostat>>
      /\ IF active = c THEN clean' = (rosterIDs = {} /\ Alone(c)) ELSE clean' = clean
  BY DEF OnConnect
<1>2. conns[c] \in Connections /\ Slot(conns[c], c = active) /\ "serving" \in Phases
      /\ conns \in [1..Slots -> Connections]
  BY Typed DEF TInv, SlotsOK, Phases, ServerTypeOK
<1>3. /\ r \in Connections /\ r.phase = "serving" /\ r.open = conns[c].open
      /\ r.wire = conns[c].wire /\ r.chunk = conns[c].chunk
  BY <1>2, PhaseEdited
<1> HIDE DEF r
<1>4. Slot(r, c = active)
  BY <1>1, <1>2, <1>3 DEF Slot
<1>5. active \in 0..Slots /\ clean' \in BOOLEAN
  BY <1>1, ActiveIs DEF TInv, ServerTypeOK, Alone
<1>6. peer' = peer /\ queue' = queue /\ Said' = Said /\ nina' = nina
  BY DEF ServerOnly, master, link, Said
<1>7. CASE active # c
  <2>1. clean' = clean /\ Knowing' = Knowing
    BY <1>1, <1>7 DEF Knowing
  <2>2. /\ conns' \in [1..Slots -> Connections] /\ conns'[c] = r
        /\ \A d \in 1..Slots \ {c} : conns'[d] = conns[d]
        /\ SlotsOK' /\ OthersSilent'
    BY <1>1, <1>3, <1>4, <1>5, <1>7, <2>1, OneConn DEF TInv
  <2>3. ~r.open
    BY <1>1, <1>2, <1>3, <1>7 DEF Slot
  <2>4. ASSUME peer \in 1..Slots
        PROVE  ~conns'[peer].open \/ (conns'[peer] = conns[peer] /\ Stream' = Stream)
    BY <1>6, <2>2, <2>3, <2>4 DEF Stream
  <2>5. Fresh' /\ SessionInv'
    BY <2>1, <2>4, PeerKept
  <2> QED
    BY <1>1, <1>5, <2>2, <2>5, ServerKept DEF TInv, ServerTypeOK
<1>8. CASE active = c
  <2>1. clean' => rosterIDs = {} /\ Alone(c)
    BY <1>1, <1>8
  <2>2. /\ conns' \in [1..Slots -> Connections] /\ conns'[c] = r
        /\ \A d \in 1..Slots \ {c} : conns'[d] = conns[d]
    BY <1>1, <1>2, <1>3
  <2>3. SlotsOK'
    <3> SUFFICES ASSUME NEW d \in 1..Slots PROVE Slot(conns'[d], d = active')
      BY DEF SlotsOK
    <3>1. CASE d = c
      BY <1>1, <1>4, <2>2, <3>1
    <3>2. CASE d # c
      BY <1>1, <2>2, <3>2 DEF TInv, SlotsOK
    <3> QED
      BY <3>1, <3>2
  <2>4. OthersSilent'
    BY <1>1, <1>8, <2>1, <2>2 DEF OthersSilent, Alone
  <2>5. Fresh' /\ SessionInv'
    <3>1. CASE peer # c
      <4>1. ASSUME peer \in 1..Slots
            PROVE  /\ conns'[peer] = conns[peer] /\ Stream' = Stream
                   /\ ~(conns[peer].open /\ conns[peer].phase = "serving")
        BY <1>6, <1>8, <2>2, <3>1, <4>1, ActiveIs DEF Stream
      <4> QED
        BY <4>1, PeerKept
    <3>2. CASE peer = c
      <4>1. Stream' = Stream
        BY <1>3, <1>6, <2>2, <3>2 DEF Stream
      <4>2. Fresh'
        BY <1>1, <1>3, <1>6, <2>2, <3>2 DEF TInv, Fresh
      <4>3. SessionInv'
        <5> SUFFICES ASSUME InDataMode', conns'[peer'].open
                     PROVE  Told(Stream, conns[peer].phase = "serving", Said, Knowing)'
          BY DEF SessionInv
        <5>1. InDataMode /\ conns[peer].open /\ (conns[peer].phase = "serving") = FALSE
          BY <1>1, <1>3, <1>6, <2>2, <3>2 DEF InDataMode
        <5>2. Told(Stream, FALSE, Said, Knowing)
          BY <5>1 DEF TInv, SessionInv
        <5> DEFINE k == Knowing'
        <5>3. k.clean => k.rosterIDs = {}
          BY <1>1, <2>1 DEF Knowing
        <5> HIDE DEF k
        <5>4. Told(Stream, TRUE, Said, k)
          BY <5>2, <5>3, ToldServed
        <5>5. (conns[peer].phase = "serving")' = TRUE
          BY <1>3, <1>6, <2>2, <3>2
        <5> QED
          BY <1>6, <4>1, <5>4, <5>5 DEF k
      <4> QED
        BY <4>2, <4>3
    <3> QED
      BY <3>1, <3>2
  <2> QED
    BY <1>1, <1>5, <2>2, <2>3, <2>4, <2>5, ServerKept DEF TInv, ServerTypeOK
<1> QED
  BY <1>7, <1>8

(* The read.                                                               *)
LEMMA ReadsHolds ==
    ASSUME IInv, TInv, ServerOnly, NEW c \in 1..Slots, Reads(c) PROVE TInv'
<1> DEFINE wire == conns[c].wire
           r1 == [conns[c] EXCEPT !.chunk = wire]
           r == [r1 EXCEPT !.wire = <<>>]
<1>1. /\ conns[c].phase = "serving" /\ conns[c].chunk = <<>> /\ wire # <<>>
      /\ conns' = [conns EXCEPT ![c] = r]
      /\ UNCHANGED <<active, rosterIDs, store, thermostat, clean>>
  BY DEF Reads, server
<1>2. conns[c] \in Connections /\ Slot(conns[c], c = active)
      /\ wire \in Seq(Frames) /\ <<>> \in Seq(Frames) /\ Len(<<>>) = 0
  BY Typed, EmptySeq DEF TInv, SlotsOK
<1>3. /\ r1 \in Connections /\ r1.phase = "serving" /\ r1.open = conns[c].open
      /\ r1.chunk = wire
  BY <1>1, <1>2, ChunkEdited
<1> HIDE DEF r1
<1>4. /\ r \in Connections /\ r.phase = "serving" /\ r.open = conns[c].open
      /\ r.chunk = wire /\ r.wire = <<>>
  BY <1>2, <1>3, WireEdited
<1> HIDE DEF r
<1>5. c = active
  BY <1>1, <1>2 DEF Slot
<1>6. Slot(r, c = active)
  BY <1>2, <1>4, <1>5, UplinkConstants DEF Slot
<1>7. active \in 0..Slots
  BY ActiveIs
<1>8. /\ conns' \in [1..Slots -> Connections] /\ conns'[c] = r
      /\ \A d \in 1..Slots \ {c} : conns'[d] = conns[d]
      /\ SlotsOK' /\ OthersSilent'
  BY <1>1, <1>4, <1>5, <1>6, <1>7, OneConn DEF TInv
<1>9. peer' = peer /\ queue' = queue /\ Knowing' = Knowing
  BY <1>1 DEF ServerOnly, master, Knowing
<1>10. ASSUME peer \in 1..Slots
       PROVE  /\ conns'[peer].open = conns[peer].open
              /\ conns'[peer].phase = conns[peer].phase
              /\ conns[peer].phase = "greeting" => conns'[peer] = conns[peer]
              /\ Stream' = Stream
  <2>1. CASE peer = c
    <3>1. Stream = (<<>> \o wire) \o queue /\ Stream' = (wire \o <<>>) \o queue
      BY <1>1, <1>4, <1>8, <1>9, <2>1 DEF Stream
    <3>2. <<>> \o wire = wire /\ wire \o <<>> = wire
      BY <1>2, ConcatEmptySeq
    <3>3. conns'[peer].open = conns[peer].open /\ conns'[peer].phase = conns[peer].phase
          /\ conns[peer].phase # "greeting"
      BY <1>1, <1>4, <1>8, <2>1
    <3> QED
      BY <3>1, <3>2, <3>3
  <2>2. CASE peer # c
    BY <1>8, <1>9, <1>10, <2>2 DEF Stream
  <2> QED
    BY <2>1, <2>2
<1>11. Fresh' /\ SessionInv'
  BY <1>9, <1>10, PeerKept
<1> QED
  BY <1>1, <1>8, <1>11, ServerKept DEF TInv, ServerTypeOK

(* dispatch(): what the handlers do to the tables.                         *)
LEMMA DispatchedIs ==
    ASSUME TInv, NEW c \in 1..Slots, Dispatches(c)
    PROVE  LET f == Head(conns[c].chunk)
           IN  /\ rosterIDs' \in SUBSET Nodes /\ thermostat' \in Links
               /\ store' \in [Nodes -> [online : BOOLEAN, boot : BOOLEAN]]
               /\ thermostat' = IF f.is = "Thermostat" THEN f.link ELSE thermostat
               /\ \A n \in Nodes :
                      /\ (n \in rosterIDs') = ListedAfter(f, n, n \in rosterIDs)
                      /\ store'[n] = EntryAfter(f, n, n \in rosterIDs, store[n])
<1> DEFINE f == Head(conns[c].chunk)
           S == [Nodes -> [online : BOOLEAN, boot : BOOLEAN]]
<1>1. f \in Frames
  <2>1. conns[c].chunk \in Seq(Frames) /\ conns[c].chunk # <<>>
    BY Typed DEF TInv, Dispatches
  <2> QED
    BY <2>1, Behind
<1>2. /\ rosterIDs' = CASE f.is = "Entry" -> rosterIDs \cup {f.node}
                        [] f.is = "End"   -> {}
                        [] OTHER          -> rosterIDs
      /\ store' = Seen(f)
      /\ thermostat' = IF f.is = "Thermostat" THEN f.link ELSE thermostat
  BY DEF Dispatches
<1> HIDE DEF f
<1>3. rosterIDs \in SUBSET Nodes /\ thermostat \in Links /\ store \in S
  BY DEF TInv, ServerTypeOK
<1>4. f.is = "Thermostat" => f.link \in Links
  BY <1>1 DEF Frames, Hello, RosterEnd, Keepalive
<1>5. CASE f.is = "Entry"
  <2>1. f.node \in Nodes /\ f.as # "gone"
    BY <1>1, <1>5 DEF Frames, Hello, RosterEnd, Keepalive
  <2>2. rosterIDs' = rosterIDs \cup {f.node}
    BY <1>2, <1>5
  <2>3. store' = [store EXCEPT ![f.node] = [online |-> TRUE, boot |-> f.as = "boot"]]
    BY <1>2, <1>5 DEF Seen
  <2>4. store' \in S
    BY <1>3, <2>1, <2>3
  <2>5. ASSUME NEW n \in Nodes
        PROVE  /\ (n \in rosterIDs') = ListedAfter(f, n, n \in rosterIDs)
               /\ store'[n] = EntryAfter(f, n, n \in rosterIDs, store[n])
    <3>1. /\ Sets(f, n) <=> f.node = n
          /\ Relays(f, n) <=> FALSE
      BY <1>5 DEF Sets, Relays
    <3>2. (n \in rosterIDs') = ListedAfter(f, n, n \in rosterIDs)
      BY <2>2, <1>5 DEF ListedAfter
    <3>3. CASE f.node = n
      <4>1. store'[n] = [online |-> TRUE, boot |-> f.as = "boot"]
        BY <1>3, <2>1, <2>3, <3>3
      <4>2. EntryAfter(f, n, n \in rosterIDs, store[n]) = [online |-> f.as # "gone", boot |-> f.as = "boot"]
        BY <3>1, <3>3 DEF EntryAfter
      <4>3. (f.as # "gone") = TRUE
        BY <2>1
      <4> QED
        BY <3>2, <4>1, <4>2, <4>3
    <3>4. CASE f.node # n
      <4>1. store'[n] = store[n]
        BY <1>3, <2>1, <2>3, <3>4
      <4>2. EntryAfter(f, n, n \in rosterIDs, store[n]) = store[n]
        BY <1>5, <3>1, <3>4 DEF EntryAfter
      <4> QED
        BY <3>2, <4>1, <4>2
    <3> QED
      BY <3>3, <3>4
  <2> QED
    BY <1>2, <1>3, <1>4, <2>1, <2>2, <2>4, <2>5 DEF f
<1>6. CASE f.is = "Presence"
  <2>1. f.node \in Nodes
    BY <1>1, <1>6 DEF Frames, Hello, RosterEnd, Keepalive
  <2>2. rosterIDs' = rosterIDs
    BY <1>2, <1>6
  <2>3. store' = [store EXCEPT ![f.node] = [online |-> f.as # "gone",
                                            boot |-> f.as = "boot"]]
    BY <1>2, <1>6 DEF Seen
  <2>4. store' \in S
    BY <1>3, <2>1, <2>3
  <2>5. ASSUME NEW n \in Nodes
        PROVE  /\ (n \in rosterIDs') = ListedAfter(f, n, n \in rosterIDs)
               /\ store'[n] = EntryAfter(f, n, n \in rosterIDs, store[n])
    BY <1>3, <1>6, <2>1, <2>2, <2>3 DEF ListedAfter, EntryAfter, Sets, Relays
  <2> QED
    BY <1>2, <1>3, <1>4, <2>1, <2>2, <2>4, <2>5 DEF f
<1>7. CASE f.is = "Relayed"
  <2>1. f.node \in Nodes
    BY <1>1, <1>7 DEF Frames, Hello, RosterEnd, Keepalive
  <2>2. rosterIDs' = rosterIDs
    BY <1>2, <1>7
  <2>3. store' = [store EXCEPT ![f.node] = [store[f.node] EXCEPT !.online = TRUE]]
    BY <1>2, <1>7 DEF Seen
  <2>4. store' \in S
    BY <1>3, <2>1, <2>3
  <2>5. ASSUME NEW n \in Nodes
        PROVE  /\ (n \in rosterIDs') = ListedAfter(f, n, n \in rosterIDs)
               /\ store'[n] = EntryAfter(f, n, n \in rosterIDs, store[n])
    <3>1. /\ Sets(f, n) <=> FALSE
          /\ Relays(f, n) <=> f.node = n
      BY <1>7 DEF Sets, Relays
    <3>2. (n \in rosterIDs') = ListedAfter(f, n, n \in rosterIDs)
      BY <2>2, <1>7 DEF ListedAfter
    <3>3. CASE f.node = n
      <4>1. store'[n] = [store[n] EXCEPT !.online = TRUE]
        BY <1>3, <2>1, <2>3, <3>3
      <4>2. EntryAfter(f, n, n \in rosterIDs, store[n]) = [store[n] EXCEPT !.online = TRUE]
        BY <3>1, <3>3 DEF EntryAfter
      <4> QED
        BY <3>2, <4>1, <4>2
    <3>4. CASE f.node # n
      <4>1. store'[n] = store[n]
        BY <1>3, <2>1, <2>3, <3>4
      <4>2. EntryAfter(f, n, n \in rosterIDs, store[n]) = store[n]
        BY <1>7, <3>1, <3>4 DEF EntryAfter
      <4> QED
        BY <3>2, <4>1, <4>2
    <3> QED
      BY <3>3, <3>4
  <2> QED
    BY <1>2, <1>3, <1>4, <2>1, <2>2, <2>4, <2>5 DEF f
<1>8. CASE f.is = "End"
  <2>1. rosterIDs' = {}
    BY <1>2, <1>8
  <2>2. store' = [n \in Nodes |-> [store[n] EXCEPT !.online =
                                       store[n].online /\ n \in rosterIDs]]
    BY <1>2, <1>8 DEF Seen, AtRosterEnd
  <2>3. store' \in S
    BY <1>3, <2>2
  <2>4. ASSUME NEW n \in Nodes
        PROVE  /\ (n \in rosterIDs') = ListedAfter(f, n, n \in rosterIDs)
               /\ store'[n] = EntryAfter(f, n, n \in rosterIDs, store[n])
    BY <1>3, <1>8, <2>1, <2>2 DEF ListedAfter, EntryAfter, Sets, Relays
  <2> QED
    BY <1>2, <1>3, <1>4, <2>1, <2>3, <2>4 DEF f
<1>9. CASE f.is \notin {"Entry", "Presence", "Relayed", "End"}
  <2>1. rosterIDs' = rosterIDs /\ store' = store
    BY <1>2, <1>9 DEF Seen
  <2>2. ASSUME NEW n \in Nodes
        PROVE  /\ (n \in rosterIDs') = ListedAfter(f, n, n \in rosterIDs)
               /\ store'[n] = EntryAfter(f, n, n \in rosterIDs, store[n])
    BY <1>9, <2>1 DEF ListedAfter, EntryAfter, Sets, Relays
  <2> QED
    BY <1>2, <1>3, <1>4, <2>1, <2>2 DEF f
<1> QED
  BY <1>5, <1>6, <1>7, <1>8, <1>9

(* dispatch().                                                             *)
LEMMA DispatchesHolds ==
    ASSUME IInv, TInv, ServerOnly, NEW c \in 1..Slots, Dispatches(c) PROVE TInv'
<1> DEFINE chunk == conns[c].chunk
           f == Head(chunk)
           rest == Tail(chunk)
           answers == conns[c].back \/ (f = Keepalive /\ conns[c].open)
           r1 == [conns[c] EXCEPT !.chunk = rest]
           r == [r1 EXCEPT !.back = answers]
<1>1. /\ conns[c].phase = "serving" /\ chunk # <<>>
      /\ UNCHANGED <<active, shown, clean>>
  BY DEF Dispatches
<1>2. conns[c] \in Connections /\ Slot(conns[c], c = active)
      /\ conns \in [1..Slots -> Connections]
      /\ conns[c].chunk \in Seq(Frames) /\ conns[c].wire \in Seq(Frames)
      /\ conns[c].back \in BOOLEAN /\ conns[c].open \in BOOLEAN
  BY Typed DEF TInv, SlotsOK, ServerTypeOK
<1>3. rest \in Seq(Frames) /\ answers \in BOOLEAN
  BY <1>1, <1>2, Behind
<1>4. conns' = [conns EXCEPT ![c] = r]
  BY <1>2 DEF Dispatches
<1>5. /\ r1 \in Connections /\ r1.phase = "serving" /\ r1.open = conns[c].open
      /\ r1.wire = conns[c].wire /\ r1.chunk = rest
  BY <1>1, <1>2, <1>3, ChunkEdited
<1>6. /\ rosterIDs' \in SUBSET Nodes /\ thermostat' \in Links
      /\ store' \in [Nodes -> [online : BOOLEAN, boot : BOOLEAN]]
      /\ thermostat' = IF f.is = "Thermostat" THEN f.link ELSE thermostat
      /\ \A n \in Nodes :
             /\ (n \in rosterIDs') = ListedAfter(f, n, n \in rosterIDs)
             /\ store'[n] = EntryAfter(f, n, n \in rosterIDs, store[n])
  BY DispatchedIs
<1> HIDE DEF r1, answers
<1>7. /\ r \in Connections /\ r.phase = "serving" /\ r.open = conns[c].open
      /\ r.wire = conns[c].wire /\ r.chunk = rest
  BY <1>3, <1>5, BackEdited
<1> HIDE DEF r
<1>8. Slot(r, c = active)
  BY <1>1, <1>2, <1>7 DEF Slot
<1>9. active \in 0..Slots
  BY ActiveIs
<1>10. /\ conns' \in [1..Slots -> Connections] /\ conns'[c] = r
       /\ \A d \in 1..Slots \ {c} : conns'[d] = conns[d]
       /\ SlotsOK' /\ OthersSilent'
  BY <1>1, <1>4, <1>7, <1>8, <1>9, OneConn DEF TInv
<1>11. /\ peer' = peer /\ queue' = queue /\ nina' = nina /\ Said' = Said
  BY DEF ServerOnly, master, link, Said
<1>12. Fresh' /\ SessionInv'
  <2>1. CASE peer # c
    <3>1. ASSUME peer \in 1..Slots
          PROVE  /\ conns'[peer] = conns[peer] /\ Stream' = Stream
                 /\ conns[peer].open /\ conns[peer].phase = "serving" =>
                        ~clean /\ ~clean'
      <4>1. conns'[peer] = conns[peer] /\ Stream' = Stream
        BY <1>10, <1>11, <2>1, <3>1 DEF Stream
      <4>2. conns[peer].open /\ conns[peer].phase = "serving" => active = peer /\ active # 0
        BY <3>1, ActiveIs
      <4>3. conns[peer].open /\ conns[peer].phase = "serving" => ~clean
        BY <1>1, <2>1, <4>2 DEF TInv, OthersSilent
      <4> QED
        BY <1>1, <4>1, <4>3
    <3> QED
      BY <3>1, PeerKept
  <2>2. CASE peer = c
    <3>1. Fresh'
      BY <1>1, <1>7, <1>10, <1>11, <2>2 DEF TInv, Fresh
    <3>2. SessionInv'
      <4> SUFFICES ASSUME InDataMode', conns'[peer'].open
                   PROVE  Told(Stream, conns[peer].phase = "serving", Said, Knowing)'
        BY DEF SessionInv
      <4> DEFINE w == conns[c].wire
                 s == (chunk \o w) \o queue
                 k == Knowing
                 kk == Knowing'
      <4>1. InDataMode /\ conns[peer].open /\ (conns[peer].phase = "serving") = TRUE
        BY <1>1, <1>7, <1>10, <1>11, <2>2 DEF InDataMode
      <4>2. Stream = s /\ Stream' = (rest \o w) \o queue
        BY <1>7, <1>10, <1>11, <2>2 DEF Stream
      <4>3. queue \in Seq(Frames)
        BY DEF TInv, BusTypeOK
      <4>4. /\ s \in Seq(Frames) /\ s # <<>> /\ Head(s) = f
            /\ Tail(s) = (rest \o w) \o queue
        <5> DEFINE t == chunk \o w
        <5>1. t \in Seq(Frames) /\ t # <<>> /\ Head(t) = f /\ Tail(t) = rest \o w
          BY <1>1, <1>2, TailOfBoth
        <5> HIDE DEF t
        <5>2. t \o queue \in Seq(Frames) /\ t \o queue # <<>> /\ Head(t \o queue) = Head(t)
              /\ Tail(t \o queue) = Tail(t) \o queue
          BY <4>3, <5>1, TailOfBoth
        <5>3. s = t \o queue
          BY DEF t
        <5> HIDE DEF f, rest, w, s
        <5> QED
          BY <5>1, <5>2, <5>3
      <4>5. Told(s, TRUE, Said, k)
        BY <4>1, <4>2 DEF TInv, SessionInv
      <4>6. Said \in Sayings /\ k \in Knowings
        BY SaidTyped
      <4>7. /\ kk.clean = k.clean
            /\ kk.thermostat = IF f.is = "Thermostat" THEN f.link ELSE k.thermostat
            /\ kk.rosterIDs = rosterIDs' /\ kk.store = store'
            /\ k.rosterIDs = rosterIDs /\ k.store = store
        BY <1>1, <1>6 DEF Knowing
      <4> HIDE DEF s, k, kk, f
      <4>8. \A n \in Nodes :
                /\ (n \in kk.rosterIDs) = ListedAfter(Head(s), n, n \in k.rosterIDs)
                /\ kk.store[n] = EntryAfter(Head(s), n, n \in k.rosterIDs, k.store[n])
        BY <1>6, <4>4, <4>7
      <4>9. kk.thermostat = IF Head(s).is = "Thermostat" THEN Head(s).link
                            ELSE k.thermostat
        BY <4>4, <4>7
      <4>10. Told(Tail(s), TRUE, Said, kk)
        BY <4>4, <4>5, <4>6, <4>7, <4>8, <4>9, ToldRest
      <4>11. (conns[peer].phase = "serving")' = TRUE
        BY <1>7, <1>10, <1>11, <2>2
      <4> QED
        BY <1>11, <4>2, <4>4, <4>10, <4>11 DEF kk
    <3> QED
      BY <3>1, <3>2
  <2> QED
    BY <2>1, <2>2
<1> QED
  BY <1>1, <1>6, <1>10, <1>12, ServerKept DEF TInv, ServerTypeOK

-----------------------------------------------------------------------------
(* The whole.                                                              *)

(* Nothing has been said yet.                                              *)
LEMMA SilenceHolds == Init => TInv
<1> SUFFICES ASSUME Init PROVE TInv
  OBVIOUS
<1>1. BusTypeOK
  <2>1. <<>> \in Seq(Frames) /\ Len(<<>>) = 0
    BY EmptySeq
  <2>2. bus \in [Nodes -> Presences] /\ presence \in [Nodes -> Presences]
    BY DEF Init, Presences
  <2>3. monitor \in [link : Links, due : BOOLEAN]
    BY DEF Init, Links
  <2>4. queue = <<>> /\ lost \in BOOLEAN
    BY DEF Init
  <2> QED
    BY <2>1, <2>2, <2>3, <2>4, UplinkConstants DEF BusTypeOK
<1>2. ServerTypeOK
  BY NoConnection DEF Init, ServerTypeOK, Links
<1>3. SlotsOK
  BY NoConnection DEF Init, SlotsOK
<1>4. nina.state = "Booting"
  BY DEF Init, NinaInit, Off
<1>5. Fresh /\ SessionInv
  BY <1>4 DEF Fresh, SessionInv, InDataMode, Linked
<1>6. OthersSilent
  BY DEF Init, OthersSilent
<1> QED
  BY <1>1, <1>2, <1>3, <1>5, <1>6 DEF TInv

(* Every step.                                                             *)
LEMMA SaidStepHolds == IInv /\ TInv /\ [Next]_vars => TInv'
<1> SUFFICES ASSUME IInv, TInv, [Next]_vars PROVE TInv'
  OBVIOUS
<1>1. CASE BringsUp
  BY <1>1, LinkStepsHold, DialsHolds, StartsHolds DEF BringsUp
<1>2. CASE WifiChanges
  BY <1>2, LinkStepsHold
<1>3. CASE LinkDies
  BY <1>3, LinkDiesHolds
<1>4. CASE ServerRestarts
  BY <1>4, RestartHolds
<1>5. CASE BusChanges
  BY <1>5, BusChangesHolds
<1>6. CASE BusReports
  BY <1>6, ReportsHolds
<1>7. CASE MonitorTurns
  BY <1>7, MonitorHolds
<1>8. CASE Passes
  BY <1>8, PassesHolds
<1>9. CASE KeepaliveDue \/ KeepaliveAnswered \/ KeepaliveFails
  BY <1>9, KeepaliveDueHolds, AnsweredHolds, KeepaliveFailsHolds
<1>10. ASSUME NEW c \in 1..Slots, ServeConn(c) PROVE TInv'
  BY <1>10, GreetsHolds, NoHelloHolds, TakesOverHolds, OnConnectHolds, ReadsHolds,
     DispatchesHolds, EndsHolds, OnDisconnectHolds DEF ServeConn
<1>11. CASE UNCHANGED vars
  BY <1>11 DEF vars, link, master, server, TInv, BusTypeOK, ServerTypeOK, SlotsOK,
               Fresh, OthersSilent, SessionInv, InDataMode, Stream, Said, Knowing
<1> QED
  BY <1>1, <1>2, <1>3, <1>4, <1>5, <1>6, <1>7, <1>8, <1>9, <1>10, <1>11 DEF Next

(* When nothing is on the way, all of it has been told.                    *)
LEMMA AllHeard ==
    ASSUME IInv, TInv, Heard PROVE Told(<<>>, TRUE, Said, Knowing)
<1>1. InDataMode /\ conns[peer].open /\ (conns[peer].phase = "serving") = TRUE
  BY DEF Heard, Serving
<1>2. peer \in 1..Slots
  BY <1>1, PeerIs DEF InDataMode, Linked
<1>3. /\ queue \in Seq(Frames) /\ conns[peer].wire \in Seq(Frames)
      /\ conns[peer].chunk \in Seq(Frames)
  BY <1>2, Typed DEF TInv, BusTypeOK
<1> DEFINE w == conns[peer].wire
           k == conns[peer].chunk
<1>4. (queue \o w) \o k = <<>>
  BY DEF Heard, Quiet
<1> HIDE DEF w, k
<1>5. w \in Seq(Frames) /\ k \in Seq(Frames)
  BY <1>3 DEF w, k
<1>6. queue = <<>> /\ w = <<>> /\ k = <<>>
  <2>1. queue \o w \in Seq(Frames)
    BY <1>3, <1>5, ConcatProperties
  <2>2. queue \o w = <<>> /\ k = <<>>
    BY <1>4, <1>5, <2>1, ConcatEqualIffEmpty
  <2> QED
    BY <1>3, <1>5, <2>2, ConcatEqualIffEmpty
<1>7. Stream = <<>>
  <2>1. Stream = (k \o w) \o queue
    BY DEF Stream, w, k
  <2>2. <<>> \in Seq(Frames)
    BY EmptySeq
  <2>3. (<<>> \o <<>>) \o <<>> = <<>>
    BY <2>2, ConcatEmptySeq
  <2> QED
    BY <1>6, <2>1, <2>3
<1>8. Told(Stream, TRUE, Said, Knowing)
  BY <1>1 DEF TInv, SessionInv
<1> QED
  BY <1>7, <1>8

(* KnowsTheBus.                                                            *)
LEMMA KnowingHolds == IInv /\ TInv => KnowsTheBus
<1> SUFFICES ASSUME IInv, TInv, Heard, PresenceNews = <<>>, ~lost, clean, NEW n \in Nodes
             PROVE  /\ store[n].online = (bus[n] # "gone")
                    /\ store[n].online => store[n].boot = (bus[n] = "boot")
  BY DEF KnowsTheBus
<1> DEFINE s == <<>>
<1>1. Len(s) = 0
  BY EmptySeq
<1> HIDE DEF s
<1>2. \A i \in 1..Len(s) : FALSE
  BY <1>1
<1>3. Reports(s, n, presence[n], TRUE, clean, n \in rosterIDs, store[n])
  BY AllHeard DEF Told, Said, Knowing, s
<1>4. Known(store[n], presence[n])
  BY <1>2, <1>3 DEF Reports, LastSet, EndsRoster
<1>5. bus[n] = presence[n]
  <2>1. bus \in [Nodes -> Presences] /\ presence \in [Nodes -> Presences]
    BY DEF TInv, BusTypeOK
  <2>2. PresenceNews = s
    BY DEF s
  <2>3. ~LastSet(s, n, bus[n])
    BY <1>2 DEF LastSet
  <2>4. ~Changed(n)
    BY <2>1, <2>2, <2>3, NewsIs
  <2> QED
    BY <2>4 DEF Changed
<1> QED
  BY <1>4, <1>5 DEF Known

(* ThermostatIsTold.                                                       *)
LEMMA TellingHolds == IInv /\ TInv => ThermostatIsTold
<1> SUFFICES ASSUME IInv, TInv, Heard, clean, ~monitor.due, monitor.link # "unknown"
             PROVE  thermostat = monitor.link
  BY DEF ThermostatIsTold
<1> DEFINE s == <<>>
<1>1. Len(s) = 0
  BY EmptySeq
<1> HIDE DEF s
<1>2. \A i \in 1..Len(s) : FALSE
  BY <1>1
<1>3. Tells(s, monitor.link, TRUE, clean, thermostat)
  BY AllHeard DEF Told, Said, Knowing, s
<1> QED
  BY <1>2, <1>3 DEF Tells, Says

(* The server knows which nodes are on the bus, and which of them run      *)
(* their bootloader, as soon as it has heard what it was sent in a session *)
(* it had to itself and that no overflow broke, for any number of nodes,   *)
(* connections and happenings and every queue that holds a roster.         *)
THEOREM KnowsWhoIsThere == Spec => []KnowsTheBus
<1>1. IInv /\ TInv /\ [Next]_vars => (IInv /\ TInv)'
  BY StepHolds, SaidStepHolds
<1>2. Init => IInv /\ TInv
  BY InitHolds, SilenceHolds
<1> QED
  BY <1>1, <1>2, KnowingHolds, PTL DEF Spec

(* A status that was taken from the monitor reaches the server, however    *)
(* often it was overtaken, dropped with its session or told anew.          *)
THEOREM StatusArrives == Spec => []ThermostatIsTold
<1>1. IInv /\ TInv /\ [Next]_vars => (IInv /\ TInv)'
  BY StepHolds, SaidStepHolds
<1>2. Init => IInv /\ TInv
  BY InitHolds, SilenceHolds
<1> QED
  BY <1>1, <1>2, TellingHolds, PTL DEF Spec

=============================================================================
