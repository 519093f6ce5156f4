------------------------------- MODULE NinaLink -------------------------------
(***************************************************************************)
(* The bring-up of the MainController's uplink: NinaLink                   *)
(* (Software/Lib/Nina/NinaLink.cpp) with the AT engine and the line parser *)
(* under it (NinaAt.cpp, NinaLineParser.cpp), and the Wi-Fi module they    *)
(* drive.  The module is not part of the repository: it is modelled by     *)
(* what NinaLink asks of it, how it may answer, and the events it sends.   *)
(*                                                                         *)
(* A command and its result are one step.  Times are left out: a wait ends *)
(* when the module has nothing more to say, and the backoff only spaces    *)
(* the attempts.  What the link does once it carries frames is in Uplink.  *)
(***************************************************************************)
EXTENDS Naturals, SequencesExt

CONSTANTS
    MaxAttempts, \* MaxAttemptsPerState (3)
    MaxProbes,   \* MaxProbeAttempts (10)
    EventQueue,  \* eventQueueSize of the line parser (8)
    MaxHappenings \* what goes wrong or changes from outside; a bound

ASSUME NinaConstants ==
    /\ MaxAttempts \in Nat \ {0}
    /\ MaxProbes \in Nat \ {0}
    /\ EventQueue \in Nat \ {0}
    /\ MaxHappenings \in Nat

VARIABLES
    nina,        \* the link: its state, attemptsInState and the event queue
    modem,       \* the module: Bluetooth mode, network
    happened     \* counts to MaxHappenings

(* The states whose command only has to be answered OK.                    *)
Follows ==
    [DisablingBluetooth |-> "StoringSettings",
     StoringSettings    |-> "RestartingModule",
     RestartingModule   |-> "Booting",
     ConfiguringSsid    |-> "ConfiguringAuth",
     ConfiguringAuth    |-> "ConfiguringPsk",
     ConfiguringPsk     |-> "ActivatingWifi",
     ActivatingWifi     |-> "WaitingNetworkUp",
     ConnectingPeer     |-> "WaitingPeerConnected",
     EnteringDataMode   |-> "DataModeSettle"]

Commands == DOMAIN Follows \cup {"ProbingAt", "CheckingBluetooth"}

Events == {"NetworkUp", "NetworkDown", "PeerConnected"}

Off == [state |-> "Booting", attempts |-> 0, events |-> <<>>]

NinaInit ==
    /\ nina = Off
    /\ modem \in [bluetooth : BOOLEAN, network : {FALSE}]
    /\ happened = 0

Happens == happened < MaxHappenings /\ happened' = happened + 1

-----------------------------------------------------------------------------

(* QueueEvent(): what does not fit is dropped.                             *)
Queued(events, e) == IF Len(events) < EventQueue THEN Append(events, e) ELSE events

To(state) == [nina EXCEPT !.state = state, !.attempts = 0]

(* Fail(): the module is reset, which empties the parser; a line it was    *)
(* just sending may still come in.                                         *)
Fail ==
    /\ \E late \in {<<>>, <<"NetworkUp">>} :
           nina' = [state |-> "Backoff", attempts |-> 0, events |-> late]
    /\ modem' = [modem EXCEPT !.network = FALSE]

(* HandleCommandFailure(), allowing a number of attempts.                  *)
Retry(most) ==
    IF nina.attempts + 1 >= most THEN Fail
    ELSE /\ nina' = [nina EXCEPT !.attempts = @ + 1]
         /\ UNCHANGED modem

(* DiscardEvents(), once the join is configured.                           *)
Discarded(events) == <<>>

(* The command of the state was answered OK.                               *)
Accepted ==
    /\ nina' = CASE nina.state = "ProbingAt" -> To("CheckingBluetooth")
                 [] nina.state = "CheckingBluetooth" ->
                        To(IF modem.bluetooth THEN "DisablingBluetooth"
                                              ELSE "ConfiguringSsid")
                 [] nina.state = "ConfiguringPsk" ->
                        [To("ActivatingWifi") EXCEPT !.events = Discarded(@)]
                 [] OTHER -> To(Follows[nina.state])
    /\ modem' = [modem EXCEPT
           !.bluetooth = @ /\ nina.state # "RestartingModule"]

(* It was answered ERROR, or not at all.                                   *)
Refused ==
    CASE nina.state = "ProbingAt" -> Retry(MaxProbes)
      [] nina.state = "CheckingBluetooth" ->
             nina' = To("ConfiguringSsid") /\ UNCHANGED modem
      [] OTHER -> Retry(MaxAttempts)

(* Waits that only a timer ends.                                           *)
Boots ==
    /\ nina.state \in {"Booting", "Backoff"}
    /\ nina' = To(IF nina.state = "Backoff" THEN "Booting" ELSE "ProbingAt")
    /\ UNCHANGED <<modem, happened>>

(* A burst of events is judged by where it leaves the network.             *)
NetworkEvents == SelectSeq(nina.events, LAMBDA e : e # "PeerConnected")

Drained(state) == [To(state) EXCEPT !.events = <<>>]

NetworkComesUp ==
    /\ nina.state = "WaitingNetworkUp"
    /\ NetworkEvents # <<>>
    /\ nina' = IF Last(NetworkEvents) = "NetworkUp" THEN Drained("NetworkUpSettle")
               ELSE [nina EXCEPT !.events = <<>>]
    /\ UNCHANGED <<modem, happened>>

(* Nothing came in NetworkUpWaitMs.                                        *)
NetworkStaysDown ==
    /\ nina.state = "WaitingNetworkUp"
    /\ NetworkEvents = <<>>
    /\ Happens
    /\ Fail

(* NetworkUpSettleMs without an event, or an event that starts it again.   *)
NetworkSettles ==
    /\ nina.state = "NetworkUpSettle"
    /\ nina' = IF NetworkEvents = <<>> THEN To("ConnectingPeer")
               ELSE IF Last(NetworkEvents) = "NetworkUp" THEN Drained("NetworkUpSettle")
               ELSE Drained("WaitingNetworkUp")
    /\ UNCHANGED <<modem, happened>>

(* The module joins the access point, and may lose it again, while the     *)
(* link is being made.                                                     *)
OnWifi == {"WaitingNetworkUp", "NetworkUpSettle", "ConnectingPeer",
           "WaitingPeerConnected"}

NetworkIs(up) ==
    /\ modem' = [modem EXCEPT !.network = up]
    /\ nina' = [nina EXCEPT
           !.events = Queued(@, IF up THEN "NetworkUp" ELSE "NetworkDown")]

Joins ==
    /\ nina.state \in OnWifi /\ ~modem.network
    /\ NetworkIs(TRUE)
    /\ UNCHANGED happened

LosesNetwork ==
    /\ nina.state \in OnWifi /\ modem.network
    /\ Happens
    /\ NetworkIs(FALSE)

=============================================================================
