------------------------------ MODULE OtaJobs ------------------------------
(***************************************************************************)
(* The server's queue of firmware pushes (internal/service/ota.go,         *)
(* internal/store/ota.go): rows of the table ota_jobs, of which one at a   *)
(* time is pushed by a goroutine of its own (otaDriver).                   *)
(*                                                                         *)
(* Nobody waits for the queue.  Whoever may have changed what it can do -- *)
(* a request that queued a job, a push that ended, a MainController that   *)
(* connected -- calls kickOta(), which starts the next job or leaves it to *)
(* a later call.  So a call that finds a push still running, or no uplink, *)
(* must be followed by another.                                            *)
(*                                                                         *)
(* The table outlives the server; s.ota, the goroutines and the connection *)
(* do not.  What a push does on the bus is in NodeOta and ThermostatLink,  *)
(* and what they promise of it in FirmwareUpdate: it may fail, and it ends.*)
(* A write to the table does not fail here.                                *)
(***************************************************************************)
EXTENDS Naturals, FiniteSets

CONSTANTS
    Targets,      \* what can be pushed to: a node, or a node's Thermostat
    Requests,     \* HTTP requests at a time; a bound
    MaxJobs,      \* rows ever created; a bound
    Kept,         \* store.OtaJobsKept (100)
    MaxTroubles   \* restarts, disconnects, lost image files; a bound

ASSUME OtaJobsConstants ==
    /\ "none" \notin Targets
    /\ MaxJobs \in Nat
    /\ Kept \in Nat \ {0}
    /\ MaxTroubles \in Nat

Jobs == 1..MaxJobs   \* row ids, in the order of creation

VARIABLES
    state,      \* ota_jobs.state; "running" is every state of a push under way
    target,     \* ota_jobs.node_id and target
    last,       \* the id of the newest row
    missing,    \* the jobs whose image file cannot be read
    request,    \* startOTA(): what each request is about to queue a push for
    ota,        \* s.ota: the job of the push that replies are fed to, or 0
    driver,     \* the goroutine of each job, in Drivers
    kicks,      \* goroutines about to call kickOta()
    active,     \* server.active: nobody, or a connection before or after its
                \* OnConnect()
    troubles,   \* restarts, disconnects and lost image files so far
    orphans     \* history: jobs that were being pushed at a restart

table  == <<state, target, last>>
server == <<ota, driver, kicks>>
faults == <<missing, troubles, orphans>>

vars == <<table, server, faults, request, active>>

Final   == {"done", "error"}
States  == {"none", "queued", "running", "pruned"} \cup Final
Drivers == {"none",        \* not running
            "started",     \* before its first progress()
            "pushing",
            "recorded",    \* done() has written the row
            "finished"}    \* doneCh is closed

Init ==
    /\ state = [i \in Jobs |-> "none"]
    /\ target = [i \in Jobs |-> "none"]
    /\ last = 0
    /\ missing = {}
    /\ request = [r \in Requests |-> "none"]
    /\ ota = 0
    /\ driver = [i \in Jobs |-> "none"]
    /\ kicks = 0
    /\ active = "nobody"
    /\ troubles = 0
    /\ orphans = {}

(* PruneOtaJobs(): finished rows beyond the newest Kept are deleted.       *)
Pruned(rows) ==
    [i \in Jobs |->
        IF /\ rows[i] \in Final
           /\ Kept <= Cardinality({j \in Jobs :
                          j > i /\ rows[j] \notin {"none", "pruned"}})
        THEN "pruned" ELSE rows[i]]

-----------------------------------------------------------------------------
(* A request: startOTA().                                                  *)

HasPendingOtaJob(t) ==
    \E i \in Jobs : target[i] = t /\ state[i] \notin Final \cup {"none", "pruned"}

Requested == {r \in Requests : request[r] # "none"}

(* Asking first, and queueing in another step.  A press that is refused    *)
(* (ErrOtaQueued) changes nothing.                                         *)
Press(r, t) ==
    /\ request[r] = "none"
    /\ last + Cardinality(Requested) < MaxJobs   \* the bound
    /\ ~HasPendingOtaJob(t)
    /\ request' = [request EXCEPT ![r] = t]
    /\ UNCHANGED <<table, server, faults, active>>

CreateOtaJob(r) ==
    /\ request[r] # "none"
    /\ last < MaxJobs                            \* the bound
    /\ last' = last + 1
    /\ state' = Pruned([state EXCEPT ![last + 1] = "queued"])
    /\ target' = [target EXCEPT ![last + 1] = request[r]]
    /\ request' = [request EXCEPT ![r] = "none"]
    /\ kicks' = kicks + 1
    /\ UNCHANGED <<ota, driver, faults, active>>

-----------------------------------------------------------------------------
(* kickOta(), under s.mu.                                                  *)

(* Bug: whether a push is running is not asked.                            *)
NeverBusy == FALSE

Busy == ota # 0 /\ driver[ota] # "finished"

Queued == {i \in Jobs : state[i] = "queued"}

(* Jobs that come first and have lost their image are ended on the way.    *)
Skipping(ids) == [i \in Jobs |-> IF i \in ids THEN "error" ELSE state[i]]

StartNext ==
    \E next \in Queued \ missing :
        /\ \A i \in Queued \ missing : next <= i
        /\ state' = Skipping({i \in Queued : i < next})
        /\ ota' = next
        /\ driver' = [driver EXCEPT ![next] = "started"]

NothingToStart ==
    /\ Queued \subseteq missing
    /\ state' = Skipping(Queued)
    /\ ota' = 0
    /\ UNCHANGED driver

LeaveIt ==
    /\ Busy \/ active = "nobody"
    /\ UNCHANGED <<state, ota, driver>>

KickOta ==
    \/ LeaveIt
    \/ ~Busy /\ active # "nobody" /\ (StartNext \/ NothingToStart)

Kick ==
    /\ kicks > 0
    /\ kicks' = kicks - 1
    /\ KickOta
    /\ UNCHANGED <<target, last, faults, request, active>>

-----------------------------------------------------------------------------
(* The goroutine of a push: otaDriver.run() and done().                    *)

(* Bug: an image that fails its check ends the push, but not the job.      *)
StartsUnrecorded(i) ==
    /\ driver[i] = "started"
    /\ \/ /\ state' = [state EXCEPT ![i] = "running"]
          /\ driver' = [driver EXCEPT ![i] = "pushing"]
       \/ /\ driver' = [driver EXCEPT ![i] = "recorded"]
          /\ UNCHANGED state
    /\ UNCHANGED <<target, last, ota, kicks, faults, request, active>>

(* progress() takes the job out of the queue, unless its image fails the   *)
(* check before.                                                           *)
Starts(i) ==
    /\ driver[i] = "started"
    /\ \/ /\ state' = [state EXCEPT ![i] = "running"]
          /\ driver' = [driver EXCEPT ![i] = "pushing"]
       \/ /\ state' = [state EXCEPT ![i] = "error"]
          /\ driver' = [driver EXCEPT ![i] = "recorded"]
    /\ UNCHANGED <<target, last, ota, kicks, faults, request, active>>

Ends(i) ==
    /\ driver[i] = "pushing"
    /\ \E result \in Final : state' = [state EXCEPT ![i] = result]
    /\ driver' = [driver EXCEPT ![i] = "recorded"]
    /\ UNCHANGED <<target, last, ota, kicks, faults, request, active>>

HandsOver(i) ==
    /\ driver[i] = "recorded"
    /\ driver' = [driver EXCEPT ![i] = "finished"]
    /\ state' = Pruned(state)
    /\ kicks' = kicks + 1
    /\ UNCHANGED <<target, last, ota, faults, request, active>>

-----------------------------------------------------------------------------
(* The uplink: serveConn() makes the connection the active one, and then   *)
(* calls OnConnect().  One that takes over has the active one closed; that *)
(* one's OnConnect(), if it is not over yet, goes on all the same.         *)

Connects ==
    /\ active' = "greeting"
    /\ kicks' = IF active = "greeting" THEN kicks + 1 ELSE kicks
    /\ UNCHANGED <<table, ota, driver, missing, orphans, request>>

Attach == active = "nobody" /\ Connects /\ UNCHANGED troubles

TakeOver ==
    /\ active # "nobody"
    /\ troubles < MaxTroubles
    /\ troubles' = troubles + 1
    /\ Connects

(* Bug: nobody looks at the queue.                                         *)
OnConnectQuiet ==
    /\ active = "greeting"
    /\ active' = "up"
    /\ UNCHANGED <<table, server, faults, request>>

OnConnect ==
    /\ active = "greeting"
    /\ active' = "up"
    /\ KickOta
    /\ UNCHANGED <<target, last, kicks, faults, request>>

-----------------------------------------------------------------------------
(* What goes wrong.  A push does not end with its connection.              *)

Detach ==
    /\ active = "up"
    /\ troubles < MaxTroubles
    /\ troubles' = troubles + 1
    /\ active' = "nobody"
    /\ UNCHANGED <<table, server, missing, orphans, request>>

ImageLost(i) ==
    /\ state[i] = "queued" /\ i \notin missing
    /\ troubles < MaxTroubles
    /\ troubles' = troubles + 1
    /\ missing' = missing \cup {i}
    /\ UNCHANGED <<table, server, orphans, request, active>>

(* main() prunes and does nothing else to the table: a row left running by *)
(* the last server stays so, and NextQueuedOtaJob() does not pick it.      *)
Restart ==
    /\ troubles < MaxTroubles
    /\ troubles' = troubles + 1
    /\ orphans' = orphans \cup {i \in Jobs : state[i] = "running"}
    /\ state' = Pruned(state)
    /\ request' = [r \in Requests |-> "none"]
    /\ ota' = 0
    /\ driver' = [i \in Jobs |-> "none"]
    /\ kicks' = 0
    /\ active' = "nobody"
    /\ UNCHANGED <<target, last, missing>>

Next ==
    \/ \E r \in Requests : CreateOtaJob(r) \/ \E t \in Targets : Press(r, t)
    \/ Kick \/ Attach \/ TakeOver \/ OnConnect \/ Detach \/ Restart
    \/ \E i \in Jobs : Starts(i) \/ Ends(i) \/ HandsOver(i) \/ ImageLost(i)

(* Goroutines run, a push ends, and the MainController dials back in.      *)
Fairness ==
    /\ WF_vars(Kick) /\ WF_vars(Attach) /\ WF_vars(OnConnect)
    /\ \A i \in Jobs :
           WF_vars(Starts(i)) /\ WF_vars(Ends(i)) /\ WF_vars(HandsOver(i))

Spec == Init /\ [][Next]_vars /\ Fairness

-----------------------------------------------------------------------------
TypeOK ==
    /\ state \in [Jobs -> States]
    /\ target \in [Jobs -> Targets \cup {"none"}]
    /\ last \in 0..MaxJobs
    /\ missing \subseteq Jobs
    /\ request \in [Requests -> Targets \cup {"none"}]
    /\ ota \in {0} \cup Jobs
    /\ driver \in [Jobs -> Drivers]
    /\ kicks \in Nat
    /\ active \in {"nobody", "greeting", "up"}
    /\ troubles \in 0..MaxTroubles
    /\ orphans \subseteq Jobs

Driving(i) == driver[i] \in {"started", "pushing"}

Over(i) ==
    \/ state[i] \in Final \cup {"pruned"}
    \/ driver[i] \in {"recorded", "finished"}

(* Whoever kicks the queue, and whenever: one push at a time is on the bus, *)
(* and it is the one that the replies are fed to (onFirmwareReport).       *)
OnePush == \A i \in Jobs : Driving(i) => ota = i

(* A push that is over is never started again: its row has left the queue  *)
(* before anybody can be told that it has finished, over restarts too.     *)
NoPushTwice == [][\A i \in Jobs : Over(i) => driver'[i] # "started"]_vars

(* Every queued job gets its turn and is pushed to an end: no wake-up is   *)
(* lost between a request, a push that is about to end and an uplink that  *)
(* comes and goes.  A job that a restart of the server cut off never ends, *)
(* and HasPendingOtaJob() refuses its target from then on.                 *)
QueuedJobsEnd ==
    \A i \in Jobs :
        state[i] = "queued" ~> state[i] \in Final \cup {"pruned"} \/ i \in orphans

=============================================================================
