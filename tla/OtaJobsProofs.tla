--------------------------- MODULE OtaJobsProofs ---------------------------
(* The queue of firmware pushes for any number of jobs, requests, restarts *)
(* and lost connections: one push at a time, and none twice.               *)
EXTENDS OtaJobs, TLAPS

-----------------------------------------------------------------------------
(* Pruning deletes rows of jobs that are over, and touches no other.       *)
LEMMA PruningKeepsTheRest ==
    ASSUME NEW rows \in [Jobs -> States]
    PROVE  /\ Pruned(rows) \in [Jobs -> States]
           /\ \A i \in Jobs : rows[i] \notin Final => Pruned(rows)[i] = rows[i]
           /\ \A i \in Jobs :
                 rows[i] \in Final => Pruned(rows)[i] \in Final \cup {"pruned"}
BY DEF Pruned, States, Final

(* kickOta() ends only jobs of the queue, and starts only one of them, and *)
(* that only when no push is running.                                      *)
LEMMA KickType ==
    ASSUME TypeOK, KickOta
    PROVE  /\ state' \in [Jobs -> States]
           /\ ota' \in {0} \cup Jobs
           /\ driver' \in [Jobs -> Drivers]
<1>1. CASE LeaveIt
  BY <1>1 DEF LeaveIt, TypeOK
<1>2. CASE StartNext
  BY <1>2 DEF StartNext, Skipping, Queued, TypeOK, States, Final, Drivers
<1>3. CASE NothingToStart
  BY <1>3 DEF NothingToStart, Skipping, TypeOK, States, Final
<1> QED
  BY <1>1, <1>2, <1>3 DEF KickOta

LEMMA TypeInit == Init => TypeOK
BY OtaJobsConstants DEF Init, TypeOK, States, Drivers, Final

LEMMA TypeStep == TypeOK /\ [Next]_vars => TypeOK'
<1> SUFFICES ASSUME TypeOK, [Next]_vars PROVE TypeOK'
  OBVIOUS
<1> USE OtaJobsConstants
<1>1. ASSUME NEW r \in Requests, NEW t \in Targets, Press(r, t) PROVE TypeOK'
  BY <1>1 DEF Press, TypeOK, table, server, faults
<1>2. ASSUME NEW r \in Requests, CreateOtaJob(r) PROVE TypeOK'
  <2>1. last + 1 \in Jobs
    BY <1>2 DEF CreateOtaJob, TypeOK, Jobs
  <2>2. [state EXCEPT ![last + 1] = "queued"] \in [Jobs -> States]
    BY <2>1 DEF TypeOK, States
  <2>3. state' \in [Jobs -> States]
    BY <1>2, <2>2, PruningKeepsTheRest DEF CreateOtaJob
  <2>4. last' \in 0..MaxJobs /\ target' \in [Jobs -> Targets \cup {"none"}]
    BY <1>2, <2>1 DEF CreateOtaJob, TypeOK, Jobs
  <2>5. request' \in [Requests -> Targets \cup {"none"}] /\ kicks' \in Nat
    BY <1>2 DEF CreateOtaJob, TypeOK
  <2>6. UNCHANGED <<ota, driver, missing, troubles, orphans, active>>
    BY <1>2 DEF CreateOtaJob, faults
  <2> QED
    BY <2>3, <2>4, <2>5, <2>6 DEF TypeOK
<1>3. CASE Kick
  BY <1>3, KickType DEF Kick, TypeOK, faults
<1>4. CASE Attach \/ TakeOver
  BY <1>4 DEF Attach, TakeOver, Connects, TypeOK, table
<1>5. CASE OnConnect
  BY <1>5, KickType DEF OnConnect, TypeOK, faults
<1>6. CASE Detach
  BY <1>6 DEF Detach, TypeOK, table, server
<1>7. CASE Restart
  BY <1>7, PruningKeepsTheRest DEF Restart, TypeOK, Drivers
<1>8. ASSUME NEW i \in Jobs, Starts(i) \/ Ends(i) PROVE TypeOK'
  BY <1>8 DEF Starts, Ends, TypeOK, States, Drivers, Final, faults
<1>9. ASSUME NEW i \in Jobs, HandsOver(i) PROVE TypeOK'
  BY <1>9, PruningKeepsTheRest DEF HandsOver, TypeOK, Drivers, faults
<1>10. ASSUME NEW i \in Jobs, ImageLost(i) PROVE TypeOK'
  BY <1>10 DEF ImageLost, TypeOK, table, server
<1>11. CASE UNCHANGED vars
  BY <1>11 DEF TypeOK, vars, table, server, faults
<1> QED
  BY <1>1, <1>2, <1>3, <1>4, <1>5, <1>6, <1>7, <1>8, <1>9, <1>10, <1>11 DEF Next

(* Every variable of the queue keeps its type.                             *)
THEOREM JobsTypeCorrect == Spec => []TypeOK
BY TypeInit, TypeStep, PTL DEF Spec

-----------------------------------------------------------------------------
(* The strengthening: a push that has not begun is still in the queue, one *)
(* that is over has left it, and no row exists beyond the newest.  The     *)
(* first keeps kickOta() from ending a job that it has just started, the   *)
(* second from starting one again.                                         *)
RowMatchesPush(i) ==
    /\ driver[i] = "started" => state[i] = "queued"
    /\ driver[i] \in {"recorded", "finished"} => state[i] \in Final \cup {"pruned"}
    /\ i > last => state[i] = "none" /\ driver[i] = "none"

Recorded == \A i \in Jobs : RowMatchesPush(i)

IInv == TypeOK /\ OnePush /\ Recorded

LEMMA InitHolds == Init => IInv
BY TypeInit DEF Init, IInv, OnePush, Recorded, RowMatchesPush, Driving

(* Who kicks an idle queue finds no push that could be disturbed.          *)
LEMMA KickKeeps ==
    ASSUME IInv, KickOta, UNCHANGED last
    PROVE  OnePush' /\ Recorded'
<1>1. CASE LeaveIt
  BY <1>1 DEF LeaveIt, IInv, OnePush, Recorded, RowMatchesPush, Driving
<1>2. ASSUME ~Busy PROVE \A i \in Jobs : ~Driving(i)
  BY <1>2 DEF Busy, IInv, TypeOK, OnePush, Driving, Jobs
<1>3. CASE ~Busy /\ StartNext
  <2>1. PICK next \in Queued \ missing :
            /\ state' = Skipping({i \in Queued : i < next})
            /\ ota' = next
            /\ driver' = [driver EXCEPT ![next] = "started"]
    BY <1>3 DEF StartNext
  <2>2. next \in Jobs /\ state[next] = "queued"
    BY <2>1 DEF Queued
  <2>3. ~(next < next)
    BY <2>2 DEF Jobs
  <2>4. state'[next] = "queued" /\ driver'[next] = "started"
    BY <2>1, <2>2, <2>3 DEF Skipping, IInv, TypeOK
  <2>5. ASSUME NEW i \in Jobs, i # next
        PROVE  /\ driver'[i] = driver[i] /\ ~Driving(i)
               /\ \/ state'[i] = state[i]
                  \/ state[i] = "queued" /\ state'[i] = "error"
    BY <1>2, <1>3, <2>1, <2>5 DEF Skipping, Queued, IInv, TypeOK
  <2>6. OnePush'
    BY <2>1, <2>5 DEF OnePush, Driving
  <2>7. RowMatchesPush(next)'
    BY <2>2, <2>4 DEF RowMatchesPush, IInv, Recorded
  <2>8. ASSUME NEW i \in Jobs, i # next PROVE RowMatchesPush(i)'
    BY <2>5, <2>8 DEF RowMatchesPush, IInv, Recorded, Driving, Final
  <2> QED
    BY <2>6, <2>7, <2>8 DEF Recorded
<1>4. CASE ~Busy /\ NothingToStart
  BY <1>2, <1>4 DEF NothingToStart, Skipping, Queued, IInv, TypeOK, OnePush,
                    Recorded, RowMatchesPush, Driving, Final
<1> QED
  BY <1>1, <1>3, <1>4 DEF KickOta

LEMMA StepKeeps == IInv /\ [Next]_vars => OnePush' /\ Recorded'
<1> SUFFICES ASSUME IInv, [Next]_vars PROVE OnePush' /\ Recorded'
  OBVIOUS
<1>1. CASE Kick \/ OnConnect
  BY <1>1, KickKeeps DEF Kick, OnConnect
<1>2. ASSUME NEW r \in Requests, CreateOtaJob(r) PROVE OnePush' /\ Recorded'
  <2> DEFINE rows == [state EXCEPT ![last + 1] = "queued"]
  <2>1. UNCHANGED <<ota, driver>> /\ state' = Pruned(rows) /\ last' = last + 1
    BY <1>2 DEF CreateOtaJob
  <2>0. last \in Nat /\ state \in [Jobs -> States]
    BY OtaJobsConstants DEF IInv, TypeOK
  <2>2. rows \in [Jobs -> States] /\ last \in Nat /\ state \in [Jobs -> States]
    BY <2>0 DEF States
  <2>3. OnePush'
    BY <2>1 DEF IInv, OnePush, Driving
  <2>4. ASSUME NEW i \in Jobs PROVE RowMatchesPush(i)'
    <3>1. RowMatchesPush(i) /\ i \in Nat
      BY DEF IInv, Recorded, Jobs
    <3>2. CASE i = last + 1
      <4>1. driver[i] = "none"
        BY <2>2, <3>1, <3>2 DEF RowMatchesPush
      <4>2. driver'[i] = "none" /\ ~(i > last')
        BY <2>1, <2>2, <3>1, <3>2, <4>1
      <4> QED
        BY <4>2 DEF RowMatchesPush
    <3>3. CASE i # last + 1
      <4>1. rows[i] = state[i] /\ driver'[i] = driver[i]
        BY <2>1, <2>2, <3>3
      <4>2. i > last' => i > last
        BY <2>1, <2>2, <3>1
      <4>3. \/ state'[i] = state[i]
            \/ state[i] \in Final /\ state'[i] \in Final \cup {"pruned"}
        BY <2>1, <2>2, <4>1, PruningKeepsTheRest
      <4>4. state[i] = "pruned" => state'[i] = "pruned"
        BY <4>3 DEF Final
      <4> QED
        BY <3>1, <4>1, <4>2, <4>3, <4>4 DEF RowMatchesPush, Final
    <3> QED
      BY <3>2, <3>3
  <2> QED
    BY <2>3, <2>4 DEF Recorded
<1>3. CASE Restart
  <2>1. \A i \in Jobs : driver'[i] = "none"
    BY <1>3 DEF Restart
  <2>2. \A i \in Jobs : i > last' => state'[i] = "none"
    BY <1>3, PruningKeepsTheRest
       DEF Restart, IInv, TypeOK, Recorded, RowMatchesPush, Final
  <2> QED
    BY <2>1, <2>2 DEF OnePush, Recorded, RowMatchesPush, Driving
<1>4. ASSUME NEW i \in Jobs, Starts(i) \/ Ends(i) PROVE OnePush' /\ Recorded'
  BY <1>4 DEF Starts, Ends, IInv, TypeOK, OnePush, Recorded, RowMatchesPush,
              Driving, Final
<1>5. ASSUME NEW i \in Jobs, HandsOver(i) PROVE OnePush' /\ Recorded'
  <2>1. /\ UNCHANGED <<ota, last>> /\ driver[i] = "recorded"
        /\ driver' = [driver EXCEPT ![i] = "finished"]
    BY <1>5 DEF HandsOver
  <2>2. OnePush'
    BY <2>1 DEF IInv, TypeOK, OnePush, Driving
  <2>3. ASSUME NEW j \in Jobs
        PROVE  \/ state'[j] = state[j]
               \/ state[j] \in Final /\ state'[j] \in Final \cup {"pruned"}
    BY <1>5, PruningKeepsTheRest DEF HandsOver, IInv, TypeOK
  <2>4. ASSUME NEW j \in Jobs PROVE RowMatchesPush(j)'
    BY <2>1, <2>3 DEF IInv, TypeOK, Recorded, RowMatchesPush, Final
  <2> QED
    BY <2>2, <2>4 DEF Recorded
<1>6. CASE UNCHANGED <<state, ota, driver, last>>
  BY <1>6 DEF IInv, OnePush, Recorded, RowMatchesPush, Driving
<1> QED
  BY <1>1, <1>2, <1>3, <1>4, <1>5, <1>6
     DEF Next, Press, Attach, TakeOver, Connects, Detach, ImageLost, vars, table,
         server

LEMMA Invariance == Spec => []IInv
<1>1. IInv /\ [Next]_vars => IInv'
  BY TypeStep, StepKeeps DEF IInv
<1> QED
  BY <1>1, InitHolds, PTL DEF Spec

(* At most one push is on the bus, and the replies that come in are fed to *)
(* that one: kickOta() replaces s.ota only when nothing is running.        *)
THEOREM OneAtATime == Spec => []OnePush
BY Invariance, PTL DEF IInv

(* Only kickOta() starts a push, and only of a job that is in the queue.   *)
LEMMA StartedFromQueue ==
    ASSUME IInv, [Next]_vars, NEW i \in Jobs, driver'[i] = "started"
    PROVE  state[i] = "queued" /\ driver[i] \notin {"recorded", "finished"}
<1>1. driver[i] \in {"recorded", "finished"} => state[i] # "queued"
  BY DEF IInv, Recorded, RowMatchesPush, Final
<1>2. driver[i] = "started" => state[i] = "queued"
  BY DEF IInv, Recorded, RowMatchesPush
<1>3. ASSUME KickOta PROVE driver[i] = "started" \/ state[i] = "queued"
  BY <1>3 DEF KickOta, LeaveIt, StartNext, NothingToStart, Queued, IInv, TypeOK
<1>4. CASE Kick \/ OnConnect
  BY <1>1, <1>2, <1>3, <1>4 DEF Kick, OnConnect
<1>5. ASSUME NEW j \in Jobs, Starts(j) \/ Ends(j) \/ HandsOver(j)
      PROVE  driver[i] = "started"
  BY <1>5 DEF Starts, Ends, HandsOver, IInv, TypeOK
<1>6. CASE Restart
  BY <1>6 DEF Restart
<1>7. CASE UNCHANGED driver
  BY <1>1, <1>2, <1>7
<1> QED
  BY <1>1, <1>2, <1>4, <1>5, <1>6, <1>7
     DEF Next, Press, CreateOtaJob, Attach, TakeOver, Connects, Detach, ImageLost,
         vars, server

(* No push that is over is started again, whoever kicks the queue and      *)
(* however often the server restarts: done() writes the row before it      *)
(* closes doneCh, and kickOta() asks for both.                             *)
THEOREM NeverTwice == Spec => NoPushTwice
<1>1. IInv /\ [Next]_vars => \A i \in Jobs : Over(i) => driver'[i] # "started"
  BY StartedFromQueue DEF Over, Final
<1> QED
  BY <1>1, Invariance, PTL DEF Spec, NoPushTwice

=============================================================================
