----------------------------- MODULE StartUpProofs -----------------------------
(***************************************************************************)
(* Proofs about StartUp, for any number of instances, ports, workers and   *)
(* kills.                                                                  *)
(***************************************************************************)
EXTENDS StartUp, TLAPS

\* main() holds a connection only while it sets the mode and while it checks
\* the site, and there are no workers before the port is taken.
ConnectionsInv ==
    \A i \in Instances :
        /\ at[i] \in {"off", "check", "listen", "serving", "stopping", "dead"}
              => conn[i][MAIN] = "none"
        /\ at[i] \in {"off", "opened", "switching", "applied", "refused", "check", "checking", "listen"}
              => \A w \in Workers : conn[i][w] = "none"

\* Who has been in WAL keeps the file in it.
WalInv == \A i \in Instances, p \in Processes : conn[i][p] = "joined" => header = "wal"

\* Files beside the executable belong to somebody, or somebody was killed.
SidecarsInv ==
    ~unclean => /\ header = "delete" /\ writer = NOBODY => sidecars = {}
                /\ sidecars # {} => Someone("joined") \/ writer # NOBODY

\* Whoever is inside a transaction with a rollback journal is connected, and the
\* journal is there; a switch of the mode is one, and when it leaves WAL it is
\* alone in it.
WriterInv ==
    /\ writer # NOBODY => sidecars = {"-journal"} /\ ~unclean
    /\ \A i \in Instances :
        /\ at[i] = "switching" <=> writer = <<i, MAIN>>
        /\ at[i] = "switching" => header # asked[i]
        /\ at[i] = "switching" /\ header = "wal" =>
              \A j \in Instances, p \in Processes :
                 <<j, p>> # <<i, MAIN>> => conn[j][p] # "joined"
        /\ \A p \in Processes : writer = <<i, p>> =>
              /\ Connected(i, p)
              /\ p # MAIN => header = "delete"

ModeSet == {"applied", "check", "checking", "listen", "serving"}

\* From the moment the mode has been verified, and until then nothing to overrule.
ModeInv ==
    \A i \in Instances :
        /\ at[i] \in {"opened", "switching"} => overruled[i] = "no"
        /\ at[i] \in ModeSet =>
              /\ header = asked[i] \/ overruled[i] # "no"
              /\ asked[i] = "wal" /\ overruled[i] = "no" =>
                    \A p \in Processes : Connected(i, p) => conn[i][p] = "joined"
              /\ asked[i] = "wal" => overruled[i] \in {"no", "early"}

StartUpInv == TypeOK /\ ConnectionsInv /\ WalInv /\ SidecarsInv /\ WriterInv /\ ModeInv

\* What an instance, or a process of it, may do next.
StepOf(i) ==
    \/ Start(i) \/ Apply(i) \/ EndSwitch(i) \/ EndApply(i) \/ BeginCheck(i) \/ EndCheck(i)
    \/ Listen(i) \/ Respawn(i) \/ Terminate(i) \/ MainExits(i)
    \/ WorkerUsesFile(i) \/ WorkerBeginsWrite(i) \/ WorkerEndsWrite(i) \/ WorkerExits(i)
    \/ Killed(i)


-----------------------------------------------------------------------------
\* The table of connections keeps its type when one entry changes.
LEMMA ConnUpdate ==
    ASSUME TypeOK, NEW i \in Instances, NEW p \in Processes, NEW state \in ConnStates
    PROVE  [conn EXCEPT ![i][p] = state] \in [Instances -> [Processes -> ConnStates]]
BY DEF TypeOK

\* Taking the port creates no connection and ends none.
LEMMA ListenKeepsConnections ==
    ASSUME StartUpInv, NEW i \in Instances, Listen(i),
           NEW j \in Instances, NEW p \in Processes
    PROVE  /\ conn'[j][p] = "joined" <=> conn[j][p] = "joined"
           /\ conn'[j][p] = "idle" <=> conn[j][p] = "idle"
<1> USE CountsAssumption DEF StartUpInv, TypeOK, ConnectionsInv, Processes, Workers, MAIN
<1>1. CASE conn' = conn
    BY <1>1
<1>2. CASE ForkWorkers(i)
    <2>1. at[i] = "listen"
        BY DEF Listen
    <2>2. CASE j = i
        <3>1. conn'[i][p] = IF p = 0 THEN conn[i][0] ELSE "new"
            BY <1>2 DEF ForkWorkers
        <3>2. conn[i][p] = "none"
            BY <2>1
        <3>3. conn'[i][p] \in {"none", "new"}
            BY <3>1, <3>2
        <3> QED
            BY <2>2, <3>2, <3>3
    <2>3. CASE j # i
        BY <1>2, <2>3 DEF ForkWorkers
    <2> QED
        BY <2>2, <2>3
<1> QED
    BY <1>1, <1>2 DEF Listen

\* The connections after a switch: only that of main() has changed, and a switch
\* out of WAL finds nobody else who has been in it.
LEMMA SwitchedConnections ==
    ASSUME StartUpInv, NEW i \in Instances, EndSwitch(i)
    PROVE  /\ \A j \in Instances, p \in Processes :
                 j # i \/ p # MAIN => conn'[j][p] = conn[j][p]
           /\ conn'[i][MAIN] = IF asked[i] = "wal" THEN "joined" ELSE "idle"
           /\ header' = asked[i] /\ header # asked[i]
           /\ header = "wal" =>
                 \A j \in Instances, p \in Processes :
                    j # i \/ p # MAIN => conn[j][p] # "joined"
<1> USE CountsAssumption DEF StartUpInv, TypeOK, Processes, MAIN
<1>1. conn' = [conn EXCEPT ![i][MAIN] = IF asked[i] = "wal" THEN "joined" ELSE "idle"]
    BY DEF EndSwitch
<1>2. ASSUME NEW j \in Instances, NEW p \in Processes, j # i \/ p # MAIN
      PROVE  conn'[j][p] = conn[j][p]
    BY <1>1, <1>2
<1>3. conn'[i][MAIN] = IF asked[i] = "wal" THEN "joined" ELSE "idle"
    BY <1>1
<1>4. header' = asked[i] /\ at[i] = "switching"
    BY DEF EndSwitch
<1>5. ASSUME header = "wal", NEW j \in Instances, NEW p \in Processes, j # i \/ p # MAIN
      PROVE  conn[j][p] # "joined"
    <2>1. <<j, p>> # <<i, MAIN>>
        BY <1>5
    <2> QED
        BY <1>4, <1>5, <2>1 DEF WriterInv
<1>6. header # asked[i]
    BY <1>4 DEF WriterInv
<1> QED
    BY <1>2, <1>3, <1>4, <1>5, <1>6

\* No step of an instance disturbs TypeOK.
LEMMA TypeOKStep ==
    ASSUME StartUpInv, NEW i \in Instances, StepOf(i)
    PROVE  TypeOK'
<1> USE CountsAssumption DEF StartUpInv, TypeOK, Modes, MainStates, ConnStates, Processes, Workers, MAIN
<1>1. CASE Start(i)
    <2>1. MAIN \in Processes
        OBVIOUS
    <2>2. conn' \in [Instances -> [Processes -> ConnStates]]
        BY <1>1, <2>1, ConnUpdate DEF Start, Statement, Follow
    <2>3. asked' \in [Instances -> Modes] /\ port' \in [Instances -> Ports]
        BY <1>1 DEF Start
    <2> QED
        BY <1>1, <2>2, <2>3 DEF Start, Statement, Follow, Goto
<1>2. CASE Apply(i)
    <2>1. MAIN \in Processes
        OBVIOUS
    <2>2. CASE header = asked[i] /\ Statement(i, MAIN) /\ Goto(i, "applied")
        <3>1. conn' \in [Instances -> [Processes -> ConnStates]]
            BY <2>1, <2>2, ConnUpdate DEF Statement, Follow
        <3> QED
            BY <1>2, <2>2, <3>1 DEF Apply, Statement, Goto
    <2>3. CASE BeginSwitch(i) /\ Goto(i, "switching")
        <3>1. conn' \in [Instances -> [Processes -> ConnStates]]
            BY <2>1, <2>3, ConnUpdate DEF BeginSwitch, BeginTransaction, Follow
        <3> QED
            BY <1>2, <2>1, <2>3, <3>1 DEF Apply, BeginSwitch, BeginTransaction, Goto
    <2>4. CASE SwitchRefused(i) /\ Goto(i, "refused")
        BY <1>2, <2>4 DEF Apply, SwitchRefused, Goto
    <2> QED
        BY <1>2, <2>2, <2>3, <2>4 DEF Apply
<1>3. CASE EndApply(i)
    BY <1>3 DEF EndApply, Close, OthersJoined, Others, Connected, Goto
<1>4. CASE BeginCheck(i)
    BY <1>4 DEF BeginCheck, Statement, Follow, Goto
<1>5. CASE EndCheck(i)
    BY <1>5 DEF EndCheck, Close, OthersJoined, Others, Connected, Goto
<1>6. CASE Listen(i)
    <2>1. MAIN \in Processes
        OBVIOUS
    <2>2. conn' \in [Instances -> [Processes -> ConnStates]]
        BY <1>6, <2>1 DEF Listen, ForkWorkers
    <2> QED
        BY <1>6, <2>2 DEF Listen, Goto
<1>7. CASE Respawn(i)
    BY <1>7 DEF Respawn
<1>8. CASE Terminate(i)
    BY <1>8 DEF Terminate, Goto
<1>9. CASE MainExits(i)
    BY <1>9 DEF MainExits, NoWorkers, Goto
<1>10. CASE WorkerUsesFile(i)
    <2>1. PICK w \in Workers : Statement(i, w)
        BY <1>10 DEF WorkerUsesFile
    <2>2. conn' \in [Instances -> [Processes -> ConnStates]]
        BY <2>1, ConnUpdate DEF Statement, Follow
    <2> QED
        BY <1>10, <2>1, <2>2 DEF WorkerUsesFile, Statement
<1>11. CASE WorkerExits(i)
    BY <1>11 DEF WorkerExits, Close, OthersJoined, Others, Connected
<1>12. CASE Killed(i)
    <2>1. PICK p \in Processes :
              /\ conn' = [conn EXCEPT ![i][p] = "none"]
              /\ at' = IF p = MAIN THEN [at EXCEPT ![i] = "dead"] ELSE at
        BY <1>12 DEF Killed
    <2>2. conn' \in [Instances -> [Processes -> ConnStates]]
        BY <2>1, ConnUpdate
    <2>3. /\ sidecars' \in SUBSET {"-journal", "-wal"} /\ unclean' \in BOOLEAN
          /\ writer' \in (Instances \X Processes) \cup {NOBODY}
        BY <1>12 DEF Killed
    <2>4. kills' \in 0 .. MaxKills
        BY <1>12 DEF Killed
    <2> QED
        BY <1>12, <2>1, <2>2, <2>3, <2>4 DEF Killed
<1>13. CASE EndSwitch(i)
    <2>1. MAIN \in Processes
        OBVIOUS
    <2>2. conn' \in [Instances -> [Processes -> ConnStates]]
        BY <1>13, <2>1, ConnUpdate DEF EndSwitch
    <2>3. overruled' \in [Instances -> {"no", "early", "late", "running"}]
        BY <1>13 DEF EndSwitch
    <2>4. header' \in Modes
        BY <1>13 DEF EndSwitch
    <2> QED
        BY <1>13, <2>2, <2>3, <2>4 DEF EndSwitch, EndTransaction, Goto
<1>14. CASE WorkerBeginsWrite(i)
    <2>1. PICK w \in Workers : BeginTransaction(i, w)
        BY <1>14 DEF WorkerBeginsWrite
    <2>2. conn' \in [Instances -> [Processes -> ConnStates]]
        BY <2>1, ConnUpdate DEF BeginTransaction, Follow
    <2>3. <<i, w>> \in Instances \X Processes
        OBVIOUS
    <2>4. writer' \in (Instances \X Processes) \cup {NOBODY} /\ sidecars' = {"-journal"}
        BY <2>1, <2>3 DEF BeginTransaction
    <2> QED
        BY <1>14, <2>1, <2>2, <2>4 DEF WorkerBeginsWrite, BeginTransaction
<1>15. CASE WorkerEndsWrite(i)
    BY <1>15 DEF WorkerEndsWrite, EndTransaction
<1> QED
    BY <1>1, <1>2, <1>3, <1>4, <1>5, <1>6, <1>7, <1>8, <1>9, <1>10, <1>11, <1>12, <1>13,
       <1>14, <1>15 DEF StepOf

\* No step of an instance disturbs ConnectionsInv.
LEMMA ConnectionsInvStep ==
    ASSUME StartUpInv, NEW i \in Instances, StepOf(i)
    PROVE  ConnectionsInv'
<1> USE CountsAssumption DEF StartUpInv, TypeOK, Modes, MainStates, ConnStates, Processes, Workers, MAIN, ConnectionsInv
<1>1. CASE Start(i)
    BY <1>1 DEF Start, Statement, Follow, Goto
<1>2. CASE Apply(i)
    <2>1. MAIN \in Processes /\ at[i] = "opened" /\ asked' = asked /\ overruled' = overruled
        BY <1>2 DEF Apply
    <2>2. CASE header = asked[i] /\ Statement(i, MAIN) /\ Goto(i, "applied")
        BY <2>1, <2>2 DEF Statement, Follow, Goto
    <2>3. CASE BeginSwitch(i) /\ Goto(i, "switching")
        BY <2>1, <2>3 DEF BeginSwitch, BeginTransaction, Follow, Goto
    <2>4. CASE SwitchRefused(i) /\ Goto(i, "refused")
        BY <2>1, <2>4 DEF SwitchRefused, Goto
    <2> QED
        BY <1>2, <2>2, <2>3, <2>4 DEF Apply
<1>3. CASE EndApply(i)
    BY <1>3 DEF EndApply, Close, OthersJoined, Others, Connected, Goto
<1>4. CASE BeginCheck(i)
    BY <1>4 DEF BeginCheck, Statement, Follow, Goto
<1>5. CASE EndCheck(i)
    BY <1>5 DEF EndCheck, Close, OthersJoined, Others, Connected, Goto
<1>6. CASE Listen(i)
    BY <1>6 DEF Listen, ForkWorkers, Goto
<1>7. CASE Respawn(i)
    BY <1>7 DEF Respawn
<1>8. CASE Terminate(i)
    BY <1>8 DEF Terminate, Goto
<1>9. CASE MainExits(i)
    BY <1>9 DEF MainExits, NoWorkers, Goto
<1>10. CASE WorkerUsesFile(i)
    BY <1>10 DEF WorkerUsesFile, Statement, Follow
<1>11. CASE WorkerExits(i)
    BY <1>11 DEF WorkerExits, Close, OthersJoined, Others, Connected
<1>12. CASE Killed(i)
    BY <1>12 DEF Killed, OthersJoined, Others, Connected
<1>13. CASE EndSwitch(i)
    BY <1>13 DEF EndSwitch, EndTransaction, Goto
<1>14. CASE WorkerBeginsWrite(i)
    BY <1>14 DEF WorkerBeginsWrite, BeginTransaction, Follow
<1>15. CASE WorkerEndsWrite(i)
    BY <1>15 DEF WorkerEndsWrite, EndTransaction
<1> QED
    BY <1>1, <1>2, <1>3, <1>4, <1>5, <1>6, <1>7, <1>8, <1>9, <1>10, <1>11, <1>12, <1>13,
       <1>14, <1>15 DEF StepOf

\* No step of an instance disturbs WalInv.
LEMMA WalInvStep ==
    ASSUME StartUpInv, NEW i \in Instances, StepOf(i)
    PROVE  WalInv'
<1> USE CountsAssumption DEF StartUpInv, TypeOK, Modes, MainStates, ConnStates, Processes, Workers, MAIN, WalInv, ConnectionsInv
<1>1. CASE Start(i)
    BY <1>1 DEF Start, Statement, Follow, Goto
<1>2. CASE Apply(i)
    <2>1. MAIN \in Processes /\ at[i] = "opened" /\ asked' = asked /\ overruled' = overruled
        BY <1>2 DEF Apply
    <2>2. CASE header = asked[i] /\ Statement(i, MAIN) /\ Goto(i, "applied")
        BY <2>1, <2>2 DEF Statement, Follow, Goto
    <2>3. CASE BeginSwitch(i) /\ Goto(i, "switching")
        BY <2>1, <2>3 DEF BeginSwitch, BeginTransaction, Follow, Goto
    <2>4. CASE SwitchRefused(i) /\ Goto(i, "refused")
        BY <2>1, <2>4 DEF SwitchRefused, Goto
    <2> QED
        BY <1>2, <2>2, <2>3, <2>4 DEF Apply
<1>3. CASE EndApply(i)
    BY <1>3 DEF EndApply, Close, OthersJoined, Others, Connected, Goto
<1>4. CASE BeginCheck(i)
    BY <1>4 DEF BeginCheck, Statement, Follow, Goto
<1>5. CASE EndCheck(i)
    BY <1>5 DEF EndCheck, Close, OthersJoined, Others, Connected, Goto
<1>6. CASE Listen(i)
    BY <1>6, ListenKeepsConnections DEF Listen
<1>7. CASE Respawn(i)
    BY <1>7 DEF Respawn
<1>8. CASE Terminate(i)
    BY <1>8 DEF Terminate, Goto
<1>9. CASE MainExits(i)
    BY <1>9 DEF MainExits, NoWorkers, Goto
<1>10. CASE WorkerUsesFile(i)
    BY <1>10 DEF WorkerUsesFile, Statement, Follow
<1>11. CASE WorkerExits(i)
    BY <1>11 DEF WorkerExits, Close, OthersJoined, Others, Connected
<1>12. CASE Killed(i)
    BY <1>12 DEF Killed, OthersJoined, Others, Connected
<1>13. CASE EndSwitch(i)
    <2> SUFFICES ASSUME NEW j \in Instances, NEW p \in Processes, conn'[j][p] = "joined"
                 PROVE  header' = "wal"
        OBVIOUS
    <2>1. header' \in {"delete", "wal"} /\ header \in {"delete", "wal"} /\ header' # header
        BY <1>13, SwitchedConnections
    <2>2. CASE j = i /\ p = MAIN
        BY <1>13, <2>1, <2>2, SwitchedConnections
    <2>3. CASE j # i \/ p # MAIN
        <3>1. conn'[j][p] = conn[j][p]
            BY <1>13, <2>3, SwitchedConnections
        <3>2. header = "wal"
            BY <3>1
        <3> QED
            BY <1>13, <2>1, <2>3, <3>1, <3>2, SwitchedConnections
    <2> QED
        BY <2>2, <2>3
<1>14. CASE WorkerBeginsWrite(i)
    BY <1>14 DEF WorkerBeginsWrite, BeginTransaction, Follow
<1>15. CASE WorkerEndsWrite(i)
    BY <1>15 DEF WorkerEndsWrite, EndTransaction
<1> QED
    BY <1>1, <1>2, <1>3, <1>4, <1>5, <1>6, <1>7, <1>8, <1>9, <1>10, <1>11, <1>12, <1>13,
       <1>14, <1>15 DEF StepOf

\* No step of an instance disturbs SidecarsInv.
LEMMA SidecarsInvStep ==
    ASSUME StartUpInv, NEW i \in Instances, StepOf(i)
    PROVE  SidecarsInv'
<1> USE CountsAssumption DEF StartUpInv, TypeOK, Modes, MainStates, ConnStates, Processes, Workers, MAIN, SidecarsInv, WalInv, Someone
<1>1. CASE Start(i)
    BY <1>1 DEF Start, Statement, Follow, Goto
<1>2. CASE Apply(i)
    <2>1. MAIN \in Processes /\ at[i] = "opened" /\ asked' = asked /\ overruled' = overruled
        BY <1>2 DEF Apply
    <2>2. CASE header = asked[i] /\ Statement(i, MAIN) /\ Goto(i, "applied")
        BY <2>1, <2>2 DEF Statement, Follow, Goto
    <2>3. CASE BeginSwitch(i) /\ Goto(i, "switching")
        <3>1. writer' = <<i, MAIN>> /\ <<i, MAIN>> \in Instances \X Processes
            BY <2>1, <2>3 DEF BeginSwitch, BeginTransaction
        <3> QED
            BY <3>1, NobodyAssumption
    <2>4. CASE SwitchRefused(i) /\ Goto(i, "refused")
        BY <2>1, <2>4 DEF SwitchRefused, Goto
    <2> QED
        BY <1>2, <2>2, <2>3, <2>4 DEF Apply
<1>3. CASE EndApply(i)
    BY <1>3 DEF EndApply, Close, OthersJoined, Others, Connected, Goto
<1>4. CASE BeginCheck(i)
    BY <1>4 DEF BeginCheck, Statement, Follow, Goto
<1>5. CASE EndCheck(i)
    BY <1>5 DEF EndCheck, Close, OthersJoined, Others, Connected, Goto
<1>6. CASE Listen(i)
    BY <1>6, ListenKeepsConnections DEF Listen
<1>7. CASE Respawn(i)
    BY <1>7 DEF Respawn
<1>8. CASE Terminate(i)
    BY <1>8 DEF Terminate, Goto
<1>9. CASE MainExits(i)
    BY <1>9 DEF MainExits, NoWorkers, Goto
<1>10. CASE WorkerUsesFile(i)
    BY <1>10 DEF WorkerUsesFile, Statement, Follow
<1>11. CASE WorkerExits(i)
    BY <1>11 DEF WorkerExits, Close, OthersJoined, Others, Connected
<1>12. CASE Killed(i)
    BY <1>12 DEF Killed, OthersJoined, Others, Connected
<1>13. CASE EndSwitch(i)
    BY <1>13 DEF EndSwitch, EndTransaction, Goto
<1>14. CASE WorkerBeginsWrite(i)
    <2>1. PICK w \in Workers : BeginTransaction(i, w)
        BY <1>14 DEF WorkerBeginsWrite
    <2>2. writer' # NOBODY
        BY <2>1, NobodyAssumption DEF BeginTransaction
    <2> QED
        BY <2>2
<1>15. CASE WorkerEndsWrite(i)
    BY <1>15 DEF WorkerEndsWrite, EndTransaction
<1> QED
    BY <1>1, <1>2, <1>3, <1>4, <1>5, <1>6, <1>7, <1>8, <1>9, <1>10, <1>11, <1>12, <1>13,
       <1>14, <1>15 DEF StepOf

\* No step of an instance disturbs WriterInv.
LEMMA WriterInvStep ==
    ASSUME StartUpInv, NEW i \in Instances, StepOf(i)
    PROVE  WriterInv'
<1> USE CountsAssumption, NobodyAssumption DEF StartUpInv, TypeOK, Modes, MainStates, ConnStates, Processes, Workers, MAIN, WriterInv, ConnectionsInv, WalInv, Connected
<1>1. CASE Start(i)
    BY <1>1 DEF Start, Statement, Follow, Goto
<1>2. CASE Apply(i)
    <2>1. MAIN \in Processes /\ at[i] = "opened" /\ asked' = asked /\ overruled' = overruled
        BY <1>2 DEF Apply
    <2>2. CASE header = asked[i] /\ Statement(i, MAIN) /\ Goto(i, "applied")
        BY <2>1, <2>2 DEF Statement, Follow, Goto
    <2>3. CASE BeginSwitch(i) /\ Goto(i, "switching")
        <3>1. /\ writer = NOBODY /\ writer' = <<i, MAIN>> /\ header # asked[i]
              /\ sidecars' = {"-journal"} /\ ~unclean' /\ header' = header
              /\ conn' = [conn EXCEPT ![i][MAIN] = IF header = "wal" THEN "joined" ELSE "idle"]
              /\ at' = [at EXCEPT ![i] = "switching"]
            BY <2>3 DEF BeginSwitch, BeginTransaction, Follow, Goto
        <3>2. Connected(i, MAIN)'
            BY <2>1, <3>1
        <3>3. ASSUME NEW j \in Instances, NEW p \in Processes, header = "wal",
                     <<j, p>> # <<i, MAIN>>
              PROVE  conn'[j][p] # "joined"
            <4>1. <<j, p>> \notin OthersJoined(i, MAIN)
                BY <2>3, <3>3 DEF BeginSwitch
            <4>2. conn'[j][p] = conn[j][p]
                BY <3>1, <3>3
            <4> QED
                BY <3>3, <4>1, <4>2 DEF OthersJoined, Others
        <3>4. ASSUME NEW j \in Instances
              PROVE  at'[j] = "switching" <=> j = i
            <4>1. <<j, MAIN>> \in Instances \X Processes
                BY <2>1
            <4>2. at[j] # "switching"
                BY <3>1, <4>1
            <4> QED
                BY <3>1, <4>2
        <3> QED
            BY <2>1, <3>1, <3>2, <3>3, <3>4
    <2>4. CASE SwitchRefused(i) /\ Goto(i, "refused")
        BY <2>1, <2>4 DEF SwitchRefused, Goto
    <2> QED
        BY <1>2, <2>2, <2>3, <2>4 DEF Apply
<1>3. CASE EndApply(i)
    BY <1>3 DEF EndApply, Close, OthersJoined, Others, Goto
<1>4. CASE BeginCheck(i)
    BY <1>4 DEF BeginCheck, Statement, Follow, Goto
<1>5. CASE EndCheck(i)
    BY <1>5 DEF EndCheck, Close, OthersJoined, Others, Goto
<1>6. CASE Listen(i)
    <2>1. /\ at[i] = "listen" /\ UNCHANGED <<header, sidecars, asked, writer, unclean>>
          /\ \A j \in Instances : at'[j] = "switching" <=> at[j] = "switching"
        BY <1>6 DEF Listen, Goto
    <2>2. ASSUME NEW j \in Instances, NEW p \in Processes
          PROVE  /\ conn'[j][p] = "joined" <=> conn[j][p] = "joined"
                 /\ conn'[j][p] = "idle" <=> conn[j][p] = "idle"
        BY <1>6, ListenKeepsConnections
    <2>3. writer' # NOBODY => sidecars' = {"-journal"} /\ ~unclean'
        BY <2>1
    <2>4. ASSUME NEW j \in Instances
          PROVE  /\ at'[j] = "switching" <=> writer' = <<j, MAIN>>
                 /\ at'[j] = "switching" => header' # asked'[j]
                 /\ \A p \in Processes : writer' = <<j, p>> =>
                       /\ conn'[j][p] \in {"idle", "joined"}
                       /\ p # MAIN => header' = "delete"
        BY <2>1, <2>2
    <2>5. ASSUME NEW j \in Instances, at'[j] = "switching", header' = "wal",
                 NEW k \in Instances, NEW p \in Processes, <<k, p>> # <<j, MAIN>>
          PROVE  conn'[k][p] # "joined"
        <3>1. at[j] = "switching" /\ header = "wal"
            BY <2>1, <2>5
        <3>2. conn[k][p] # "joined"
            BY <2>5, <3>1
        <3> QED
            BY <2>2, <3>2
    <2> QED
        <3>1. ASSUME NEW j \in Instances
              PROVE  /\ at'[j] = "switching" <=> writer' = <<j, MAIN>>
                     /\ at'[j] = "switching" => header' # asked'[j]
                     /\ at'[j] = "switching" /\ header' = "wal" =>
                           \A k \in Instances, p \in Processes :
                              <<k, p>> # <<j, MAIN>> => conn'[k][p] # "joined"
                     /\ \A p \in Processes : writer' = <<j, p>> =>
                           /\ conn'[j][p] \in {"idle", "joined"}
                           /\ p # MAIN => header' = "delete"
            BY <2>4, <2>5
        <3> QED
            BY ONLY <2>3, <3>1 DEF WriterInv, Connected
<1>7. CASE Respawn(i)
    BY <1>7 DEF Respawn
<1>8. CASE Terminate(i)
    BY <1>8 DEF Terminate, Goto
<1>9. CASE MainExits(i)
    BY <1>9 DEF MainExits, NoWorkers, Goto
<1>10. CASE WorkerUsesFile(i)
    BY <1>10 DEF WorkerUsesFile, Statement, Follow
<1>11. CASE WorkerExits(i)
    BY <1>11 DEF WorkerExits, Close, OthersJoined, Others
<1>12. CASE Killed(i)
    <2>1. PICK p \in Processes :
              /\ conn' = [conn EXCEPT ![i][p] = "none"]
              /\ at' = IF p = MAIN THEN [at EXCEPT ![i] = "dead"] ELSE at
              /\ writer' = IF writer = <<i, p>> THEN NOBODY ELSE writer
              /\ unclean' = \/ unclean
                            \/ writer = <<i, p>>
                            \/ conn[i][p] = "joined" /\ OthersJoined(i, p) = {}
              /\ UNCHANGED <<header, sidecars, asked>>
        BY <1>12 DEF Killed
    <2>2. ASSUME NEW j \in Instances, NEW q \in Processes, <<j, q>> # <<i, p>>
          PROVE  conn'[j][q] = conn[j][q]
        BY <2>1, <2>2
    <2>3. conn'[i][p] = "none"
        BY <2>1
    <2>4. writer' # NOBODY => sidecars' = {"-journal"} /\ ~unclean'
        <3> SUFFICES ASSUME writer' # NOBODY
                     PROVE  sidecars' = {"-journal"} /\ ~unclean'
            OBVIOUS
        <3>1. PICK c \in Instances \X Processes : writer = c
            BY <2>1
        <3>2. writer # <<i, p>> /\ sidecars = {"-journal"} /\ ~unclean
            BY <2>1
        <3>3. CASE header = "delete"
            BY <2>1, <3>2, <3>3
        <3>4. CASE header = "wal"
            BY <2>1, <3>1, <3>2, <3>4
        <3> QED
            BY <3>3, <3>4
    <2>5. ASSUME NEW j \in Instances
          PROVE  at'[j] = "switching" <=> writer' = <<j, MAIN>>
        <3>1. <<j, MAIN>> \in Instances \X Processes
            OBVIOUS
        <3>2. CASE j = i /\ p = MAIN
            <4>1. at'[j] = "dead"
                BY <2>1, <3>2
            <4>2. writer' # <<i, MAIN>>
                BY <2>1, <3>1, <3>2
            <4> QED
                BY <3>2, <4>1, <4>2
        <3>3. CASE j # i \/ p # MAIN
            <4>1. at'[j] = at[j]
                BY <2>1, <3>3
            <4>2. <<j, MAIN>> # <<i, p>>
                BY <3>3
            <4>3. writer' = <<j, MAIN>> <=> writer = <<j, MAIN>>
                BY <2>1, <3>1, <4>2
            <4> QED
                BY <4>1, <4>3
        <3> QED
            BY <3>2, <3>3
    <2>6. ASSUME NEW j \in Instances, NEW q \in Processes, writer' = <<j, q>>
          PROVE  /\ conn'[j][q] \in {"idle", "joined"}
                 /\ q # MAIN => header' = "delete"
        BY <2>1, <2>2, <2>6
    <2> QED
        BY <2>1, <2>2, <2>3, <2>4, <2>5, <2>6
<1>13. CASE EndSwitch(i)
    BY <1>13 DEF EndSwitch, EndTransaction, Goto
<1>14. CASE WorkerBeginsWrite(i)
    BY <1>14 DEF WorkerBeginsWrite, BeginTransaction, Follow
<1>15. CASE WorkerEndsWrite(i)
    BY <1>15 DEF WorkerEndsWrite, EndTransaction
<1> QED
    BY <1>1, <1>2, <1>3, <1>4, <1>5, <1>6, <1>7, <1>8, <1>9, <1>10, <1>11, <1>12, <1>13,
       <1>14, <1>15 DEF StepOf

\* No step of an instance disturbs ModeInv.
LEMMA ModeInvStep ==
    ASSUME StartUpInv, NEW i \in Instances, StepOf(i)
    PROVE  ModeInv'
<1>0. EndSwitch(i) =>
        \A k \in Instances, p \in Processes :
           k # i \/ p # MAIN => conn'[k][p] = conn[k][p]
    BY SwitchedConnections
<1>00. EndSwitch(i) /\ header = "wal" =>
        \A k \in Instances, p \in Processes : k # i \/ p # MAIN => conn[k][p] # "joined"
    BY SwitchedConnections
<1> USE CountsAssumption DEF StartUpInv, TypeOK, Modes, MainStates, ConnStates, Processes, Workers, MAIN, ModeInv, ModeSet, WalInv, ConnectionsInv, Connected
<1>1. CASE Start(i)
    BY <1>1 DEF Start, Statement, Follow, Goto
<1>2. CASE Apply(i)
    BY <1>2 DEF Apply, Statement, BeginSwitch, BeginTransaction, Follow, SwitchRefused, Goto
<1>3. CASE EndApply(i)
    BY <1>3 DEF EndApply, Close, OthersJoined, Others, Connected, Goto
<1>4. CASE BeginCheck(i)
    BY <1>4 DEF BeginCheck, Statement, Follow, Goto
<1>5. CASE EndCheck(i)
    BY <1>5 DEF EndCheck, Close, OthersJoined, Others, Connected, Goto
<1>6. CASE Listen(i)
    BY <1>6 DEF Listen, ForkWorkers, Goto
<1>7. CASE Respawn(i)
    BY <1>7 DEF Respawn
<1>8. CASE Terminate(i)
    BY <1>8 DEF Terminate, Goto
<1>9. CASE MainExits(i)
    BY <1>9 DEF MainExits, NoWorkers, Goto
<1>10. CASE WorkerUsesFile(i)
    BY <1>10 DEF WorkerUsesFile, Statement, Follow
<1>11. CASE WorkerExits(i)
    BY <1>11 DEF WorkerExits, Close, OthersJoined, Others, Connected
<1>12. CASE Killed(i)
    BY <1>12 DEF Killed, OthersJoined, Others, Connected
<1>13. CASE EndSwitch(i)
    <2>1. ASSUME NEW j \in Instances, at'[j] \in {"opened", "switching"}
          PROVE  overruled'[j] = "no"
        <3>1. at[j] \in {"opened", "switching"} /\ j # i
            BY <1>13, <2>1 DEF EndSwitch, Goto
        <3>2. at[j] # "switching"
            BY <1>13, <3>1 DEF EndSwitch, EndTransaction, WriterInv
        <3> QED
            BY <1>13, <3>1, <3>2 DEF EndSwitch
    <2> SUFFICES ASSUME NEW j \in Instances, at'[j] \in ModeSet
                 PROVE  /\ header' = asked'[j] \/ overruled'[j] # "no"
                        /\ asked'[j] = "wal" /\ overruled'[j] = "no" =>
                              \A p \in Processes :
                                 conn'[j][p] \in {"idle", "joined"} => conn'[j][p] = "joined"
                        /\ asked'[j] = "wal" => overruled'[j] \in {"no", "early"}
        BY <2>1
    <2>2. asked' = asked /\ header' = asked[i] /\ header # asked[i]
        BY <1>13, SwitchedConnections DEF EndSwitch
    <2>5. \A k \in Instances, p \in Processes :
             k # i \/ p # MAIN => conn'[k][p] = conn[k][p]
        BY <1>13, <1>0
    <2>3. CASE j = i
        <3>1. overruled'[i] = "no"
            BY <1>13 DEF EndSwitch
        <3>2. ASSUME NEW p \in Processes, p # 0
              PROVE  conn'[i][p] = "none"
            <4>1. conn'[i][p] = conn[i][p]
                BY <2>5, <3>2
            <4>2. at[i] = "switching" /\ p \in Workers
                BY <1>13, <3>2 DEF EndSwitch
            <4> QED
                BY <4>1, <4>2
        <3>3. asked[i] = "wal" => conn'[i][0] = "joined"
            BY <1>13, SwitchedConnections
        <3>4. ASSUME asked'[i] = "wal", NEW p \in Processes, conn'[i][p] # "none"
              PROVE  conn'[i][p] = "joined"
            BY <2>2, <3>2, <3>3, <3>4
        <3> QED
            BY <2>2, <2>3, <3>1, <3>4
    <2>4. CASE j # i
        <3>1. at[j] \in ModeSet
            BY <1>13, <2>4 DEF EndSwitch, Goto
        <3>2. overruled'[j] = IF overruled[j] # "no" THEN overruled[j]
                              ELSE IF ~\E p \in Processes : Connected(j, p) THEN "early"
                              ELSE IF at[j] = "serving" THEN "running"
                              ELSE "late"
            BY <1>13, <2>4, <3>1 DEF EndSwitch
        <3>3. overruled'[j] # "no"
            BY <3>2
        <3>4. ASSUME asked[j] = "wal"
              PROVE  overruled'[j] \in {"no", "early"}
            <4>1. CASE overruled[j] # "no"
                BY <3>1, <3>2, <3>4, <4>1
            <4>2. CASE overruled[j] = "no"
                <5>1. header = "wal"
                    BY <3>1, <3>4, <4>2
                <5>2. \A p \in Processes : conn[j][p] # "joined"
                    BY <1>13, <2>4, <5>1, <1>00
                <5>3. \A p \in Processes : ~Connected(j, p)
                    BY <3>1, <3>4, <4>2, <5>2
                <5>4. overruled'[j] = "early"
                    BY <3>2, <4>2, <5>3, Zenon
                <5> QED
                    BY <5>4
            <4> QED
                BY <4>1, <4>2
        <3> QED
            BY <2>2, <3>3, <3>4
    <2> QED
        BY <2>3, <2>4
<1>14. CASE WorkerBeginsWrite(i)
    BY <1>14 DEF WorkerBeginsWrite, BeginTransaction, Follow
<1>15. CASE WorkerEndsWrite(i)
    BY <1>15 DEF WorkerEndsWrite, EndTransaction
<1> QED
    BY <1>1, <1>2, <1>3, <1>4, <1>5, <1>6, <1>7, <1>8, <1>9, <1>10, <1>11, <1>12, <1>13,
       <1>14, <1>15 DEF StepOf

-----------------------------------------------------------------------------
LEMMA StartUpInit == Init => StartUpInv
<1> SUFFICES ASSUME Init
             PROVE  StartUpInv
    OBVIOUS
<1> USE CountsAssumption DEF Init, Modes, MainStates, ConnStates, Processes, Workers, MAIN
<1>1. TypeOK
    <2>1. conn \in [Instances -> [Processes -> ConnStates]]
        OBVIOUS
    <2>2. kills \in 0 .. MaxKills
        OBVIOUS
    <2> QED
        BY <2>1, <2>2 DEF TypeOK
<1>2. ConnectionsInv /\ WalInv /\ WriterInv
    BY NobodyAssumption DEF ConnectionsInv, WalInv, WriterInv
<1>3. SidecarsInv /\ ModeInv
    BY DEF SidecarsInv, ModeInv, ModeSet
<1> QED
    BY <1>1, <1>2, <1>3 DEF StartUpInv

\* Nothing of the invariant changes while no variable does.
LEMMA StartUpStutter == StartUpInv /\ UNCHANGED vars => StartUpInv'
BY DEF StartUpInv, TypeOK, ConnectionsInv, WalInv, SidecarsInv, WriterInv, ModeInv, Someone, Connected, vars

\* The inductive invariant of server start-up: who may be connected at each
\* point of main(), that a connection which has been in WAL keeps the file
\* there, that files beside the executable have a user and a rollback journal has
\* a transaction, and that a mode once verified changes only by being overruled.
THEOREM StartUpInvariant == Spec => []StartUpInv
<1>1. Init => StartUpInv
    BY StartUpInit
<1>2. StartUpInv /\ [Next]_vars => StartUpInv'
    <2> SUFFICES ASSUME StartUpInv, [Next]_vars
                 PROVE  StartUpInv'
        OBVIOUS
    <2>1. CASE Next
        <3>1. PICK i \in Instances : StepOf(i)
            BY <2>1 DEF Next, StepOf
        <3>2. TypeOK'
            BY <3>1, TypeOKStep
        <3>3. ConnectionsInv'
            BY <3>1, ConnectionsInvStep
        <3>4. WalInv'
            BY <3>1, WalInvStep
        <3>5. SidecarsInv'
            BY <3>1, SidecarsInvStep
        <3>6. WriterInv'
            BY <3>1, WriterInvStep
        <3>7. ModeInv'
            BY <3>1, ModeInvStep
        <3> QED
            BY <3>2, <3>3, <3>4, <3>5, <3>6, <3>7 DEF StartUpInv
    <2>2. CASE UNCHANGED vars
        BY <2>2, StartUpStutter
    <2> QED
        BY <2>1, <2>2
<1> QED
    BY <1>1, <1>2, PTL DEF Spec

\* Every variable of start-up keeps its type.
THEOREM StartUpTypeCorrect == Spec => []TypeOK
<1>1. StartUpInv => TypeOK
    BY DEF StartUpInv
<1> QED
    BY <1>1, StartUpInvariant, PTL

\* Once nobody is connected no file is left beside the executable, and in delete
\* mode none is there outside a write transaction, however many instances
\* overlap, unless the last one to use it was killed.
THEOREM OneFile == Spec => []OneFileAtRest
<1>1. StartUpInv => OneFileAtRest
    BY DEF StartUpInv, TypeOK, SidecarsInv, WriterInv, OneFileAtRest, Someone, Connected
<1> QED
    BY <1>1, StartUpInvariant, PTL

\* A server serves in the mode it was asked for, unless an instance with another
\* mode has overruled it; a server in WAL mode cannot be overruled once it has
\* connected again.
THEOREM KeepsMode == Spec => []ServesInItsMode
<1>1. StartUpInv => ServesInItsMode
    BY DEF StartUpInv, ModeInv, ModeSet, ServesInItsMode
<1> QED
    BY <1>1, StartUpInvariant, PTL
=============================================================================
