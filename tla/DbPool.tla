------------------------------- MODULE DbPool -------------------------------
(***************************************************************************)
(* The database pool of the game server. The main thread puts queries in a *)
(* ring; the backup thread looks at each one first and writes ranks to a   *)
(* table of the backup file; the worker thread then executes it, and       *)
(* removes the copy from the backup table, or keeps it in the backup       *)
(* file's own table when the write server has failed.                      *)
(*                                                                         *)
(* The only writes modelled are ranks (SaveScore, SaveTeamScore); a save   *)
(* (SaveTeam) goes the same way. What a read returns and which of the read *)
(* servers answers is left out. A database call succeeds, fails, or is     *)
(* executed and then reported as failed. The main thread never tests       *)
(* whether the ring is full: MaxOutstanding is an assumption on the load.  *)
(***************************************************************************)
EXTENDS Integers, Sequences, SequencesExt, FiniteSets

CONSTANTS
  Ranks,            \* write queries
  Reads,            \* read queries
  QueueSize,        \* 512
  MaxOutstanding,   \* queries that are in the ring at a time
  Null

Adds == {"add_read", "add_write", "add_backup"}   \* Register...Database
Queries == Ranks \cup Reads \cup Adds

ASSUME PoolAssumption ==
  /\ QueueSize \in Nat \ {0}
  /\ MaxOutstanding \in 1 .. QueueSize - 1
  /\ Ranks \cap Reads = {} /\ Adds \cap (Ranks \cup Reads) = {}
  /\ Null \notin Queries /\ Null \notin BOOLEAN

VARIABLES
  (* the main thread *)
  inserted,       \* all queries so far; m_InsertIdx is Slot of their number
  main,           \* "runs", "waits" in OnShutdown, or "left" it
  (* CSharedData *)
  ring,           \* m_aQueries
  shutdown,       \* m_Shutdown
  numBackup, numWorker,   \* the semaphores
  (* CBackup: its JobNum, and whether it has m_pWriteBackup *)
  backup,
  (* CWorker: where it is, its query, the queries it has taken (JobNum is  *)
  (* their number), and Success, FailMode and its connections              *)
  pc, query, handled, worker,
  result,         \* m_pResult of a query: Null until m_Completed
  (* what is stored *)
  remote,         \* table race of the write server
  race,           \* table race of the backup file
  raceBackup,     \* table race_backup of the backup file
  first           \* ranks the backup thread has stored

pool == <<ring, shutdown, numBackup, numWorker>>
stored == <<remote, race, raceBackup, first>>
poolVars == <<inserted, main, pool, backup, pc, query, worker, result, handled, stored>>

PoolInit ==
  /\ inserted = <<>> /\ main = "runs"
  /\ ring = [i \in 0 .. QueueSize - 1 |-> Null]
  /\ shutdown = FALSE /\ numBackup = 0 /\ numWorker = 0
  /\ backup = [job |-> 0, runs |-> TRUE, file |-> FALSE]
  /\ pc = "top" /\ query = Null
  /\ worker = [success |-> FALSE, failMode |-> FALSE, read |-> FALSE, write |-> FALSE, file |-> FALSE]
  /\ result = [q \in Queries |-> Null]
  /\ handled = <<>>
  /\ remote = {} /\ race = {} /\ raceBackup = {} /\ first = {}

Slot(n) == n % QueueSize

-----------------------------------------------------------------------------
(* Databases are registered while the server starts.                       *)
Startup == Range(inserted) \subseteq Adds

(* A query that was not used so far, one of each kind                      *)
Fresh == {q \in Adds : q \notin Range(inserted) /\ Startup} \cup
  {CHOOSE q \in S : TRUE : S \in {Ranks \ Range(inserted), Reads \ Range(inserted)} \ {{}}}

(* Execute, ExecuteWrite, RegisterSqliteDatabase, RegisterMysqlDatabase    *)
Execute_wakes_worker(q) ==
  /\ main = "runs"
  /\ Len(inserted) - Len(handled) < MaxOutstanding
  /\ ring' = [ring EXCEPT ![Slot(Len(inserted))] = q]
  /\ inserted' = Append(inserted, q)
  /\ numWorker' = numWorker + 1
  /\ UNCHANGED <<main, shutdown, numBackup, backup, pc, query, worker, result, handled, stored>>

Execute(q) ==
  /\ main = "runs"
  /\ Len(inserted) - Len(handled) < MaxOutstanding
  /\ ring' = [ring EXCEPT ![Slot(Len(inserted))] = q]
  /\ inserted' = Append(inserted, q)
  /\ numBackup' = numBackup + 1
  /\ UNCHANGED <<main, shutdown, numWorker, backup, pc, query, worker, result, handled, stored>>

OnShutdown ==
  /\ main = "runs"
  /\ main' = "waits"
  /\ shutdown' = TRUE
  /\ numBackup' = numBackup + 1
  /\ UNCHANGED <<inserted, ring, numWorker, backup, pc, query, worker, result, handled, stored>>

(* The loop of OnShutdown ends.                                            *)
LeaveShutdown ==
  /\ main = "waits" /\ ~shutdown
  /\ main' = "left"
  /\ UNCHANGED <<inserted, pool, backup, pc, query, worker, result, handled, stored>>

-----------------------------------------------------------------------------
(* CBackup::ProcessQueries, one turn; ok is whether the write succeeds.    *)
Backup_signals_last(ok) ==
  /\ backup.runs /\ numBackup > 0
  /\ numBackup' = numBackup - 1
  /\ LET q == ring[Slot(backup.job)]
     IN  /\ numWorker' = IF q = Null THEN numWorker ELSE numWorker + 1
         /\ backup' = IF q = Null THEN [job |-> backup.job, runs |-> FALSE, file |-> backup.file]
                      ELSE [job |-> backup.job + 1, runs |-> TRUE,
                            file |-> backup.file \/ q = "add_backup"]
         /\ IF q \in Ranks /\ backup.file /\ ok
            THEN raceBackup' = raceBackup \cup {q} /\ first' = first \cup {q}
            ELSE UNCHANGED <<raceBackup, first>>
  /\ UNCHANGED <<inserted, main, ring, shutdown, pc, query, worker, result, handled, remote, race>>

Backup(ok) ==
  /\ backup.runs /\ numBackup > 0
  /\ numBackup' = numBackup - 1
  /\ numWorker' = numWorker + 1
  /\ LET q == ring[Slot(backup.job)]
     IN  /\ backup' = IF q = Null THEN [job |-> backup.job, runs |-> FALSE, file |-> backup.file]
                      ELSE [job |-> backup.job + 1, runs |-> TRUE,
                            file |-> backup.file \/ q = "add_backup"]
         /\ IF q \in Ranks /\ backup.file /\ ok
            THEN raceBackup' = raceBackup \cup {q} /\ first' = first \cup {q}
            ELSE UNCHANGED <<raceBackup, first>>
  /\ UNCHANGED <<inserted, main, ring, shutdown, pc, query, worker, result, handled, remote, race>>

-----------------------------------------------------------------------------
(* CWorker::ProcessQueries. FailMode ends when no query waits.             *)
WorkerTop ==
  /\ pc = "top"
  /\ pc' = "wait"
  /\ worker' = [worker EXCEPT !.failMode = @ /\ numWorker # 0]
  /\ UNCHANGED <<inserted, main, pool, backup, query, result, handled, stored>>

(* The query is moved out of the ring; none ends the thread.               *)
WorkerTake_leaves_early ==
  /\ pc = "wait" /\ numWorker > 0
  /\ numWorker' = numWorker - 1
  /\ LET q == ring[Slot(Len(handled))]
     IN  IF q = Null \/ shutdown
         THEN /\ shutdown' = FALSE
              /\ pc' = "left"
              /\ UNCHANGED <<ring, handled, query, worker>>
         ELSE /\ ring' = [ring EXCEPT ![Slot(Len(handled))] = Null]
              /\ handled' = Append(handled, q)
              /\ query' = q
              /\ pc' = IF q \in Ranks THEN "write" ELSE "other"
              /\ worker' = [worker EXCEPT !.success = FALSE]
              /\ UNCHANGED shutdown
  /\ UNCHANGED <<inserted, main, numBackup, backup, result, stored>>

WorkerTake ==
  /\ pc = "wait" /\ numWorker > 0
  /\ numWorker' = numWorker - 1
  /\ LET q == ring[Slot(Len(handled))]
     IN  IF q = Null
         THEN /\ shutdown' = FALSE
              /\ pc' = "left"
              /\ UNCHANGED <<ring, handled, query, worker>>
         ELSE /\ ring' = [ring EXCEPT ![Slot(Len(handled))] = Null]
              /\ handled' = Append(handled, q)
              /\ query' = q
              /\ pc' = IF q \in Ranks THEN "write" ELSE "other"
              /\ worker' = [worker EXCEPT !.success = FALSE]
              /\ UNCHANGED shutdown
  /\ UNCHANGED <<inserted, main, numBackup, backup, result, stored>>

(* READ_ACCESS and the registrations                                       *)
WorkerOther(ok) ==
  /\ pc = "other"
  /\ pc' = "complete"
  /\ LET success == query \in Adds \/ (worker.read /\ ~shutdown /\ ~worker.failMode /\ ok)
     IN  worker' = [worker EXCEPT !.success = success,
                      !.failMode = @ \/ ~success,
                      !.read = @ \/ query = "add_read",
                      !.write = @ \/ query = "add_write",
                      !.file = @ \/ query = "add_backup"]
  /\ UNCHANGED <<inserted, main, pool, backup, query, result, handled, stored>>

(* WRITE_ACCESS on the write server                                        *)
Skips == (shutdown \/ worker.failMode) /\ worker.file

WorkerWrite(executed, ok) ==
  /\ pc = "write"
  /\ ok => executed
  /\ LET runs == ~Skips /\ worker.write
         success == runs /\ ok
     IN  /\ remote' = IF runs /\ executed THEN remote \cup {query} ELSE remote
         /\ worker' = [worker EXCEPT !.success = success, !.failMode = @ \/ ~success]
         /\ pc' = IF ~worker.file THEN "complete" ELSE IF success THEN "remove" ELSE "keep"
  /\ UNCHANGED <<inserted, main, pool, backup, query, result, handled, race, raceBackup, first>>

(* NORMAL_SUCCEEDED: DELETE FROM race_backup, also the second statement of *)
(* NORMAL_FAILED                                                           *)
WorkerRemove(ok) ==
  /\ pc = "remove"
  /\ raceBackup' = IF ok THEN raceBackup \ {query} ELSE raceBackup
  /\ pc' = "complete"
  /\ worker' = [worker EXCEPT !.success = @ \/ ok]
  /\ UNCHANGED <<inserted, main, pool, backup, query, result, handled, remote, race, first>>

(* NORMAL_FAILED: INSERT INTO race SELECT * FROM race_backup. It is no     *)
(* error that there is nothing to select.                                  *)
WorkerKeep_ignores_error(ok) ==
  /\ pc = "keep"
  /\ race' = IF ok THEN race \cup ({query} \cap raceBackup) ELSE race
  /\ pc' = "remove"
  /\ UNCHANGED <<inserted, main, pool, backup, query, worker, result, handled, remote, raceBackup, first>>

WorkerKeep(ok) ==
  /\ pc = "keep"
  /\ race' = IF ok THEN race \cup ({query} \cap raceBackup) ELSE race
  /\ pc' = IF ok THEN "remove" ELSE "complete"
  /\ UNCHANGED <<inserted, main, pool, backup, query, worker, result, handled, remote, raceBackup, first>>

WorkerComplete ==
  /\ pc = "complete"
  /\ result' = [result EXCEPT ![query] = worker.success]
  /\ pc' = "top"
  /\ query' = Null
  /\ UNCHANGED <<inserted, main, pool, backup, worker, handled, stored>>

Worker ==
  \/ WorkerTop \/ WorkerTake \/ WorkerComplete
  \/ \E ok \in BOOLEAN : WorkerOther(ok) \/ WorkerRemove(ok) \/ WorkerKeep(ok)
  \/ \E executed, ok \in BOOLEAN : WorkerWrite(executed, ok)

PoolNext ==
  \/ \E q \in Fresh : Execute(q)
  \/ OnShutdown \/ LeaveShutdown
  \/ \E ok \in BOOLEAN : Backup(ok)
  \/ Worker

(* The threads run, and a database call returns.                           *)
Fairness ==
  /\ WF_poolVars(LeaveShutdown)
  /\ WF_poolVars(\E ok \in BOOLEAN : Backup(ok))
  /\ WF_poolVars(Worker)

PoolSpec == PoolInit /\ [][PoolNext]_poolVars /\ Fairness

-----------------------------------------------------------------------------
PoolTypeOK ==
  /\ inserted \in Seq(Queries) /\ handled \in Seq(Queries)
  /\ main \in {"runs", "waits", "left"}
  /\ ring \in [0 .. QueueSize - 1 -> Queries \cup {Null}]
  /\ shutdown \in BOOLEAN /\ numBackup \in Nat /\ numWorker \in Nat
  /\ backup \in [job : Nat, runs : BOOLEAN, file : BOOLEAN]
  /\ pc \in {"top", "wait", "other", "write", "remove", "keep", "complete", "left"}
  /\ query \in Queries \cup {Null}
  /\ worker \in [success : BOOLEAN, failMode : BOOLEAN, read : BOOLEAN, write : BOOLEAN, file : BOOLEAN]
  /\ result \in [Queries -> BOOLEAN \cup {Null}]
  /\ {remote, race, raceBackup, first} \subseteq SUBSET Ranks

Stored == remote \cup race \cup raceBackup

(* A rank that the backup thread has stored is never gone: whenever the    *)
(* server dies, the rank is on the write server or in the backup file.     *)
RankKept == first \subseteq Stored

(* The worker takes the queries in the order of the main thread, each one  *)
(* once and after the backup thread, although the ring is reused.          *)
BackupThenWorker ==
  /\ IsPrefix(handled, inserted)
  /\ Len(handled) <= backup.job /\ backup.job <= Len(inserted)

(* A query that reports success has done its work: a rank is stored,       *)
(* unless the backup thread's own write had failed before.                 *)
SuccessMeansStored == \A q \in Ranks :
  result[q] = TRUE => q \in Stored \/ (worker.file /\ q \notin first)

(* When OnShutdown returns, every query was worked through and answered,   *)
(* and both threads have ended.                                            *)
ShutdownDrains ==
  main = "left" => /\ handled = inserted
                   /\ \A q \in Range(inserted) : result[q] # Null
                   /\ pc = "left" /\ ~backup.runs

(* A query is answered for what was done with it.                          *)
PoolConsistent == PoolTypeOK /\ SuccessMeansStored /\ ShutdownDrains

(* A shutdown comes to an end, whichever thread is ahead and whatever the  *)
(* databases do.                                                           *)
ShutdownEnds == main = "waits" ~> main = "left"
=============================================================================
