----------------------------- MODULE IndexJobs -----------------------------
(***************************************************************************)
(* Background index jobs of the MCP server (mcp/src/tools.rs, server.rs):  *)
(* the job map with its watch channels, the tasks that spawn_index_job     *)
(* starts, the project locks that jobs share with the refresh loop, and    *)
(* the calls of index_now and index_project that claim, join, await and    *)
(* poll jobs. A call is one task on tokio's multi-threaded runtime; it can *)
(* only be dropped where it waits.                                         *)
(***************************************************************************)
EXTENDS Naturals, FiniteSets

CONSTANTS
  Projects,
  Calls,           \* calls of index_now and index_project
  Refreshed,       \* projects with a refresh loop
  MAX_INDEX_JOBS,  \* entries the job map may hold
  MaxJobs          \* bound: jobs ever started

ASSUME JobAssumption == MAX_INDEX_JOBS \in Nat /\ MaxJobs \in Nat
ASSUME TaskAssumption ==
  /\ IsFiniteSet(Projects) /\ Projects # {} /\ Projects \cap (0..MaxJobs) = {}
  /\ Refreshed \subseteq Projects

VARIABLES
  index_jobs,    \* index_jobs[p]: the registered job of p, or NoJob
  started,       \* next_index_job_id: jobs started so far
  job,           \* job[j]: the task of spawn_index_job
  index_locks,   \* index_locks[p]: the mutex in the lock map, or NoMutex
  task,          \* task[t]: a task's use of the project lock
  call,          \* call[c]: a call of index_now or index_project
  lost           \* jobs whose result left the map by retention

jobVars == <<index_jobs, started, job, index_locks, task, call, lost>>

NoJob == 0
JobIds == 1..MaxJobs

\* Users of the project lock: jobs and, named like its project, the refresh loop.
Tasks == JobIds \cup Refreshed

\* A mutex has an identity, since the map may come to hold another one.
Mutexes == 1..(MaxJobs + Cardinality(Projects) + 1)
NoMutex == 0

Job == [pc : {"none", "index", "send", "release", "retain", "over"}, project : Projects,
        result : BOOLEAN]

Task == [mutex : Mutexes \cup {NoMutex}, holds : BOOLEAN]

NoTask == [mutex |-> NoMutex, holds |-> FALSE]

Tools == {"index_now", "index_project"}

Call == [pc : {"idle", "claim", "check", "wait", "remove", "answer", "dropped"},
         tool : Tools, project : Projects, job : JobIds \cup {NoJob}, joined : BOOLEAN,
         result : {"none", "result", "in_progress", "started", "rejected"}]

JobsTypeOK ==
  /\ index_jobs \in [Projects -> JobIds \cup {NoJob}]
  /\ started \in 0..MaxJobs
  /\ job \in [JobIds -> Job]
  /\ index_locks \in [Projects -> Mutexes \cup {NoMutex}]
  /\ task \in [Tasks -> Task]
  /\ call \in [Calls -> Call]
  /\ lost \subseteq JobIds

JobsInit ==
  /\ index_jobs = [p \in Projects |-> NoJob]
  /\ started = 0
  /\ job \in [JobIds -> {[pc |-> "none", project |-> p, result |-> FALSE] :
                          p \in {CHOOSE p \in Projects : TRUE}}]
  /\ index_locks = [p \in Projects |-> NoMutex]
  /\ task = [t \in Tasks |-> NoTask]
  /\ call = [c \in Calls |-> [pc |-> "idle", tool |-> "index_now",
                              project |-> CHOOSE p \in Projects : TRUE, job |-> NoJob,
                              joined |-> FALSE, result |-> "none"]]
  /\ lost = {}

---------------------------------------------------------------------------
(* Helpers.                                                                *)

ProjectOf(t) == IF t \in JobIds THEN job[t].project ELSE t

Registered == {p \in Projects : index_jobs[p] # NoJob}

\* Mutant of remove_index_job_if_id: whatever job the project has is removed.
remove_index_job(p, j) == index_jobs' = [index_jobs EXCEPT ![p] = NoJob]

\* A job is removed by its own id only.
remove_index_job_if_id(p, j) ==
  index_jobs' = [index_jobs EXCEPT ![p] = IF @ = j THEN NoJob ELSE @]

\* Identities of mutexes that nothing refers to.
FreeMutexes == Mutexes \ ({index_locks[p] : p \in Projects} \cup {task[t].mutex : t \in Tasks})

\* Arc::strong_count of the mutex in the map.
StrongCount(p) == 1 + Cardinality({t \in Tasks : task[t].mutex = index_locks[p]})

---------------------------------------------------------------------------
(* The project lock.                                                       *)

\* project_index_lock: the task clones the map's mutex, or a new one.
project_index_lock(t) ==
  LET p == ProjectOf(t) IN
  \E m \in Mutexes :
    /\ IF index_locks[p] = NoMutex
       THEN m = CHOOSE n \in FreeMutexes : TRUE
       ELSE m = index_locks[p]
    /\ index_locks' = [index_locks EXCEPT ![p] = m]
    /\ task' = [task EXCEPT ![t].mutex = m]

\* The mutex is granted to a task that has a clone of it.
Grant(t) ==
  /\ task[t].mutex # NoMutex
  /\ ~task[t].holds
  /\ \A u \in Tasks : task[u].holds => task[u].mutex # task[t].mutex
  /\ task' = [task EXCEPT ![t].holds = TRUE]
  /\ UNCHANGED <<index_jobs, started, job, index_locks, call, lost>>

\* Mutant of release_index_lock: the entry goes, whoever has a clone.
release_index_lock_always(p) == index_locks' = [index_locks EXCEPT ![p] = NoMutex]

\* release_index_lock: the entry goes if only the map refers to the mutex.
release_index_lock(p) ==
  index_locks' = [index_locks EXCEPT
    ![p] = IF @ # NoMutex /\ StrongCount(p) = 1 THEN NoMutex ELSE @]

---------------------------------------------------------------------------
(* The task of spawn_index_job.                                            *)

\* run_index_project: clone the lock, wait for it ...
JobLock(j) ==
  /\ job[j].pc = "index"
  /\ task[j].mutex = NoMutex
  /\ project_index_lock(j)
  /\ UNCHANGED <<index_jobs, started, job, call, lost>>

\* ... run the worker and refresh the engine. It succeeds, fails, runs into its
\* deadline or panics; in any case guard and clone are dropped.
JobEnds(j) ==
  /\ job[j].pc = "index"
  /\ task[j].holds
  /\ task' = [task EXCEPT ![j] = NoTask]
  /\ job' = [job EXCEPT ![j].pc = "send"]
  /\ UNCHANGED <<index_jobs, started, index_locks, call, lost>>

\* The result is stored in the watch channel; calls that wait are woken.
JobSends(j) ==
  /\ job[j].pc = "send"
  /\ job' = [job EXCEPT ![j].pc = "release", ![j].result = TRUE]
  /\ UNCHANGED <<index_jobs, started, index_locks, task, call, lost>>

JobReleases(j) ==
  /\ job[j].pc = "release"
  /\ release_index_lock(job[j].project)
  /\ job' = [job EXCEPT ![j].pc = "retain"]
  /\ UNCHANGED <<index_jobs, started, task, call, lost>>

\* index_result_retention is over.
JobExpires(j) ==
  /\ job[j].pc = "retain"
  /\ lost' = IF index_jobs[job[j].project] = j THEN lost \cup {j} ELSE lost
  /\ remove_index_job_if_id(job[j].project, j)
  /\ job' = [job EXCEPT ![j].pc = "over"]
  /\ UNCHANGED <<started, index_locks, task, call>>

JobStep(j) ==
  JobLock(j) \/ Grant(j) \/ JobEnds(j) \/ JobSends(j) \/ JobReleases(j) \/ JobExpires(j)

---------------------------------------------------------------------------
(* The refresh loop, as a user of the project lock (Freshness has the rest). *)

RefreshLock(p) ==
  /\ task[p].mutex = NoMutex
  /\ project_index_lock(p)
  /\ UNCHANGED <<index_jobs, started, job, call, lost>>

RefreshEnds(p) ==
  /\ task[p].holds
  /\ task' = [task EXCEPT ![p] = NoTask]
  /\ UNCHANGED <<index_jobs, started, job, index_locks, call, lost>>

RefreshStep(p) == RefreshLock(p) \/ Grant(p) \/ RefreshEnds(p)

---------------------------------------------------------------------------
(* Calls. The steps below, but for Wake and TimeOut, are parts of one poll of  *)
(* the task: it cannot be dropped between them.                            *)

BeginCall(c, tool, p) ==
  call' = [call EXCEPT ![c].pc = "claim", ![c].tool = tool, ![c].project = p]

Answer(c, result) == [call EXCEPT ![c].pc = "answer", ![c].result = result]

\* claim_index_job, one critical section of the job map: join the project's job,
\* start one, or be turned away. index_project does not wait for a job it joins.
ClaimExisting(c) ==
  LET j == index_jobs[call[c].project] IN
  /\ call[c].pc = "claim"
  /\ j # NoJob
  /\ call' = [call EXCEPT ![c].pc = "check", ![c].job = j, ![c].joined = TRUE]
  /\ UNCHANGED <<index_jobs, started, job, index_locks, task, lost>>

ClaimStarted(c) ==
  LET p == call[c].project
      j == started + 1
  IN /\ call[c].pc = "claim"
     /\ index_jobs[p] = NoJob
     /\ Cardinality(Registered) < MAX_INDEX_JOBS
     /\ started < MaxJobs
     /\ started' = j
     /\ index_jobs' = [index_jobs EXCEPT ![p] = j]
     /\ job' = [job EXCEPT ![j].pc = "index", ![j].project = p]
     /\ call' = [call EXCEPT ![c].pc = "check", ![c].job = j, ![c].joined = FALSE]
     /\ UNCHANGED <<index_locks, task, lost>>

ClaimRejected(c) ==
  /\ call[c].pc = "claim"
  /\ index_jobs[call[c].project] = NoJob
  /\ Cardinality(Registered) >= MAX_INDEX_JOBS
  /\ call' = Answer(c, "rejected")
  /\ UNCHANGED <<index_jobs, started, job, index_locks, task, lost>>

\* wait_for_index_job looks at the channel, as does index_project for a job it joined.
CheckFinished(c) ==
  /\ call[c].pc = "check"
  /\ job[call[c].job].result
  /\ call' = [call EXCEPT ![c].pc = "remove"]
  /\ UNCHANGED <<index_jobs, started, job, index_locks, task, lost>>

CheckRunning(c) ==
  /\ call[c].pc = "check"
  /\ ~job[call[c].job].result
  /\ call' = IF call[c].tool = "index_project" /\ call[c].joined
             THEN Answer(c, "in_progress")
             ELSE [call EXCEPT ![c].pc = "wait"]
  /\ UNCHANGED <<index_jobs, started, job, index_locks, task, lost>>

\* The call that has seen the result removes the job from the map and returns it.
Remove(c) ==
  /\ call[c].pc = "remove"
  /\ remove_index_job_if_id(call[c].project, call[c].job)
  /\ call' = Answer(c, "result")
  /\ UNCHANGED <<started, job, index_locks, task, lost>>

\* The channel has changed: the waiting task is polled again.
Wake(c) ==
  /\ call[c].pc = "wait"
  /\ job[call[c].job].result
  /\ call' = [call EXCEPT ![c].pc = "check"]
  /\ UNCHANGED <<index_jobs, started, job, index_locks, task, lost>>

\* index_response_timeout: the answer is that the job was started, even if the result
\* came between the last look at the channel and the look at the clock.
TimeOut(c) ==
  /\ call[c].pc = "wait"
  /\ call[c].tool = "index_project"
  /\ call' = Answer(c, "started")
  /\ UNCHANGED <<index_jobs, started, job, index_locks, task, lost>>

\* The request is cancelled: only its waiting ends.
Drop(c) == call' = [call EXCEPT ![c].pc = "dropped"]

CallStep(c) ==
  ClaimExisting(c) \/ ClaimStarted(c) \/ ClaimRejected(c) \/ CheckFinished(c)
    \/ CheckRunning(c) \/ Remove(c)

---------------------------------------------------------------------------
(* Properties.                                                             *)

\* One indexer per project (release_index_lock): jobs and the refresh loop of one
\* project never index at the same time, although the lock's map entry comes and
\* goes.
OneIndexerPerProject ==
  \A t, u \in Tasks :
    task[t].holds /\ task[u].holds /\ ProjectOf(t) = ProjectOf(u) => t = u

\* claim_index_job: a job is in the map from its start until its result is there,
\* so that no second job of the project is started beside it and somebody can
\* collect its result.
RunningJobsAreRegistered ==
  \A j \in JobIds : job[j].pc \in {"index", "send"} => index_jobs[job[j].project] = j

=============================================================================
