---------------------------- MODULE ServerProofs ----------------------------
(***************************************************************************)
(* Proofs about the MCP server's session and its index jobs, for any number *)
(* of requests, request ids, projects, jobs and permits and any size of the *)
(* outbox: one indexer per project, no index job or result forgotten, a     *)
(* response per request and nothing else of it left, the refinement of      *)
(* RequestPort, and the types.                                              *)
(***************************************************************************)
EXTENDS Server, FiniteSetTheorems, SequenceTheorems, TLAPS

JobFields == {"pc", "project", "result"}
CallFields == {"pc", "tool", "project", "job", "joined", "result"}

JobTypes ==
  /\ started \in 0..MaxJobs
  /\ DOMAIN index_jobs = Projects
  /\ DOMAIN job = JobIds
  /\ \A j \in JobIds : /\ DOMAIN job[j] = JobFields
                       /\ job[j].project \in Projects /\ job[j].result \in BOOLEAN
  /\ DOMAIN call = Calls
  /\ \A c \in Calls : DOMAIN call[c] = CallFields /\ call[c].project \in Projects

LockTypes ==
  /\ DOMAIN index_locks = Projects
  /\ DOMAIN task = Tasks
  /\ \A t \in Tasks : /\ DOMAIN task[t] = {"mutex", "holds"}
                      /\ task[t].holds \in BOOLEAN

\* A job that has not been started is untouched.
Unstarted == \A j \in JobIds : j > started => job[j].pc = "none" /\ ~job[j].result

\* Whoever has a clone of a project's mutex has the one in the map, and a mutex is
\* held by one task at a time.
Locking ==
  /\ \A t \in Tasks : task[t].mutex # NoMutex => index_locks[ProjectOf(t)] = task[t].mutex
  /\ \A t \in Tasks : task[t].holds => task[t].mutex # NoMutex
  /\ \A t, u \in Tasks : task[t].holds /\ task[u].holds /\ task[t].mutex = task[u].mutex => t = u
  /\ \A j \in JobIds : task[j].mutex # NoMutex => job[j].pc = "index"

\* A call that removes a job has seen its result.
Registry ==
  /\ \A j \in JobIds : job[j].pc \in {"index", "send"} => index_jobs[job[j].project] = j
  /\ \A j \in JobIds : job[j].result => job[j].pc \in {"release", "retain", "over"}
  /\ \A c \in Calls : call[c].pc \in {"check", "wait", "remove"} => call[c].job \in JobIds
  /\ \A c \in Calls : call[c].pc = "remove" => job[call[c].job].result
  /\ \A p \in Projects : index_jobs[p] # NoJob => index_jobs[p] \in JobIds

JobsInv == JobTypes /\ LockTypes /\ Unstarted /\ Locking /\ Registry

-----------------------------------------------------------------------------
(* The project locks and the jobs.                                         *)

LEMMA NoMutexIsNone == NoMutex \notin Mutexes
BY DEF NoMutex, Mutexes

LEMMA TasksAreFinite == IsFiniteSet(Tasks)
<1>1. IsFiniteSet(JobIds)
  BY JobAssumption, FS_Interval DEF JobIds
<1>2. IsFiniteSet(Refreshed)
  BY TaskAssumption, FS_Subset
<1> QED
  BY <1>1, <1>2, FS_Union DEF Tasks

\* The refresh loops are no jobs.
LEMMA TasksDiffer == JobIds \cap Projects = {} /\ NoJob \notin JobIds
BY TaskAssumption, JobAssumption DEF JobIds, NoJob

LEMMA JobsInvInit == Init => JobsInv
<1> SUFFICES ASSUME Init PROVE JobsInv
  OBVIOUS
<1> USE DEF Init, JobsInit
<1>1. JobTypes
  <2>1. (CHOOSE p \in Projects : TRUE) \in Projects
    BY TaskAssumption
  <2>2. \A j \in JobIds : /\ DOMAIN job[j] = JobFields
                          /\ job[j].project \in Projects /\ job[j].result \in BOOLEAN
    <3> SUFFICES ASSUME NEW j \in JobIds
                 PROVE  /\ DOMAIN job[j] = JobFields
                        /\ job[j].project \in Projects /\ job[j].result \in BOOLEAN
      OBVIOUS
    <3> DEFINE q == CHOOSE p \in Projects : TRUE
    <3>1. job[j] \in {[pc |-> "none", project |-> p, result |-> FALSE] : p \in {q}}
      OBVIOUS
    <3> HIDE DEF q
    <3>2. job[j] = [pc |-> "none", project |-> q, result |-> FALSE]
      BY <3>1
    <3> QED
      BY <2>1, <3>2 DEF JobFields, q
  <2>3. \A c \in Calls : DOMAIN call[c] = CallFields /\ call[c].project \in Projects
    BY <2>1 DEF CallFields
  <2> QED
    BY <2>2, <2>3, JobAssumption DEF JobTypes
<1>2. LockTypes
  BY DEF LockTypes, NoTask
<1>3. Unstarted /\ Locking
  BY DEF Unstarted, Locking, NoTask, Tasks
<1>4. Registry
  BY DEF Registry, NoJob
<1> QED
  BY <1>1, <1>2, <1>3, <1>4 DEF JobsInv

\* A task clones the mutex in the map. Where there is none, nobody has a clone.
LEMMA CloneInv ==
  ASSUME JobsInv, NEW t \in Tasks, task[t].mutex = NoMutex, t \in JobIds => job[t].pc = "index",
         project_index_lock(t),
         UNCHANGED <<index_jobs, started, job, call, lost>>
  PROVE  JobsInv'
<1> USE DEF JobsInv
<1>1. JobTypes' /\ Unstarted' /\ Registry'
  BY DEF JobTypes, Unstarted, Registry
<1>2. PICK m \in Mutexes :
        /\ index_locks[ProjectOf(t)] # NoMutex => m = index_locks[ProjectOf(t)]
        /\ index_locks' = [index_locks EXCEPT ![ProjectOf(t)] = m]
        /\ task' = [task EXCEPT ![t].mutex = m]
  BY DEF project_index_lock
<1>3. LockTypes'
  BY <1>2 DEF LockTypes
<1>4. ProjectOf(t) \in Projects /\ \A u \in Tasks : ProjectOf(u)' = ProjectOf(u)
  BY TaskAssumption DEF ProjectOf, JobTypes, Tasks
<1>5. \A u \in Tasks : task'[u].holds = task[u].holds
                       /\ (u # t => task'[u].mutex = task[u].mutex)
  BY <1>2 DEF LockTypes
<1>6. task'[t].mutex = m /\ index_locks'[ProjectOf(t)] = m /\ m # NoMutex
  BY <1>2, <1>4, NoMutexIsNone DEF LockTypes
<1>7. ~task[t].holds
  BY DEF Locking
<1>8. \A u \in Tasks : task'[u].mutex # NoMutex => index_locks'[ProjectOf(u)] = task'[u].mutex
  BY <1>2, <1>4, <1>5, <1>6 DEF Locking, LockTypes
<1>9. Locking'
  BY <1>4, <1>5, <1>6, <1>7, <1>8 DEF Locking, Tasks
<1> QED
  BY <1>1, <1>3, <1>9

LEMMA GrantInv ==
  ASSUME JobsInv, NEW t \in Tasks, Grant(t)
  PROVE  JobsInv'
<1> USE DEF JobsInv, Grant
<1>1. JobTypes' /\ Unstarted' /\ Registry'
  BY DEF JobTypes, Unstarted, Registry
<1>2. LockTypes'
  BY DEF LockTypes
<1>3. \A u \in Tasks : task'[u].mutex = task[u].mutex /\ ProjectOf(u)' = ProjectOf(u)
                       /\ (u # t => task'[u].holds = task[u].holds)
  BY DEF LockTypes, ProjectOf
<1>4. \A u, v \in Tasks :
        task'[u].holds /\ task'[v].holds /\ task'[u].mutex = task'[v].mutex => u = v
  BY <1>3 DEF Locking
<1>5. \A u \in Tasks : task'[u].holds => task'[u].mutex # NoMutex
  BY <1>3 DEF Locking
<1>6. Locking'
  BY <1>3, <1>4, <1>5 DEF Locking, Tasks
<1> QED
  BY <1>1, <1>2, <1>6

\* A task drops guard and clone.
LEMMA UnlockInv ==
  ASSUME JobsInv, NEW t \in Tasks, task' = [task EXCEPT ![t] = NoTask],
         UNCHANGED <<index_jobs, started, index_locks, call, lost>>,
         \/ t \in JobIds /\ job[t].pc = "index" /\ job' = [job EXCEPT ![t].pc = "send"]
         \/ t \in Refreshed /\ UNCHANGED job
  PROVE  JobsInv'
<1> USE DEF JobsInv
<1>1. JobTypes' /\ Unstarted'
  BY DEF JobTypes, Unstarted, JobFields
<1>2. Registry'
  BY DEF Registry, JobTypes, JobFields
<1>3. LockTypes'
  BY DEF LockTypes, NoTask
<1>4. \A u \in Tasks : ProjectOf(u)' = ProjectOf(u)
  BY DEF JobTypes, JobFields, ProjectOf
<1>5. task'[t].mutex = NoMutex /\ ~task'[t].holds /\ \A u \in Tasks \ {t} : task'[u] = task[u]
  BY DEF LockTypes, NoTask
<1>6. Locking'
  BY <1>4, <1>5, TasksDiffer, TaskAssumption DEF Locking, Tasks, JobTypes, JobFields
<1> QED
  BY <1>1, <1>2, <1>3, <1>6

\* The map's entry goes only if nobody has a clone of its mutex.
LEMMA ReleaseInv ==
  ASSUME JobsInv, NEW j \in JobIds, JobReleases(j)
  PROVE  JobsInv'
<1> USE DEF JobsInv, JobReleases
<1>1. JobTypes' /\ Unstarted'
  BY DEF JobTypes, Unstarted, JobFields
<1>2. Registry'
  BY DEF Registry, JobTypes, JobFields
<1>3. LockTypes'
  BY DEF LockTypes, release_index_lock
<1> DEFINE p == job[j].project
           clones == {t \in Tasks : task[t].mutex = index_locks[p]}
<1>4. \A u \in Tasks : ProjectOf(u)' = ProjectOf(u)
  BY DEF JobTypes, JobFields, ProjectOf
<1>5. IsFiniteSet(clones)
  BY TasksAreFinite, FS_Subset
<1>6. StrongCount(p) = 1 => clones = {}
  BY <1>5, FS_EmptySet, FS_CardinalityType, SMTT(30) DEF StrongCount
<1>7. \A u \in Tasks : task[u].mutex # NoMutex => index_locks'[ProjectOf(u)] = task[u].mutex
  BY <1>6 DEF release_index_lock, Locking, LockTypes, JobTypes
<1>8. Locking'
  BY <1>4, <1>7 DEF Locking, JobTypes, JobFields
<1> QED
  BY <1>1, <1>2, <1>3, <1>8

LEMMA SendsInv ==
  ASSUME JobsInv, NEW j \in JobIds, JobSends(j)
  PROVE  JobsInv'
<1> USE DEF JobsInv, JobSends
<1>1. JobTypes' /\ Unstarted'
  BY DEF JobTypes, Unstarted, JobFields
<1>2. LockTypes'
  BY DEF LockTypes
<1>3. \A u \in Tasks : ProjectOf(u)' = ProjectOf(u)
  BY DEF JobTypes, JobFields, ProjectOf
<1>4. Locking'
  BY <1>3 DEF Locking, JobTypes, JobFields
<1>5. Registry'
  BY DEF Registry, JobTypes, JobFields
<1> QED
  BY <1>1, <1>2, <1>4, <1>5

LEMMA ExpiresInv ==
  ASSUME JobsInv, NEW j \in JobIds, JobExpires(j)
  PROVE  JobsInv'
<1> USE DEF JobsInv, JobExpires
<1>1. JobTypes' /\ Unstarted'
  BY DEF JobTypes, Unstarted, JobFields, remove_index_job_if_id
<1>2. LockTypes'
  BY DEF LockTypes
<1>3. \A u \in Tasks : ProjectOf(u)' = ProjectOf(u)
  BY DEF JobTypes, JobFields, ProjectOf
<1>4. Locking'
  BY <1>3 DEF Locking, JobTypes, JobFields
<1>5. Registry'
  BY DEF Registry, JobTypes, JobFields, remove_index_job_if_id
<1> QED
  BY <1>1, <1>2, <1>4, <1>5

LEMMA JobStepInv ==
  ASSUME JobsInv, NEW j \in JobIds, JobStep(j)
  PROVE  JobsInv'
<1>1. CASE JobLock(j)
  BY <1>1, CloneInv DEF JobLock, Tasks
<1>2. CASE Grant(j)
  BY <1>2, GrantInv DEF Tasks
<1>3. CASE JobEnds(j)
  BY <1>3, UnlockInv DEF JobEnds, Tasks
<1> QED
  BY <1>1, <1>2, <1>3, SendsInv, ReleaseInv, ExpiresInv DEF JobStep

LEMMA RefreshStepInv ==
  ASSUME JobsInv, NEW p \in Refreshed, RefreshStep(p)
  PROVE  JobsInv'
<1>1. p \in Tasks /\ p \notin JobIds
  BY TaskAssumption, TasksDiffer DEF Tasks
<1>2. CASE RefreshLock(p)
  BY <1>1, <1>2, CloneInv DEF RefreshLock
<1>3. CASE Grant(p)
  BY <1>1, <1>3, GrantInv
<1>4. CASE RefreshEnds(p)
  BY <1>1, <1>4, UnlockInv DEF RefreshEnds
<1> QED
  BY <1>2, <1>3, <1>4 DEF RefreshStep

-----------------------------------------------------------------------------
(* The calls.                                                              *)

\* A step of a call changes neither jobs nor locks unless it starts or removes a job.
LEMMA CallOnlyInv ==
  ASSUME JobsInv, UNCHANGED <<index_jobs, started, job, index_locks, task>>,
         DOMAIN call' = Calls,
         \A c \in Calls :
           \/ call'[c] = call[c]
           \/ /\ DOMAIN call'[c] = CallFields /\ call'[c].project \in Projects
              /\ call'[c].pc \in {"check", "wait", "remove"} => call'[c].job \in JobIds
              /\ call'[c].pc = "remove" => job[call'[c].job].result
  PROVE  JobsInv'
<1> USE DEF JobsInv
<1>1. JobTypes' /\ Unstarted'
  BY DEF JobTypes, Unstarted
<1>2. LockTypes'
  BY DEF LockTypes
<1>3. Locking'
  BY DEF Locking, ProjectOf
<1>4. Registry'
  BY DEF Registry
<1> QED
  BY <1>1, <1>2, <1>3, <1>4

LEMMA IdleInv ==
  ASSUME JobsInv, UNCHANGED <<index_jobs, started, job, index_locks, task, call>>
  PROVE  JobsInv'
BY CallOnlyInv DEF JobsInv, JobTypes

LEMMA BeginInv ==
  ASSUME JobsInv, NEW c \in Calls, NEW u \in Tools, NEW p \in Projects, BeginCall(c, u, p),
         UNCHANGED <<index_jobs, started, job, index_locks, task>>
  PROVE  JobsInv'
<1>1. DOMAIN call' = Calls
  BY DEF BeginCall, JobsInv, JobTypes
<1>2. \A d \in Calls \ {c} : call'[d] = call[d]
  BY DEF BeginCall, JobsInv, JobTypes
<1>3. DOMAIN call'[c] = CallFields /\ call'[c].project = p /\ call'[c].pc = "claim"
  BY DEF BeginCall, JobsInv, JobTypes, CallFields
<1> QED
  BY <1>1, <1>2, <1>3, CallOnlyInv

LEMMA DropInv ==
  ASSUME JobsInv, NEW c \in Calls, Drop(c),
         UNCHANGED <<index_jobs, started, job, index_locks, task>>
  PROVE  JobsInv'
<1>1. DOMAIN call' = Calls
  BY DEF Drop, JobsInv, JobTypes
<1>2. \A d \in Calls \ {c} : call'[d] = call[d]
  BY DEF Drop, JobsInv, JobTypes
<1>3. /\ DOMAIN call'[c] = CallFields /\ call'[c].project = call[c].project
      /\ call'[c].pc = "dropped"
  BY DEF Drop, JobsInv, JobTypes, CallFields
<1> QED
  BY <1>1, <1>2, <1>3, CallOnlyInv DEF JobsInv, JobTypes

\* The new job's number is not in use, and its project has no other.
LEMMA ClaimStartedInv ==
  ASSUME JobsInv, NEW c \in Calls, ClaimStarted(c)
  PROVE  JobsInv'
<1> DEFINE p == call[c].project
           j == started + 1
<1> USE DEF JobsInv
<1>1. p \in Projects /\ j \in JobIds /\ j # NoJob
  BY JobAssumption DEF ClaimStarted, JobTypes, JobIds, NoJob
<1>2. /\ index_jobs[p] = NoJob /\ started' = j
      /\ index_jobs' = [index_jobs EXCEPT ![p] = j]
      /\ job' = [job EXCEPT ![j].pc = "index", ![j].project = p]
      /\ call' = [call EXCEPT ![c].pc = "check", ![c].job = j, ![c].joined = FALSE]
      /\ UNCHANGED <<index_locks, task, lost>>
  BY DEF ClaimStarted
<1>3. job[j].pc = "none" /\ ~job[j].result /\ task[j].mutex = NoMutex /\ ~task[j].holds
  BY <1>1, JobAssumption DEF Unstarted, JobTypes, Locking, Tasks
<1> HIDE DEF p, j
<1>4. /\ DOMAIN job' = JobIds /\ \A i \in JobIds \ {j} : job'[i] = job[i]
      /\ DOMAIN job'[j] = JobFields /\ job'[j].pc = "index" /\ job'[j].project = p
      /\ job'[j].result = job[j].result
  BY <1>1, <1>2 DEF JobTypes, JobFields
<1>5. /\ DOMAIN call' = Calls /\ \A d \in Calls \ {c} : call'[d] = call[d]
      /\ DOMAIN call'[c] = CallFields /\ call'[c].pc = "check" /\ call'[c].job = j
      /\ call'[c].project = call[c].project
  BY <1>1, <1>2 DEF JobTypes, CallFields
<1>6. JobTypes'
  <2>1. started' \in 0..MaxJobs /\ DOMAIN index_jobs' = Projects
    BY <1>1, <1>2, JobAssumption DEF JobTypes, JobIds
  <2> QED
    BY <2>1, <1>1, <1>4, <1>5 DEF JobTypes
<1>7. LockTypes'
  BY <1>2 DEF LockTypes
<1>8. Unstarted'
  BY <1>1, <1>2, <1>4, JobAssumption DEF Unstarted, JobTypes, JobIds, j
<1>9. Locking'
  <2>1. \A t \in Tasks : task[t].mutex # NoMutex => ProjectOf(t)' = ProjectOf(t)
    BY <1>3, <1>4 DEF ProjectOf
  <2> QED
    BY <2>1, <1>2, <1>3, <1>4 DEF Locking
<1>10. Registry'
  <2>1. \A i \in JobIds : job'[i].pc \in {"index", "send"} => index_jobs'[job'[i].project] = i
    BY <1>1, <1>2, <1>4, TasksDiffer DEF Registry, JobTypes
  <2>2. \A i \in JobIds : job'[i].result => job'[i].pc \in {"release", "retain", "over"}
    BY <1>3, <1>4 DEF Registry
  <2>3. \A d \in Calls : call'[d].pc \in {"check", "wait", "remove"} => call'[d].job \in JobIds
    BY <1>1, <1>5 DEF Registry
  <2>4. \A d \in Calls : call'[d].pc = "remove" => job'[call'[d].job].result
    BY <1>3, <1>4, <1>5 DEF Registry
  <2>5. \A q \in Projects : index_jobs'[q] # NoJob => index_jobs'[q] \in JobIds
    BY <1>1, <1>2 DEF Registry, JobTypes
  <2> QED
    BY <2>1, <2>2, <2>3, <2>4, <2>5 DEF Registry
<1> QED
  BY <1>6, <1>7, <1>8, <1>9, <1>10

\* Only a job with a result is removed.
LEMMA RemoveInv ==
  ASSUME JobsInv, NEW c \in Calls, Remove(c)
  PROVE  JobsInv'
<1> USE DEF JobsInv
<1>1. /\ DOMAIN call' = Calls /\ \A d \in Calls \ {c} : call'[d] = call[d]
      /\ DOMAIN call'[c] = CallFields /\ call'[c].pc = "answer"
      /\ call'[c].project = call[c].project
  BY DEF Remove, Answer, JobTypes, CallFields
<1>2. /\ DOMAIN index_jobs' = Projects
      /\ \A p \in Projects : \/ index_jobs'[p] = index_jobs[p]
                             \/ index_jobs'[p] = NoJob /\ index_jobs[p] = call[c].job
  BY DEF Remove, remove_index_job_if_id, JobTypes
<1>3. UNCHANGED <<started, job, index_locks, task, lost>>
  BY DEF Remove
<1>4. call[c].job \in JobIds /\ job[call[c].job].result
  BY DEF Remove, Registry
<1>5. JobTypes' /\ Unstarted'
  BY <1>1, <1>2, <1>3 DEF JobTypes, Unstarted
<1>6. LockTypes' /\ Locking'
  BY <1>3 DEF LockTypes, Locking, ProjectOf
<1>7. Registry'
  BY <1>1, <1>2, <1>3, <1>4 DEF Registry, JobTypes
<1> QED
  BY <1>5, <1>6, <1>7

LEMMA CallStepInv ==
  ASSUME JobsInv, NEW c \in Calls, CallStep(c) \/ Wake(c) \/ TimeOut(c)
  PROVE  JobsInv'
<1> DEFINE Moves(pc) ==
      /\ UNCHANGED <<index_jobs, started, job, index_locks, task>>
      /\ DOMAIN call' = Calls /\ \A d \in Calls \ {c} : call'[d] = call[d]
      /\ DOMAIN call'[c] = CallFields /\ call'[c].project = call[c].project
      /\ call'[c].pc = pc
<1> USE DEF JobsInv
<1>1. CASE ClaimExisting(c)
  <2>1. Moves("check") /\ call'[c].job = index_jobs[call[c].project]
    BY <1>1 DEF ClaimExisting, JobTypes, CallFields
  <2>2. index_jobs[call[c].project] \in JobIds
    BY <1>1 DEF ClaimExisting, JobTypes, Registry
  <2> QED
    BY <2>1, <2>2, CallOnlyInv DEF JobTypes
<1>2. CASE ClaimRejected(c) \/ TimeOut(c)
  <2>1. Moves("answer")
    BY <1>2 DEF ClaimRejected, TimeOut, Answer, JobTypes, CallFields
  <2> QED
    BY <2>1, CallOnlyInv DEF JobTypes
<1>3. CASE CheckFinished(c)
  <2>1. Moves("remove") /\ call'[c].job = call[c].job
    BY <1>3 DEF CheckFinished, JobTypes, CallFields
  <2>2. call[c].job \in JobIds /\ job[call[c].job].result
    BY <1>3 DEF CheckFinished, Registry
  <2> QED
    BY <2>1, <2>2, CallOnlyInv DEF JobTypes
<1>4. CASE CheckRunning(c)
  <2>1. (Moves("answer") \/ Moves("wait")) /\ call'[c].job = call[c].job
    BY <1>4 DEF CheckRunning, Answer, JobTypes, CallFields
  <2>2. call[c].job \in JobIds
    BY <1>4 DEF CheckRunning, Registry
  <2> QED
    BY <2>1, <2>2, CallOnlyInv DEF JobTypes
<1>5. CASE Wake(c)
  <2>1. Moves("check") /\ call'[c].job = call[c].job
    BY <1>5 DEF Wake, JobTypes, CallFields
  <2>2. call[c].job \in JobIds
    BY <1>5 DEF Wake, Registry
  <2> QED
    BY <2>1, <2>2, CallOnlyInv DEF JobTypes
<1> QED
  BY <1>1, <1>2, <1>3, <1>4, <1>5, ClaimStartedInv, RemoveInv DEF CallStep

LEMMA JobsInvStep == JobsInv /\ [Next]_vars => JobsInv'
<1> SUFFICES ASSUME JobsInv, [Next]_vars PROVE JobsInv'
  OBVIOUS
<1> USE ServerAssumption
<1>1. ASSUME NEW r \in Requests, NEW k \in Keys, NEW u \in Uses, NEW p \in Projects,
             Receive(r, k, u, p)
      PROVE  JobsInv'
  <2>1. CASE u \in Tools
    BY <1>1, <2>1, BeginInv DEF Receive
  <2>2. CASE u \notin Tools
    BY <1>1, <2>2, IdleInv DEF Receive
  <2> QED
    BY <2>1, <2>2
<1>2. ASSUME NEW r \in Requests, RequestStep(r)
      PROVE  JobsInv'
  <2>1. CASE PollCall(r) \/ CallResumes(r)
    BY <2>1, CallStepInv DEF PollCall, CallResumes
  <2>2. CASE CallWaits(r) \/ AbortRequest(r)
    BY <2>2, DropInv, IdleInv DEF CallWaits, AbortRequest
  <2> QED
    BY <1>2, <2>1, <2>2, IdleInv
    DEF RequestStep, StartRequest, CallReturns, OtherWaits, OtherResumes, OtherReturns,
        OtherPanics, jobVars
<1>3. CASE UNCHANGED jobVars
  BY <1>3, IdleInv DEF jobVars
<1> QED
  BY <1>1, <1>2, <1>3, JobStepInv, RefreshStepInv DEF Next, vars

\* In every reachable state.
THEOREM JobsInvariant == Spec => []JobsInv
BY JobsInvInit, JobsInvStep, PTL DEF Spec

\* Jobs and the refresh loop of one project never index at the same time, for any
\* number of projects and jobs, although the map's entry of the lock comes and goes
\* (release_index_lock in mcp/src/server.rs).
THEOREM JobsExclude == Spec => []OneIndexerPerProject
<1>1. JobsInv => OneIndexerPerProject
  BY DEF JobsInv, Locking, OneIndexerPerProject
<1> QED
  BY <1>1, JobsInvariant, PTL

\* A job is in the map from its start until its result is there, for any number of
\* calls that start, join, await and remove jobs (claim_index_job in mcp/src/tools.rs).
THEOREM JobsAreRegistered == Spec => []RunningJobsAreRegistered
<1>1. JobsInv => RunningJobsAreRegistered
  BY DEF JobsInv, Registry, RunningJobsAreRegistered
<1> QED
  BY <1>1, JobsInvariant, PTL

-----------------------------------------------------------------------------
(* The session.                                                            *)

\* The frames in the outbox.
Queued == {outbox[i] : i \in 1..Len(outbox)}

SessionTypes ==
  /\ DOMAIN reader = {"pc", "frames"}
  /\ DOMAIN key = Requests /\ DOMAIN worker = Requests /\ DOMAIN delivery = Requests
  /\ sequence \in [Requests -> Nat]
  /\ answers \in [Requests -> {0, 1}]
  /\ in_flight \in [Keys -> Requests \cup {NoRequest}]
  /\ outbox \in Seq(Frames)
  /\ writer \in {"running", "failed", "done"}

\* No response is in the outbox twice.
Once ==
  \A i, j \in 1..Len(outbox) : outbox[i] = outbox[j] /\ outbox[i] \in Requests => i = j

\* Where a request is between its worker, its delivery, the outbox and the client.
Course ==
  \A r \in Requests :
    /\ r \notin Sent => worker[r] = "none" /\ delivery[r] = "none" /\ r \notin aborting
    /\ r \in Sent => delivery[r] \in {"await", "send", "over"}
    /\ delivery[r] # "over" => answers[r] = 0 /\ r \notin Queued
    /\ delivery[r] = "send" \/ r \in Queued \/ answers[r] = 1
         => worker[r] \in {"done", "panicked"}
    /\ r \in Queued => answers[r] = 0
    /\ worker[r] = "aborted" => r \in aborting
    /\ delivery[r] = "over" /\ writer # "failed" =>
         worker[r] = "aborted" \/ answers[r] = 1 \/ r \in Queued

\* Registered are requests that have neither been delivered nor cancelled.
Registration ==
  \A k \in Keys :
    in_flight[k] # NoRequest =>
      /\ key[in_flight[k]] = k /\ delivery[in_flight[k]] = "await"
      /\ in_flight[k] \notin aborting

\* Later requests have higher numbers.
Order == IsFiniteSet(Sent) /\ \A r \in Requests : sequence[r] <= Cardinality(Sent)

\* The writer ends after the last delivery, the session after the writer.
Ending ==
  /\ writer = "done" => /\ outbox = <<>> /\ reader.pc \in {"close", "ended"}
                        /\ \A r \in Requests : delivery[r] \in {"none", "over"}
  /\ reader.pc = "ended" => writer = "done"

SessionInv ==
  /\ SessionTypes /\ Once /\ Course /\ Registration /\ Order /\ Ending
  /\ CancellableWhileRunning

-----------------------------------------------------------------------------

LEMMA SessionInvInit == Init => SessionInv
<1> SUFFICES ASSUME Init PROVE SessionInv
  OBVIOUS
<1> USE DEF Init, DispatchInit
<1>1. DOMAIN key = Requests
  OBVIOUS
<1>2. Sent = {} /\ Queued = {}
  BY DEF Sent, Queued
<1>3. SessionTypes
  BY <1>1, EmptySeq DEF SessionTypes
<1>4. Once /\ Course /\ Registration /\ Ending /\ CancellableWhileRunning
  BY <1>2 DEF Once, Course, Registration, Ending, CancellableWhileRunning
<1>5. Order
  BY <1>2, FS_EmptySet DEF Order
<1> QED
  BY <1>3, <1>4, <1>5 DEF SessionInv

\* A frame enters the outbox.
LEMMA Enqueued ==
  ASSUME outbox \in Seq(Frames), Once, NEW e \in Frames, e \in Requests => e \notin Queued,
         outbox' = Append(outbox, e)
  PROVE  outbox' \in Seq(Frames) /\ Queued' = Queued \cup {e} /\ Once'
<1> DEFINE n == Len(outbox)
<1>1. /\ outbox' \in Seq(Frames) /\ Len(outbox') = n + 1 /\ n \in Nat
      /\ \A i \in 1..n : outbox'[i] = outbox[i]
      /\ outbox'[n + 1] = e
  BY AppendProperties, LenProperties
<1>2. 1..(n + 1) = (1..n) \cup {n + 1}
  BY <1>1
<1>3. Queued' = Queued \cup {e}
  BY <1>1, <1>2 DEF Queued
<1>4. Once'
  BY <1>1, <1>2 DEF Once, Queued
<1> QED
  BY <1>1, <1>3, <1>4

\* The first frame leaves it.
LEMMA Dequeued ==
  ASSUME outbox \in Seq(Frames), Once, outbox # <<>>, outbox' = Tail(outbox)
  PROVE  /\ outbox' \in Seq(Frames) /\ Once'
         /\ Head(outbox) \in Queued /\ Queued' \subseteq Queued
         /\ Queued \subseteq Queued' \cup {Head(outbox)}
         /\ Head(outbox) \in Requests => Head(outbox) \notin Queued'
<1> DEFINE n == Len(outbox)
<1>1. /\ outbox' \in Seq(Frames) /\ Len(outbox') = n - 1 /\ n \in Nat \ {0}
      /\ \A i \in 1..(n - 1) : outbox'[i] = outbox[i + 1]
      /\ Head(outbox) = outbox[1]
  BY HeadTailProperties, EmptySeq
<1>2. 1 \in 1..n /\ \A i \in 1..(n - 1) : i + 1 \in 1..n
  BY <1>1
<1>3. \A i \in 1..n : i = 1 \/ (i - 1 \in 1..(n - 1) /\ outbox'[i - 1] = outbox[i])
  BY <1>1
<1>4. Head(outbox) \in Queued /\ Queued' \subseteq Queued
  BY <1>1, <1>2 DEF Queued
<1>5. Queued \subseteq Queued' \cup {Head(outbox)}
  <2> SUFFICES ASSUME NEW i \in 1..n PROVE outbox[i] \in Queued' \cup {Head(outbox)}
    BY DEF Queued
  <2>1. CASE i = 1
    BY <1>1, <2>1
  <2>2. CASE i # 1
    BY <1>1, <1>3, <2>2 DEF Queued
  <2> QED
    BY <2>1, <2>2
<1>6. Head(outbox) \in Requests => Head(outbox) \notin Queued'
  BY <1>1, <1>2 DEF Queued, Once
<1>7. Once'
  BY <1>1, <1>2 DEF Once
<1> QED
  BY <1>1, <1>4, <1>5, <1>6, <1>7

LEMMA DispatchSession ==
  ASSUME SessionInv, NEW r \in Requests, NEW k \in Keys, Dispatch(r, k)
  PROVE  SessionInv'
<1> USE DEF SessionInv, Dispatch
<1>1. SessionTypes'
  <2>1. Cardinality(Sent) \in Nat
    BY FS_CardinalityType DEF Order
  <2> QED
    BY <2>1 DEF SessionTypes
<1>2. Sent' = Sent \cup {r} /\ Queued' = Queued /\ r \notin Sent
  <2>1. Cardinality(Sent) \in Nat
    BY FS_CardinalityType DEF Order
  <2> QED
    <3>1. /\ sequence'[r] = Cardinality(Sent) + 1
          /\ \A q \in Requests \ {r} : sequence'[q] = sequence[q]
      BY DEF SessionTypes
    <3>2. \A q \in Requests : sequence'[q] # 0 <=> sequence[q] # 0 \/ q = r
      BY <2>1, <3>1
    <3>3. Sent' = Sent \cup {r} /\ r \notin Sent
      BY <3>2 DEF Sent
    <3> QED
      BY <3>3 DEF Queued
<1>3. Once'
  BY DEF Once
<1>4. Course'
  BY <1>2 DEF Course, SessionTypes
<1>5. Registration'
  BY <1>2, DispatchAssumption DEF Registration, Course, SessionTypes
<1>6. /\ IsFiniteSet(Sent') /\ Cardinality(Sent') = Cardinality(Sent) + 1
      /\ Cardinality(Sent) \in Nat
  BY <1>2, FS_AddElement, FS_CardinalityType DEF Order
<1>7. Order'
  BY <1>6 DEF Order, SessionTypes
<1>8. Ending'
  BY DEF Ending
<1>9. CancellableWhileRunning'
  <2> SUFFICES ASSUME NEW q \in Sent', worker'[q] \in {"ready", "polled", "waiting"},
                      q \notin aborting,
                      \A s \in Sent' : key'[s] = key'[q] => sequence'[s] <= sequence'[q]
               PROVE  in_flight'[key'[q]] = q
    BY DEF CancellableWhileRunning
  <2>1. /\ sequence'[r] = Cardinality(Sent) + 1 /\ key'[r] = k /\ r \in Sent'
        /\ \A s \in Requests \ {r} :
             sequence'[s] = sequence[s] /\ key'[s] = key[s] /\ worker'[s] = worker[s]
    BY <1>2 DEF SessionTypes
  <2>2. CASE q = r
    BY <2>1, <2>2 DEF SessionTypes
  <2>3. CASE q # r
    <3>1. q \in Sent /\ q \in Requests
      BY <1>2, <2>3 DEF Sent
    <3>2. key[q] # k
      BY <1>6, <2>1, <2>3, <3>1 DEF Order, SessionTypes
    <3>3. \A s \in Sent : key[s] = key[q] => sequence[s] <= sequence[q]
      BY <1>2, <2>1, <2>3, <3>1 DEF Sent
    <3>4. in_flight[key[q]] = q
      BY <2>1, <2>3, <3>1, <3>3 DEF CancellableWhileRunning
    <3> QED
      BY <2>1, <2>3, <3>1, <3>2, <3>4 DEF SessionTypes
  <2> QED
    BY <2>2, <2>3
<1> QED
  BY <1>1, <1>3, <1>4, <1>5, <1>7, <1>8, <1>9

\* The worker of a cancelled request is told to stop, and found no more.
LEMMA CancelSession ==
  ASSUME SessionInv, NEW k \in Keys, CancelRequest(k)
  PROVE  SessionInv'
<1> USE DEF SessionInv, CancelRequest
<1>1. SessionTypes'
  BY DEF SessionTypes
<1>2. Sent' = Sent /\ Queued' = Queued
  BY DEF Sent, Queued
<1>3. Once' /\ Order' /\ Ending'
  BY <1>2 DEF Once, Order, Ending
<1>4. Course'
  BY <1>2 DEF Course, Registration, SessionTypes
<1>5. Registration'
  BY DEF Registration, SessionTypes
<1>6. CancellableWhileRunning'
  BY <1>2, DispatchAssumption DEF CancellableWhileRunning, SessionTypes, Sent
<1> QED
  BY <1>1, <1>3, <1>4, <1>5, <1>6

\* The read loop answers a message itself, or is at the end of the input.
LEMMA ReaderSession ==
  ASSUME SessionInv,
         (\E n \in 1..2 : ReadInline(n)) \/ ReadEof \/ ReadFails \/ Drained \/ SessionEnds
  PROVE  SessionInv'
<1>1. /\ UNCHANGED <<key, sequence, in_flight, worker, aborting, delivery, outbox, writer,
                     answers>>
      /\ DOMAIN reader' = {"pc", "frames"}
      /\ reader.pc \in {"close", "ended"} /\ writer = "done" => reader'.pc \in {"close", "ended"}
      /\ reader'.pc = "ended" => writer = "done"
  BY DEF SessionInv, SessionTypes, ReadInline, ReadEof, ReadFails, Drained, SessionEnds
<1> USE DEF SessionInv
<1>2. Sent' = Sent /\ Queued' = Queued
  BY <1>1 DEF Sent, Queued
<1>3. SessionTypes' /\ Once' /\ Registration' /\ Order'
  BY <1>1, <1>2 DEF SessionTypes, Once, Registration, Order
<1>4. Course' /\ CancellableWhileRunning'
  BY <1>1, <1>2 DEF Course, CancellableWhileRunning
<1>5. Ending'
  BY <1>1 DEF Ending
<1> QED
  BY <1>3, <1>4, <1>5

LEMMA SendInlineSession ==
  ASSUME SessionInv, SendInline
  PROVE  SessionInv'
<1> USE DEF SessionInv, SendInline
<1>1. outbox' \in Seq(Frames) /\ Queued' = Queued \cup {NoRequest} /\ Once'
  BY Enqueued, DispatchAssumption DEF SessionTypes, Frames
<1>2. Sent' = Sent
  BY DEF Sent
<1>3. SessionTypes' /\ Registration' /\ Order'
  BY <1>1, <1>2 DEF SessionTypes, Registration, Order
<1>4. Course' /\ CancellableWhileRunning'
  BY <1>1, <1>2, DispatchAssumption DEF Course, CancellableWhileRunning
<1>5. Ending'
  BY DEF Ending
<1> QED
  BY <1>1, <1>3, <1>4, <1>5

\* The worker of a request that has not ended takes a step.
LEMMA WorkerSession ==
  ASSUME SessionInv, NEW r \in Requests, NEW state,
         Become(r, state), worker[r] \in {"ready", "polled", "waiting"},
         state = "aborted" => r \in aborting
  PROVE  SessionInv'
<1> USE DEF SessionInv, Become
<1>1. Sent' = Sent /\ Queued' = Queued
  BY DEF Sent, Queued
<1>2. SessionTypes' /\ Once' /\ Registration' /\ Order' /\ Ending'
  BY <1>1 DEF SessionTypes, Once, Registration, Order, Ending
<1>3. Course'
  BY <1>1 DEF Course, SessionTypes
<1>4. CancellableWhileRunning'
  <2> SUFFICES ASSUME NEW q \in Sent, worker'[q] \in {"ready", "polled", "waiting"},
                      q \notin aborting,
                      \A s \in Sent : key[s] = key[q] => sequence[s] <= sequence[q]
               PROVE  in_flight[key[q]] = q
    BY <1>1 DEF CancellableWhileRunning
  <2>1. worker[q] \in {"ready", "polled", "waiting"}
    BY DEF SessionTypes, Sent
  <2> QED
    BY <2>1 DEF CancellableWhileRunning
<1> QED
  BY <1>2, <1>3, <1>4

\* The request is registered no more; another one under its id stays.
LEMMA FinishSession ==
  ASSUME SessionInv, NEW r \in Requests, Finish(r)
  PROVE  SessionInv'
<1> USE DEF SessionInv, Finish, finish
<1>1. SessionTypes'
  BY DEF SessionTypes
<1>2. Sent' = Sent /\ Queued' = Queued
  BY DEF Sent, Queued
<1>3. Once' /\ Order' /\ Ending'
  BY <1>2 DEF Once, Order, Ending, SessionTypes
<1>4. Course'
  BY <1>2 DEF Course, SessionTypes
<1>5. Registration'
  BY DEF Registration, SessionTypes
<1>6. CancellableWhileRunning'
  BY <1>2 DEF CancellableWhileRunning, SessionTypes
<1> QED
  BY <1>1, <1>3, <1>4, <1>5, <1>6

LEMMA DeliverSession ==
  ASSUME SessionInv, NEW r \in Requests, Deliver(r)
  PROVE  SessionInv'
<1> USE DEF SessionInv, Deliver
<1>1. Sent' = Sent
  BY DEF Sent
<1>2. \/ /\ writer = "running" /\ outbox' = Append(outbox, r)
         /\ outbox' \in Seq(Frames) /\ Queued' = Queued \cup {r} /\ Once'
      \/ writer = "failed" /\ outbox' = outbox /\ Queued' = Queued /\ Once'
  <2>1. CASE writer = "running" /\ outbox' = Append(outbox, r)
    <3>1. r \in Frames /\ r \notin Queued
      BY DEF Frames, Course
    <3> QED
      BY <2>1, <3>1, Enqueued DEF SessionTypes
  <2>2. CASE writer = "failed" /\ outbox' = outbox
    BY <2>2 DEF Queued, Once
  <2> QED
    BY <2>1, <2>2
<1>3. SessionTypes'
  BY <1>2 DEF SessionTypes
<1>4. Registration' /\ Order' /\ Ending'
  BY <1>1, <1>2 DEF Registration, Order, Ending, SessionTypes
<1>5. Course'
  BY <1>1, <1>2 DEF Course, SessionTypes
<1>6. CancellableWhileRunning'
  BY <1>1 DEF CancellableWhileRunning
<1> QED
  BY <1>2, <1>3, <1>4, <1>5, <1>6

LEMMA WriteSession ==
  ASSUME SessionInv, WriteFrame
  PROVE  SessionInv'
<1> DEFINE h == Head(outbox)
<1> USE DEF SessionInv, WriteFrame
<1>1. Sent' = Sent
  BY DEF Sent
<1>2. /\ outbox' \in Seq(Frames) /\ Once' /\ h \in Queued /\ Queued' \subseteq Queued
      /\ Queued \subseteq Queued' \cup {h}
      /\ h \in Requests => h \notin Queued'
  BY Dequeued DEF SessionTypes
<1> HIDE DEF h
<1>3. \A r \in Requests : answers'[r] = IF r = h THEN 1 ELSE answers[r]
  BY <1>2 DEF h, Course, SessionTypes
<1>4. SessionTypes'
  BY <1>2, <1>3 DEF SessionTypes
<1>5. Registration' /\ Order' /\ CancellableWhileRunning'
  BY <1>1 DEF Registration, Order, CancellableWhileRunning
<1>6. Course'
  <2> SUFFICES ASSUME NEW r \in Requests
               PROVE  /\ r \notin Sent => /\ worker[r] = "none" /\ delivery[r] = "none"
                                         /\ r \notin aborting
                      /\ r \in Sent => delivery[r] \in {"await", "send", "over"}
                      /\ delivery[r] # "over" => answers'[r] = 0 /\ r \notin Queued'
                      /\ delivery[r] = "send" \/ r \in Queued' \/ answers'[r] = 1 =>
                           worker[r] \in {"done", "panicked"}
                      /\ r \in Queued' => answers'[r] = 0
                      /\ worker[r] = "aborted" => r \in aborting
                      /\ delivery[r] = "over" /\ writer # "failed" =>
                           worker[r] = "aborted" \/ answers'[r] = 1 \/ r \in Queued'
    BY <1>1 DEF Course
  <2>1. CASE r = h
    BY <1>2, <1>3, <2>1 DEF Course
  <2>2. CASE r # h
    BY <1>2, <1>3, <2>2 DEF Course
  <2> QED
    BY <2>1, <2>2
<1>7. Ending'
  BY DEF Ending
<1> QED
  BY <1>2, <1>4, <1>5, <1>6, <1>7

LEMMA WriterEndsSession ==
  ASSUME SessionInv, WriterEnds
  PROVE  SessionInv'
<1> USE DEF SessionInv, WriterEnds
<1>1. Sent' = Sent
  BY DEF Sent
<1>2. outbox' = <<>> /\ Queued' = {} /\ writer' \in {"failed", "done"}
      /\ (writer' = "done" => Queued = {})
  BY DEF Queued
<1>3. SessionTypes' /\ Once'
  BY <1>2, EmptySeq DEF SessionTypes, Once
<1>4. Registration' /\ Order' /\ CancellableWhileRunning' /\ Ending'
  BY <1>1 DEF Registration, Order, CancellableWhileRunning, Ending
<1>5. Course'
  BY <1>1, <1>2 DEF Course, SessionTypes
<1> QED
  BY <1>3, <1>4, <1>5

LEMMA IdleSession ==
  ASSUME SessionInv, UNCHANGED dispatchVars
  PROVE  SessionInv'
<1>1. Sent' = Sent /\ Queued' = Queued
  BY DEF dispatchVars, Sent, Queued
<1> QED
  BY <1>1 DEF dispatchVars, SessionInv, SessionTypes, Once, Course, Registration, Order, Ending,
              CancellableWhileRunning

LEMMA SessionInvStep == SessionInv /\ [Next]_vars => SessionInv'
<1> SUFFICES ASSUME SessionInv, [Next]_vars PROVE SessionInv'
  OBVIOUS
<1>1. ASSUME NEW r \in Requests, RequestStep(r)
      PROVE  SessionInv'
  <2>1. ASSUME NEW isTool, Start(r, isTool) PROVE SessionInv'
    BY <2>1, WorkerSession DEF Start
  <2>2. CASE Suspend(r) \/ Abort(r)
    BY <2>2, WorkerSession DEF Suspend, Abort
  <2>3. CASE Resume(r) \/ Return(r) \/ Panic(r)
    BY <2>3, WorkerSession DEF Resume, Return, Panic
  <2> QED
    BY <1>1, <2>1, <2>2, <2>3, IdleSession
    DEF RequestStep, StartRequest, PollCall, CallWaits, CallReturns, CallResumes, OtherWaits,
        OtherResumes, OtherReturns, OtherPanics, AbortRequest
<1>2. CASE SessionStep
  BY <1>2, CancelSession, ReaderSession, SendInlineSession, FinishSession, DeliverSession,
     WriteSession, WriterEndsSession DEF SessionStep, DeliveryStep
<1>3. CASE UNCHANGED vars
  BY <1>3, IdleSession DEF vars
<1> QED
  BY <1>1, <1>2, <1>3, DispatchSession, IdleSession DEF Next, Receive

\* What is proved of the session holds throughout.
THEOREM SessionInvariant == Spec => []SessionInv
BY SessionInvInit, SessionInvStep, PTL DEF Spec

\* A request that runs and was not cancelled can be cancelled, unless a newer one has
\* taken its id (InFlightRequests in mcp/src/dispatch.rs).
THEOREM RunningCanBeCancelled == Spec => []CancellableWhileRunning
<1>1. SessionInv => CancellableWhileRunning
  BY DEF SessionInv
<1> QED
  BY <1>1, SessionInvariant, PTL

\* A session that ends has answered every request that was not stopped, for any number
\* of requests and any size of the outbox (Dispatcher::drain, run_writer).
THEOREM AllAnswered == Spec => []AnsweredWhenEnded
<1>1. SessionInv => AnsweredWhenEnded
  <2> SUFFICES ASSUME SessionInv, reader.pc = "ended", NEW r \in Sent
               PROVE  answers[r] = IF worker[r] = "aborted" THEN 0 ELSE 1
    BY DEF AnsweredWhenEnded
  <2>1. r \in Requests
    BY DEF Sent
  <2>2. writer = "done" /\ delivery[r] = "over"
    BY <2>1 DEF SessionInv, Ending, Course
  <2>3. Queued = {}
    BY <2>2 DEF SessionInv, Ending, Queued
  <2> QED
    BY <2>1, <2>2, <2>3 DEF SessionInv, SessionTypes, Course
<1> QED
  BY <1>1, SessionInvariant, PTL

-----------------------------------------------------------------------------
(* What a request leaves behind.                                           *)

\* The tool calls that run hold the permits, and no others.
Holders == {r \in Sent : use[r] # "ping" /\ worker[r] \in {"polled", "waiting"}}

PermitsInv ==
  /\ DOMAIN use = Requests
  /\ permits = Holders
  /\ Cardinality(permits) <= MAX_CONCURRENT_TOOL_CALLS

\* A new request does not run yet.
LEMMA PermitsReceive ==
  ASSUME SessionInv, PermitsInv, NEW r \in Requests, NEW k \in Keys, NEW u \in Uses,
         NEW p \in Projects, Receive(r, k, u, p)
  PROVE  PermitsInv'
<1>1. r \notin Sent /\ worker'[r] = "ready" /\ permits' = permits
  BY DEF Receive, Dispatch, SessionInv, SessionTypes
<1>2. Sent' = Sent \cup {r}
  <2>1. Cardinality(Sent) + 1 # 0
    BY FS_CardinalityType DEF SessionInv, Order
  <2> QED
    BY <2>1 DEF Receive, Dispatch, Sent, SessionInv, SessionTypes
<1>3. DOMAIN use' = Requests
      /\ \A q \in Requests \ {r} : use'[q] = use[q] /\ worker'[q] = worker[q]
  BY DEF Receive, Dispatch, PermitsInv, SessionInv, SessionTypes
<1>4. Holders' = Holders
  BY <1>1, <1>2, <1>3 DEF Holders, Sent
<1> QED
  BY <1>1, <1>3, <1>4 DEF PermitsInv

\* A request comes to run with a permit if it is a tool call, and gives it back with
\* whatever ends it.
LEMMA PermitsWorker ==
  ASSUME SessionInv, PermitsInv, NEW r \in Requests, RequestStep(r)
  PROVE  PermitsInv'
<1> DOMAIN worker = Requests
  BY DEF SessionInv, SessionTypes
<1>1. Sent' = Sent /\ use' = use
  BY DEF RequestStep, StartRequest, PollCall, CallWaits, CallReturns, CallResumes, OtherWaits,
         OtherResumes, OtherReturns, OtherPanics, AbortRequest, Start, Suspend, Resume, Return,
         Panic, Abort, Become, dispatchVars, Sent
<1>2. worker[r] \in {"ready", "polled", "waiting"} => r \in Sent
  BY DEF SessionInv, Course
<1>3. CASE StartRequest(r)
  <2>1. worker[r] = "ready" /\ worker' = [worker EXCEPT ![r] = "polled"]
        /\ permits' = (IF use[r] # "ping" THEN permits \cup {r} ELSE permits)
        /\ (use[r] # "ping" => Cardinality(permits) < MAX_CONCURRENT_TOOL_CALLS)
    BY <1>3 DEF StartRequest, Start, Become
  <2>2. r \notin permits /\ IsFiniteSet(permits)
    <3>1. permits \subseteq Requests /\ r \notin permits
      BY <2>1 DEF PermitsInv, Holders, Sent
    <3> QED
      BY <3>1, FS_Subset, DispatchAssumption
  <2>3. Holders' = permits'
    <3>1. r \in Sent /\ worker'[r] = "polled"
      BY <1>2, <2>1
    <3>2. \A q \in Sent \ {r} : worker'[q] = worker[q]
      BY <2>1 DEF Sent
    <3>3. Holders' = {q \in Sent : use[q] # "ping" /\ worker'[q] \in {"polled", "waiting"}}
      BY <1>1 DEF Holders
    <3>4. CASE use[r] = "ping"
      <4>1. Holders' = Holders
        BY <3>2, <3>3, <3>4 DEF Holders
      <4> QED
        BY <2>1, <3>4, <4>1, Zenon DEF PermitsInv
    <3>5. CASE use[r] # "ping"
      <4>1. Holders' = Holders \cup {r}
        BY <3>1, <3>2, <3>3, <3>5 DEF Holders
      <4> QED
        BY <2>1, <3>5, <4>1, Zenon DEF PermitsInv
    <3> QED
      BY <3>4, <3>5
  <2>4. Cardinality(permits') <= MAX_CONCURRENT_TOOL_CALLS
    <3>1. Cardinality(permits) \in Nat /\ Cardinality(permits \cup {r}) = Cardinality(permits) + 1
      BY <2>2, FS_AddElement, FS_CardinalityType
    <3>2. CASE use[r] = "ping"
      BY <2>1, <3>2 DEF PermitsInv
    <3>3. CASE use[r] # "ping"
      <4>1. permits' = permits \cup {r} /\ Cardinality(permits) < MAX_CONCURRENT_TOOL_CALLS
        BY <2>1, <3>3, Zenon
      <4> QED
        BY <3>1, <4>1, DispatchAssumption
    <3> QED
      BY <3>2, <3>3
  <2> QED
    BY <1>1, <2>3, <2>4 DEF PermitsInv
<1>4. CASE Suspend(r) \/ Return(r) \/ Panic(r) \/ Abort(r)
  <2>1. \/ /\ worker' = [worker EXCEPT ![r] = "waiting"]
           /\ worker[r] = "polled" /\ permits' = permits
        \/ /\ \E state \in {"done", "panicked", "aborted"} : worker' = [worker EXCEPT ![r] = state]
           /\ permits' = permits \ {r}
    BY <1>4 DEF Suspend, Return, Panic, Abort, Become
  <2>2. Holders' = permits'
    BY <1>1, <2>1 DEF PermitsInv, Holders, Sent
  <2>3. IsFiniteSet(permits) /\ permits' \subseteq permits
    <3>1. permits \subseteq Requests
      BY DEF PermitsInv, Holders, Sent
    <3> QED
      BY <2>1, <3>1, FS_Subset, DispatchAssumption
  <2>4. Cardinality(permits') <= Cardinality(permits) /\ Cardinality(permits) \in Nat
        /\ Cardinality(permits') \in Nat
    BY <2>3, FS_Subset, FS_CardinalityType
  <2> QED
    BY <1>1, <2>2, <2>4, DispatchAssumption DEF PermitsInv
<1>5. CASE Resume(r)
  <2>1. worker' = [worker EXCEPT ![r] = "polled"] /\ worker[r] = "waiting" /\ permits' = permits
    BY <1>5 DEF Resume, Become
  <2> QED
    BY <1>1, <2>1 DEF PermitsInv, Holders, Sent
<1>6. CASE UNCHANGED dispatchVars
  BY <1>1, <1>6 DEF dispatchVars, PermitsInv, Holders
<1> QED
  BY <1>3, <1>4, <1>5, <1>6
  DEF RequestStep, PollCall, CallWaits, CallReturns, CallResumes, OtherWaits,
      OtherResumes, OtherReturns, OtherPanics, AbortRequest

\* However requests end, are cancelled or share an id, they leave neither a permit nor
\* an entry of the registry behind (mcp/src/dispatch.rs run_request, InFlightRequests).
THEOREM NothingIsLeaked == Spec => []NothingLeaks
<1>1. Init => PermitsInv
  BY FS_EmptySet, DispatchAssumption DEF Init, DispatchInit, PermitsInv, Holders, Sent
<1>2. SessionInv /\ PermitsInv /\ [Next]_vars => PermitsInv'
  <2> SUFFICES ASSUME SessionInv, PermitsInv, [Next]_vars PROVE PermitsInv'
    OBVIOUS
  <2>1. ASSUME UNCHANGED <<sequence, worker, permits, use>> PROVE PermitsInv'
    BY <2>1 DEF PermitsInv, Holders, Sent
  <2>2. CASE SessionStep /\ UNCHANGED <<jobVars, use>>
    BY <2>1, <2>2
    DEF SessionStep, CancelRequest, ReadInline, SendInline, ReadEof, ReadFails, Drained,
        SessionEnds, DeliveryStep, Finish, Deliver, WriteFrame, WriterEnds
  <2> QED
    BY <2>1, <2>2, PermitsReceive, PermitsWorker DEF Next, vars, dispatchVars
<1>3. SessionInv /\ PermitsInv => NothingLeaks
  BY DEF SessionInv, Registration, PermitsInv, Holders, NothingLeaks
<1> QED
  BY <1>1, <1>2, <1>3, SessionInvariant, PTL DEF Spec

-----------------------------------------------------------------------------
(* The session implements RequestPort.                                     *)

OpenRequests == {r \in Sent : answers[r] = 0 /\ worker[r] # "aborted"}
Withdrawn == {r \in Sent : worker[r] = "aborted"}

portVars == <<OpenRequests, aborting, answers, Withdrawn>>

\* What the client sees does not change.
LEMMA PortStutters ==
  ASSUME UNCHANGED <<sequence, worker, aborting, answers>>
  PROVE  UNCHANGED portVars
BY DEF portVars, OpenRequests, Withdrawn, Sent

\* A step of a worker is invisible, unless the worker stops.
LEMMA WorkerOnPort ==
  ASSUME SessionInv, NEW r \in Requests, NEW state,
         Become(r, state), worker[r] \in {"ready", "polled", "waiting"},
         state = "aborted" => r \in aborting
  PROVE  Port!Withdraw(r) \/ UNCHANGED portVars
<1> USE DEF SessionInv, Become
<1>1. Sent' = Sent /\ r \in Sent /\ answers[r] = 0
  <2>1. Sent' = Sent
    BY ONLY Become(r, state) DEF Become, Sent
  <2>2. r \in Sent /\ answers[r] = 0
    BY ONLY Course, SessionTypes, worker[r] \in {"ready", "polled", "waiting"}
    DEF Course, SessionTypes
  <2> QED
    BY ONLY <2>1, <2>2
<1>2. worker'[r] = state /\ \A q \in Requests \ {r} : worker'[q] = worker[q]
  BY DEF SessionTypes
<1>3. CASE state = "aborted"
  <2>1. r \in OpenRequests /\ r \in aborting
    BY <1>1, <1>3 DEF OpenRequests
  <2>2. OpenRequests' = OpenRequests \ {r} /\ Withdrawn' = Withdrawn \cup {r}
    BY <1>1, <1>2, <1>3 DEF OpenRequests, Withdrawn, Sent
  <2> QED
    BY <2>1, <2>2 DEF Port!Withdraw, OpenRequests, Withdrawn
<1>4. CASE state # "aborted"
  <2>1. OpenRequests' = OpenRequests /\ Withdrawn' = Withdrawn
    BY <1>1, <1>2, <1>4 DEF OpenRequests, Withdrawn, Sent
  <2> QED
    BY <2>1 DEF portVars
<1> QED
  BY <1>3, <1>4

LEMMA DispatchOnPort ==
  ASSUME SessionInv, NEW r \in Requests, NEW k \in Keys, Dispatch(r, k)
  PROVE  Port!Ask(r)
<1> USE DEF SessionInv, Dispatch
<1>1. /\ r \notin Sent /\ worker[r] = "none" /\ answers[r] = 0
  BY DEF Course, Sent, SessionTypes
<1>2. worker'[r] = "ready" /\ \A q \in Requests \ {r} : worker'[q] = worker[q]
  BY DEF SessionTypes
<1>3. Sent' = Sent \cup {r}
  <2>1. Cardinality(Sent) \in Nat
    BY FS_CardinalityType DEF Order
  <2>2. \A q \in Requests : sequence'[q] # 0 <=> sequence[q] # 0 \/ q = r
    BY <2>1 DEF SessionTypes
  <2> QED
    BY <2>2 DEF Sent
<1>4. OpenRequests' = OpenRequests \cup {r} /\ Withdrawn' = Withdrawn
  BY <1>1, <1>2, <1>3 DEF OpenRequests, Withdrawn, Sent
<1>5. r \notin OpenRequests \cup Withdrawn
  BY <1>1 DEF OpenRequests, Withdrawn
<1> QED
  BY <1>1, <1>4, <1>5 DEF Port!Ask, OpenRequests, Withdrawn

LEMMA CancelOnPort ==
  ASSUME SessionInv, NEW k \in Keys, CancelRequest(k)
  PROVE  (\E r \in Requests : Port!Cancel(r)) \/ UNCHANGED portVars
<1> DEFINE r == in_flight[k]
<1> USE DEF SessionInv, CancelRequest
<1>1. OpenRequests' = OpenRequests /\ Withdrawn' = Withdrawn
  BY DEF OpenRequests, Withdrawn, Sent
<1>2. CASE aborting' = aborting
  BY <1>1, <1>2 DEF portVars
<1>3. CASE r # NoRequest /\ aborting' = aborting \cup {r}
  <2>1. r \in Requests /\ r \in Sent /\ answers[r] = 0 /\ worker[r] # "aborted"
    BY <1>3 DEF SessionTypes, Registration, Course
  <2>2. r \in OpenRequests
    BY <2>1 DEF OpenRequests
  <2> QED
    BY <1>1, <1>3, <2>1, <2>2 DEF Port!Cancel, OpenRequests, Withdrawn
<1> QED
  BY <1>2, <1>3

LEMMA WriteOnPort ==
  ASSUME SessionInv, WriteFrame
  PROVE  (\E r \in Requests : Port!Respond(r)) \/ UNCHANGED portVars
<1> DEFINE h == Head(outbox)
<1> USE DEF SessionInv, WriteFrame
<1>1. h \in Queued /\ Sent' = Sent
  BY Dequeued DEF SessionTypes, Sent
<1>2. answers' = [r \in Requests |-> answers[r] + IF r = h THEN 1 ELSE 0]
  OBVIOUS
<1> HIDE DEF h
<1>3. CASE h \notin Requests
  <2>1. answers' = answers
    <3>0. answers \in [Requests -> {0, 1}]
      BY DEF SessionTypes
    <3>1. \A q \in Requests : answers[q] + (IF q = h THEN 1 ELSE 0) = answers[q]
      BY ONLY <1>3, <3>0
    <3>2. answers' = [q \in Requests |-> answers[q]]
      BY ONLY <1>2, <3>1
    <3> QED
      BY ONLY <3>0, <3>2
  <2> QED
    BY <2>1, PortStutters
<1>4. CASE h \in Requests
  <2>1. answers[h] = 0 /\ h \in Sent /\ worker[h] # "aborted"
    BY <1>1, <1>4 DEF Course
  <2>2. answers' = [answers EXCEPT ![h] = 1]
    <3>1. \A q \in Requests :
            answers[q] + (IF q = h THEN 1 ELSE 0) = IF q = h THEN 1 ELSE answers[q]
      <4> SUFFICES ASSUME NEW q \in Requests
                   PROVE  answers[q] + (IF q = h THEN 1 ELSE 0) = IF q = h THEN 1 ELSE answers[q]
        OBVIOUS
      <4>1. CASE q = h
        BY <2>1, <4>1
      <4>2. CASE q # h
        <5>1. answers[q] \in {0, 1}
          BY DEF SessionTypes
        <5>2. answers[q] + 0 = answers[q]
          BY <5>1
        <5> QED
          BY <4>2, <5>2
      <4> QED
        BY <4>1, <4>2
    <3>2. answers' = [q \in Requests |-> IF q = h THEN 1 ELSE answers[q]]
      BY <1>2, <3>1
    <3> QED
      BY <1>4, <3>2 DEF SessionTypes
  <2>3. OpenRequests' = OpenRequests \ {h} /\ Withdrawn' = Withdrawn
    BY <1>1, <1>4, <2>1, <2>2 DEF OpenRequests, Withdrawn, Sent, SessionTypes
  <2>4. h \in OpenRequests
    BY <2>1 DEF OpenRequests
  <2> QED
    BY <1>4, <2>2, <2>3, <2>4 DEF Port!Respond, OpenRequests, Withdrawn
<1> QED
  BY <1>3, <1>4

LEMMA RequestOnPort ==
  ASSUME SessionInv, NEW r \in Requests, RequestStep(r)
  PROVE  Port!Withdraw(r) \/ UNCHANGED portVars
<1>1. ASSUME NEW isTool, Start(r, isTool) PROVE Port!Withdraw(r) \/ UNCHANGED portVars
  BY <1>1, WorkerOnPort DEF Start
<1>2. CASE Suspend(r) \/ Abort(r)
  BY <1>2, WorkerOnPort DEF Suspend, Abort
<1>3. CASE Resume(r) \/ Return(r) \/ Panic(r)
  BY <1>3, WorkerOnPort DEF Resume, Return, Panic
<1>4. CASE PollCall(r)
  BY <1>4, PortStutters DEF PollCall, dispatchVars
<1> QED
  BY <1>1, <1>2, <1>3, <1>4
  DEF RequestStep, StartRequest, CallWaits, CallReturns, CallResumes, OtherWaits, OtherResumes,
      OtherReturns, OtherPanics, AbortRequest

LEMMA SessionOnPort ==
  ASSUME SessionInv, SessionStep
  PROVE  (\E r \in Requests : Port!Cancel(r) \/ Port!Respond(r)) \/ UNCHANGED portVars
<1>1. CASE (\E n \in 1..2 : ReadInline(n)) \/ SendInline \/ ReadEof \/ ReadFails \/ Drained \/ SessionEnds
  BY <1>1, PortStutters DEF ReadInline, SendInline, ReadEof, ReadFails, Drained, SessionEnds
<1>2. CASE WriterEnds \/ \E r \in Requests : DeliveryStep(r)
  BY <1>2, PortStutters DEF WriterEnds, DeliveryStep, Finish, Deliver
<1> QED
  BY <1>1, <1>2, CancelOnPort, WriteOnPort DEF SessionStep

\* Each request read is answered once, or withdrawn without an answer after a
\* cancellation, for any number of requests, ids, permits and cancellations: every
\* step of the server is a step of RequestPort or invisible to it.
THEOREM RefinesPort == Spec => ImplementsRequestPort
<1>1. Init => Port!Init
  <2> SUFFICES ASSUME Init PROVE Port!Init
    OBVIOUS
  <2>1. Sent = {} /\ aborting = {} /\ answers = [r \in Requests |-> 0]
    BY DEF Init, DispatchInit, Sent
  <2> QED
    BY <2>1 DEF Port!Init
<1>2. SessionInv /\ [Next]_vars => [Port!Next]_portVars
  <2> SUFFICES ASSUME SessionInv, [Next]_vars PROVE Port!Next \/ UNCHANGED portVars
    OBVIOUS
  <2>1. ASSUME NEW r \in Requests, NEW k \in Keys, Dispatch(r, k)
        PROVE  Port!Next
    BY <2>1, DispatchOnPort DEF Port!Next
  <2>2. ASSUME NEW r \in Requests, RequestStep(r)
        PROVE  Port!Next \/ UNCHANGED portVars
    BY <2>2, RequestOnPort DEF Port!Next
  <2>3. CASE SessionStep
    BY <2>3, SessionOnPort DEF Port!Next
  <2>4. CASE UNCHANGED dispatchVars
    BY <2>4, PortStutters DEF dispatchVars
  <2> QED
    BY <2>1, <2>2, <2>3, <2>4 DEF Next, Receive, vars
<1> QED
  BY <1>1, <1>2, SessionInvariant, PTL
  DEF Spec, ImplementsRequestPort, Port!Spec, portVars, OpenRequests, Withdrawn

-----------------------------------------------------------------------------
(* The results of jobs.                                                    *)

\* A call that has taken a result goes on to answer.
Taken ==
  \A r \in Requests :
    call[r].result = "result" =>
      use[r] \in Tools /\ call[r].pc = "answer" /\ worker[r] \in {"polled", "done"}

UseTypes == DOMAIN use = Requests

ResultsInv == UseTypes /\ Taken /\ ResultsReachTheClient

\* Nothing leaves the map but for a call that answers or by retention.
LEMMA ResultsKept ==
  ASSUME JobsInv, ResultsInv, Taken',
         \A j \in JobIds : job'[j].result /\ j \notin lost' =>
           \/ index_jobs'[job'[j].project] = j
           \/ /\ job[j].result /\ j \notin lost /\ job'[j].project = job[j].project
              /\ index_jobs[job[j].project] = j => \E r \in Requests :
                   call'[r].job = j /\ call'[r].result = "result",
         \A r \in Requests : call[r].result = "result" =>
           call'[r].job = call[r].job /\ call'[r].result = "result"
  PROVE  ResultsReachTheClient'
<1> SUFFICES ASSUME NEW j \in JobIds, j \notin lost', job'[j].result,
                    index_jobs'[job'[j].project] # j
             PROVE  \E r \in Requests : /\ call'[r].job = j /\ call'[r].result = "result"
                                        /\ worker'[r] \in {"polled", "done"}
  BY DEF ResultsReachTheClient
<1>1. \E r \in Requests : call'[r].job = j /\ call'[r].result = "result"
  BY DEF ResultsInv, ResultsReachTheClient
<1> QED
  BY <1>1 DEF Taken

\* Another call begins, waits, answers or is dropped; the jobs stay as they are.
LEMMA OtherCallResults ==
  ASSUME JobsInv, ResultsInv, NEW r \in Requests,
         call[r].result # "result", call'[r].result # "result",
         \A q \in Requests \ {r} : /\ call'[q] = call[q] /\ worker'[q] = worker[q]
                                   /\ use'[q] = use[q],
         DOMAIN use' = Requests,
         UNCHANGED <<index_jobs, job, lost>>
  PROVE  ResultsInv'
<1>1. Taken'
  BY DEF ResultsInv, Taken
<1>2. ResultsReachTheClient'
  BY <1>1, ResultsKept
<1> QED
  BY <1>1, <1>2 DEF ResultsInv, UseTypes

\* A worker changes that has not taken a result, or returns it.
LEMMA WorkerResults ==
  ASSUME JobsInv, SessionInv, ResultsInv, NEW r \in Requests, NEW state, Become(r, state),
         call[r].result = "result" => state \in {"polled", "done"},
         UNCHANGED <<jobVars, use>>
  PROVE  ResultsInv'
<1>1. worker'[r] = state /\ \A q \in Requests \ {r} : worker'[q] = worker[q]
  BY DEF Become, SessionInv, SessionTypes
<1>2. Taken'
  BY <1>1 DEF ResultsInv, Taken, jobVars
<1>3. ResultsReachTheClient'
  BY <1>2, ResultsKept DEF jobVars
<1> QED
  BY <1>2, <1>3 DEF ResultsInv, UseTypes

\* The session's own steps, and those that change nothing here.
LEMMA IdleResults ==
  ASSUME JobsInv, ResultsInv, UNCHANGED <<jobVars, use, worker>>
  PROVE  ResultsInv'
<1>1. Taken'
  BY DEF ResultsInv, Taken, jobVars
<1>2. ResultsReachTheClient'
  BY <1>1, ResultsKept DEF jobVars
<1> QED
  BY <1>1, <1>2 DEF ResultsInv, UseTypes

\* A job or the refresh loop takes a step: a result appears in the map or leaves it by
\* retention.
LEMMA TaskResults ==
  ASSUME JobsInv, ResultsInv, UNCHANGED <<call, use, worker>>,
         (\E j \in JobIds : JobStep(j)) \/ (\E p \in Refreshed : RefreshStep(p))
  PROVE  ResultsInv'
<1>1. Taken'
  BY DEF ResultsInv, Taken
<1>2. CASE UNCHANGED <<index_jobs, job, lost>>
  BY <1>1, <1>2, ResultsKept DEF ResultsInv, UseTypes
<1>3. ASSUME NEW j \in JobIds,
             JobEnds(j) \/ JobSends(j) \/ JobReleases(j)
      PROVE  ResultsInv'
  <2>1. /\ UNCHANGED <<index_jobs, lost>> /\ \A i \in JobIds \ {j} : job'[i] = job[i]
        /\ job'[j].project = job[j].project
        /\ job'[j].result => job[j].result \/ index_jobs[job[j].project] = j
    BY <1>3 DEF JobEnds, JobSends, JobReleases, JobsInv, JobTypes, JobFields, Registry
  <2> QED
    BY <1>1, <2>1, ResultsKept DEF ResultsInv, UseTypes
<1>4. ASSUME NEW j \in JobIds, JobExpires(j)
      PROVE  ResultsInv'
  <2>1. /\ \A i \in JobIds \ {j} : job'[i] = job[i]
        /\ job'[j].project = job[j].project /\ job'[j].result = job[j].result
    BY <1>4 DEF JobExpires, JobsInv, JobTypes, JobFields
  <2>2. /\ lost \subseteq lost'
        /\ index_jobs[job[j].project] = j => j \in lost'
        /\ \A p \in Projects : index_jobs[p] # j => index_jobs'[p] = index_jobs[p]
    BY <1>4 DEF JobExpires, remove_index_job_if_id, JobsInv, JobTypes
  <2> QED
    BY <1>1, <2>1, <2>2, ResultsKept DEF ResultsInv, UseTypes, JobsInv, JobTypes
<1> QED
  BY <1>2, <1>3, <1>4 DEF JobStep, RefreshStep, JobLock, Grant, RefreshLock, RefreshEnds

\* The poll of a call: a job is started, or its result is taken out of the map.
LEMMA PollResults ==
  ASSUME JobsInv, ResultsInv, NEW r \in Requests, PollCall(r)
  PROVE  ResultsInv'
<1> USE ServerAssumption
<1>1. r \in Calls /\ call[r].result # "result" /\ worker[r] = "polled" /\ use[r] \in Tools
  BY DEF PollCall, CallStep, ClaimExisting, ClaimStarted, ClaimRejected, CheckFinished,
         CheckRunning, Remove, ResultsInv, Taken
<1>2. UNCHANGED <<worker, use>>
  BY DEF PollCall, dispatchVars
<1>3. CASE ClaimExisting(r) \/ ClaimRejected(r) \/ CheckFinished(r) \/ CheckRunning(r)
  <2>1. /\ call'[r].result # "result" /\ \A q \in Requests \ {r} : call'[q] = call[q]
        /\ UNCHANGED <<index_jobs, job, lost>>
    BY <1>1, <1>3 DEF ClaimExisting, ClaimRejected, CheckFinished, CheckRunning, Answer, JobsInv,
                      JobTypes, CallFields
  <2> QED
    BY <1>1, <1>2, <2>1, OtherCallResults DEF ResultsInv, UseTypes
<1>4. CASE ClaimStarted(r)
  <2> DEFINE j == started + 1
             p == call[r].project
  <2>1. j \in JobIds /\ j # NoJob /\ p \in Projects /\ ~job[j].result
    BY <1>1, <1>4, JobAssumption
    DEF ClaimStarted, JobsInv, JobTypes, JobIds, NoJob, Unstarted
  <2>2. /\ index_jobs[p] = NoJob /\ lost' = lost
        /\ index_jobs' = [index_jobs EXCEPT ![p] = j]
        /\ job' = [job EXCEPT ![j].pc = "index", ![j].project = p]
        /\ call' = [call EXCEPT ![r].pc = "check", ![r].job = j, ![r].joined = FALSE]
    BY <1>4 DEF ClaimStarted
  <2> HIDE DEF j, p
  <2>3. \A i \in JobIds \ {j} : job'[i] = job[i]
    BY <2>1, <2>2 DEF JobsInv, JobTypes
  <2>4. ~job'[j].result
    BY <2>1, <2>2 DEF JobsInv, JobTypes, JobFields
  <2>5. /\ call'[r].result # "result" /\ \A q \in Requests \ {r} : call'[q] = call[q]
    BY <1>1, <2>2 DEF JobsInv, JobTypes, CallFields
  <2>6. Taken'
    BY <1>2, <2>5 DEF ResultsInv, Taken
  <2>7. \A i \in JobIds \ {j} :
          index_jobs[job[i].project] = i => index_jobs'[job[i].project] = i
    BY <2>1, <2>2, TasksDiffer DEF JobsInv, JobTypes
  <2>8. \A i \in JobIds : job'[i].result /\ i \notin lost' =>
          \/ index_jobs'[job'[i].project] = i
          \/ /\ job[i].result /\ i \notin lost /\ job'[i].project = job[i].project
             /\ index_jobs[job[i].project] # i
    BY <2>2, <2>3, <2>4, <2>7
  <2>9. ResultsReachTheClient'
    BY <1>1, <2>5, <2>6, <2>8, ResultsKept
  <2> QED
    BY <1>2, <2>6, <2>9 DEF ResultsInv, UseTypes
<1>5. CASE Remove(r)
  <2>1. /\ call'[r].result = "result" /\ call'[r].pc = "answer" /\ call'[r].job = call[r].job
        /\ \A q \in Requests \ {r} : call'[q] = call[q]
    BY <1>1, <1>5 DEF Remove, Answer, JobsInv, JobTypes, CallFields
  <2>2. /\ UNCHANGED <<job, lost>>
        /\ \A p \in Projects : index_jobs[p] # call[r].job => index_jobs'[p] = index_jobs[p]
    BY <1>1, <1>5 DEF Remove, remove_index_job_if_id, JobsInv, JobTypes
  <2>3. Taken'
    BY <1>1, <1>2, <2>1 DEF ResultsInv, Taken
  <2> QED
    BY <1>1, <1>2, <2>1, <2>2, <2>3, ResultsKept DEF ResultsInv, UseTypes, JobsInv, JobTypes
<1> QED
  BY <1>3, <1>4, <1>5 DEF PollCall, CallStep

LEMMA ReceiveResults ==
  ASSUME JobsInv, SessionInv, ResultsInv, NEW r \in Requests, NEW k \in Keys, NEW u \in Uses,
         NEW p \in Projects, Receive(r, k, u, p)
  PROVE  ResultsInv'
<1>1. worker[r] = "none"
  BY DEF Receive, Dispatch, SessionInv, Course
<1>2. call[r].result # "result"
  BY <1>1 DEF ResultsInv, Taken
<1>3. /\ \A q \in Requests \ {r} : worker'[q] = worker[q] /\ use'[q] = use[q]
      /\ DOMAIN use' = Requests
  BY DEF Receive, Dispatch, SessionInv, SessionTypes, ResultsInv, UseTypes
<1>4. call'[r].result # "result" /\ \A q \in Requests \ {r} : call'[q] = call[q]
  BY <1>2, ServerAssumption DEF Receive, BeginCall, JobsInv, JobTypes, CallFields
<1> QED
  BY <1>2, <1>3, <1>4, OtherCallResults DEF Receive

LEMMA RequestResults ==
  ASSUME JobsInv, SessionInv, ResultsInv, NEW r \in Requests, RequestStep(r)
  PROVE  ResultsInv'
<1> USE ServerAssumption DEF Taken
<1>1. CASE StartRequest(r)
  BY <1>1, WorkerResults DEF StartRequest, Start
<1>2. CASE OtherResumes(r) \/ CallReturns(r) \/ OtherReturns(r)
  BY <1>2, WorkerResults DEF OtherResumes, CallReturns, OtherReturns, Resume, Return
<1>3. CASE OtherWaits(r) \/ OtherPanics(r)
  <2>1. call[r].result # "result"
    BY <1>3 DEF OtherWaits, OtherPanics, ResultsInv, Tools
  <2> QED
    BY <1>3, <2>1, WorkerResults DEF OtherWaits, OtherPanics, Suspend, Panic
<1>4. CASE CallWaits(r) \/ AbortRequest(r) \/ CallResumes(r)
  <2>1. call[r].result # "result"
    BY <1>4 DEF CallWaits, AbortRequest, Abort, CallResumes, Resume, ResultsInv
  <2>2. /\ call'[r].result # "result" /\ \A q \in Requests \ {r} : call'[q] = call[q]
    BY <1>4, <2>1 DEF CallWaits, AbortRequest, CallResumes, Drop, Wake, TimeOut, Answer, JobsInv,
                      JobTypes, CallFields
  <2>3. /\ \A q \in Requests \ {r} : worker'[q] = worker[q]
        /\ UNCHANGED <<use, index_jobs, job, lost>>
    BY <1>4 DEF CallWaits, AbortRequest, CallResumes, Suspend, Abort, Resume, Become, Wake,
                TimeOut, SessionInv, SessionTypes
  <2> QED
    BY <2>1, <2>2, <2>3, OtherCallResults DEF ResultsInv, UseTypes
<1> QED
  BY <1>1, <1>2, <1>3, <1>4, PollResults DEF RequestStep

\* The result of a job is in the map for a later call, or its retention is over, or a
\* call has taken it and goes on to answer: no cancellation strikes between
\* (wait_for_index_job, index_now in mcp/src/tools.rs).
THEOREM ResultsAreDelivered == Spec => []ResultsReachTheClient
<1>1. Init => ResultsInv
  <2> SUFFICES ASSUME Init PROVE ResultsInv
    OBVIOUS
  <2>1. \A r \in Requests : call[r].result = "none"
    BY ServerAssumption DEF Init, JobsInit
  <2>2. JobsInv
    BY JobsInvInit
  <2>3. \A j \in JobIds : ~job[j].result
    BY <2>2, JobAssumption DEF JobsInv, Unstarted, Init, JobsInit, JobIds
  <2> QED
    BY <2>1, <2>3 DEF ResultsInv, UseTypes, Taken, ResultsReachTheClient, Init
<1>2. JobsInv /\ SessionInv /\ ResultsInv /\ [Next]_vars => ResultsInv'
  <2> SUFFICES ASSUME JobsInv, SessionInv, ResultsInv, [Next]_vars PROVE ResultsInv'
    OBVIOUS
  <2>1. ASSUME SessionStep, UNCHANGED <<jobVars, use>> PROVE ResultsInv'
    <3>1. UNCHANGED worker
      BY <2>1 DEF SessionStep, CancelRequest, ReadInline, SendInline, ReadEof, ReadFails, Drained,
                  SessionEnds, DeliveryStep, Finish, Deliver, WriteFrame, WriterEnds
    <3> QED
      BY <2>1, <3>1, IdleResults
  <2>2. ASSUME UNCHANGED <<dispatchVars, use>>,
               (\E j \in JobIds : JobStep(j)) \/ (\E p \in Refreshed : RefreshStep(p))
        PROVE  ResultsInv'
    <3>1. UNCHANGED call
      BY <2>2 DEF JobStep, JobLock, Grant, JobEnds, JobSends, JobReleases, JobExpires,
                  RefreshStep, RefreshLock, RefreshEnds
    <3> QED
      BY <2>2, <3>1, TaskResults DEF dispatchVars
  <2>3. CASE UNCHANGED vars
    BY <2>3, IdleResults DEF vars, dispatchVars
  <2> QED
    BY <2>1, <2>2, <2>3, ReceiveResults, RequestResults DEF Next
<1>3. ResultsInv => ResultsReachTheClient
  BY DEF ResultsInv
<1> QED
  BY <1>1, <1>2, <1>3, JobsInvariant, SessionInvariant, PTL DEF Spec

-----------------------------------------------------------------------------
(* Types.                                                                  *)

\* The read loop sends one frame at a time.
Sending == reader.pc = "send" => reader.frames \in 1..2

Typed == TypeOK /\ Sending

LEMMA TypedInit == Init => Typed
<1> SUFFICES ASSUME Init PROVE Typed
  OBVIOUS
<1> USE DEF Init, DispatchInit, JobsInit
<1>1. DispatchTypeOK
  <2>1. PICK k \in Keys : key = [r \in Requests |-> k]
    BY DispatchAssumption
  <2>2. cancels \in 0..MaxCancels /\ inlines \in 0..MaxInline
    BY DispatchAssumption
  <2>3. outbox \in Seq(Frames) /\ Len(outbox) <= OUTBOX_CAPACITY
    BY DispatchAssumption
  <2> QED
    BY <2>1, <2>2, <2>3 DEF DispatchTypeOK
<1>2. JobsTypeOK
  <2> DEFINE p == CHOOSE p \in Projects : TRUE
  <2>1. p \in Projects
    BY TaskAssumption
  <2>2. job \in [JobIds -> {[pc |-> "none", project |-> p, result |-> FALSE]}]
    BY DEF JobsInit
  <2>3. call = [c \in Calls |-> [pc |-> "idle", tool |-> "index_now", project |-> p,
                                 job |-> NoJob, joined |-> FALSE, result |-> "none"]]
    BY DEF JobsInit
  <2> HIDE DEF p
  <2>4. [pc |-> "none", project |-> p, result |-> FALSE] \in Job
    BY <2>1 DEF Job
  <2>5. job \in [JobIds -> Job]
    BY <2>2, <2>4
  <2>6. call \in [Calls -> Call]
    BY <2>1, <2>3 DEF Call, Tools
  <2>7. task \in [Tasks -> Task] /\ started \in 0..MaxJobs
    BY JobAssumption DEF Task, NoTask
  <2> QED
    BY <2>5, <2>6, <2>7 DEF JobsTypeOK
<1>3. Sending
  BY DEF Sending
<1> QED
  BY <1>1, <1>2, <1>3 DEF Typed, TypeOK

LEMMA SentIsFinite == IsFiniteSet(Sent)
BY DispatchAssumption, FS_Subset DEF Sent

\* Steps of the read loop.
LEMMA TypedDispatch ==
  ASSUME DispatchTypeOK, Sending, NEW r \in Requests, NEW k \in Keys, Dispatch(r, k)
  PROVE  DispatchTypeOK' /\ Sending'
BY SentIsFinite, FS_CardinalityType DEF DispatchTypeOK, Sending, Dispatch

LEMMA TypedCancel ==
  ASSUME DispatchTypeOK, Sending, NEW k \in Keys, CancelRequest(k)
  PROVE  DispatchTypeOK' /\ Sending'
BY DispatchAssumption DEF DispatchTypeOK, Sending, CancelRequest

LEMMA TypedReader ==
  ASSUME DispatchTypeOK, Sending,
         (\E n \in 1..2 : ReadInline(n)) \/ SendInline \/ ReadEof \/ ReadFails \/ Drained \/ SessionEnds
  PROVE  DispatchTypeOK' /\ Sending'
<1> USE DispatchAssumption DEF DispatchTypeOK, Sending
<1>1. ASSUME NEW n \in 1..2, ReadInline(n)
      PROVE  DispatchTypeOK' /\ Sending'
  BY <1>1 DEF ReadInline
<1>2. CASE SendInline
  <2>1. reader.frames \in 1..2
    BY <1>2 DEF SendInline
  <2>2. reader' \in [pc : {"read", "send"}, frames : 0..1] /\ Sending'
    BY <1>2, <2>1 DEF SendInline
  <2>3. outbox' \in Seq(Frames) /\ Len(outbox') <= OUTBOX_CAPACITY
    BY <1>2 DEF SendInline, HasRoom, Frames
  <2> QED
    BY <1>2, <2>2, <2>3 DEF SendInline
<1>3. CASE ReadEof \/ ReadFails \/ Drained
  BY <1>3 DEF ReadEof, ReadFails, Drained
<1>4. CASE SessionEnds
  BY <1>4 DEF SessionEnds
<1> QED
  BY <1>1, <1>2, <1>3, <1>4

LEMMA TypedWorker ==
  ASSUME DispatchTypeOK, Sending, NEW r \in Requests,
         \/ \E isTool \in BOOLEAN : Start(r, isTool)
         \/ Suspend(r) \/ Resume(r) \/ Return(r) \/ Panic(r) \/ Abort(r)
  PROVE  DispatchTypeOK' /\ Sending'
<1>1. PICK state \in {"polled", "waiting", "aborted", "done", "panicked"} : Become(r, state)
  BY DEF Start, Suspend, Resume, Return, Panic, Abort
<1>2. permits' \subseteq permits \cup {r}
  BY DEF Start, Suspend, Resume, Return, Panic, Abort
<1> QED
  BY <1>1, <1>2 DEF DispatchTypeOK, Sending, Become

LEMMA TypedDelivery ==
  ASSUME DispatchTypeOK, Sending, (\E r \in Requests : DeliveryStep(r)) \/ WriteFrame \/ WriterEnds
  PROVE  DispatchTypeOK' /\ Sending'
<1> USE DispatchAssumption DEF DispatchTypeOK, Sending
<1>1. ASSUME NEW r \in Requests, Finish(r)
      PROVE  DispatchTypeOK' /\ Sending'
  BY <1>1 DEF Finish, finish
<1>2. ASSUME NEW r \in Requests, Deliver(r)
      PROVE  DispatchTypeOK' /\ Sending'
  <2>1. CASE outbox' = Append(outbox, r) /\ HasRoom
    <3>1. r \in Frames /\ Len(outbox) \in Nat
      BY DEF Frames
    <3>2. outbox' \in Seq(Frames) /\ Len(outbox') = Len(outbox) + 1
      BY <2>1, <3>1, AppendProperties
    <3> QED
      BY <2>1, <3>1, <3>2, <1>2 DEF HasRoom, Deliver
  <2>2. CASE UNCHANGED outbox
    BY <1>2, <2>2 DEF Deliver
  <2> QED
    BY <1>2, <2>1, <2>2 DEF Deliver
<1>3. CASE WriteFrame
  <2>1. outbox' = Tail(outbox) /\ outbox # <<>>
    BY <1>3 DEF WriteFrame
  <2>2. outbox' \in Seq(Frames) /\ Len(outbox') = Len(outbox) - 1 /\ Len(outbox) \in Nat
    BY <2>1, HeadTailProperties
  <2>3. Len(outbox') <= OUTBOX_CAPACITY
    BY <2>2
  <2> QED
    BY <1>3, <2>2, <2>3 DEF WriteFrame
<1>4. CASE WriterEnds
  <2>1. outbox' = <<>> \/ UNCHANGED outbox
    BY <1>4 DEF WriterEnds
  <2>2. outbox' \in Seq(Frames) /\ Len(outbox') <= OUTBOX_CAPACITY
    <3>1. CASE outbox' = <<>>
      <4>1. <<>> \in Seq(Frames) /\ Len(<<>>) = 0
        BY EmptySeq
      <4> QED
        BY <3>1, <4>1
    <3>2. CASE UNCHANGED outbox
      BY <3>2
    <3> QED
      BY <2>1, <3>1, <3>2
  <2> QED
    BY <1>4, <2>2 DEF WriterEnds
<1> QED
  BY <1>1, <1>2, <1>3, <1>4 DEF DeliveryStep

-----------------------------------------------------------------------------

\* A task that clones, gets or drops the project lock; its record stays one of a task.
LEMMA TypedLock ==
  ASSUME JobsTypeOK, NEW t \in Tasks, project_index_lock(t) \/ Grant(t)
  PROVE  task' \in [Tasks -> Task] /\ (index_locks' \in [Projects -> Mutexes \cup {NoMutex}])
<1> USE DEF JobsTypeOK
<1>1. task[t] \in Task
  OBVIOUS
<1>2. CASE project_index_lock(t)
  <2>1. PICK m \in Mutexes :
          /\ index_locks' = [index_locks EXCEPT ![ProjectOf(t)] = m]
          /\ task' = [task EXCEPT ![t].mutex = m]
    BY <1>2 DEF project_index_lock
  <2>2. [task[t] EXCEPT !.mutex = m] \in Task
    BY <1>1 DEF Task
  <2> QED
    BY <2>1, <2>2
<1>3. CASE Grant(t)
  <2>1. [task[t] EXCEPT !.holds = TRUE] \in Task
    BY <1>1 DEF Task
  <2> QED
    BY <1>3, <2>1 DEF Grant
<1> QED
  BY <1>2, <1>3

LEMMA TypedJob ==
  ASSUME JobsTypeOK, NEW j \in JobIds, JobStep(j)
  PROVE  JobsTypeOK'
<1> USE DEF JobsTypeOK
<1>1. job[j] \in Job /\ j \in Tasks
  BY DEF Tasks
<1>2. CASE JobLock(j)
  BY <1>1, <1>2, TypedLock DEF JobLock
<1>3. CASE Grant(j)
  BY <1>1, <1>3, TypedLock DEF Grant
<1>4. CASE JobEnds(j)
  <2>1. [job[j] EXCEPT !.pc = "send"] \in Job /\ NoTask \in Task
    BY <1>1 DEF Job, Task, NoTask
  <2> QED
    BY <1>4, <2>1 DEF JobEnds
<1>5. CASE JobSends(j)
  <2>1. [job[j] EXCEPT !.pc = "release", !.result = TRUE] \in Job
    BY <1>1 DEF Job
  <2>2. job' = [job EXCEPT ![j] = [job[j] EXCEPT !.pc = "release", !.result = TRUE]]
    BY <1>5 DEF JobSends
  <2> QED
    BY <1>5, <2>1, <2>2 DEF JobSends
<1>6. CASE JobReleases(j)
  <2>1. [job[j] EXCEPT !.pc = "retain"] \in Job
    BY <1>1 DEF Job
  <2> QED
    BY <1>6, <2>1 DEF JobReleases, release_index_lock
<1>7. CASE JobExpires(j)
  <2>1. [job[j] EXCEPT !.pc = "over"] \in Job
    BY <1>1 DEF Job
  <2> QED
    BY <1>7, <2>1 DEF JobExpires, remove_index_job_if_id
<1> QED
  BY <1>2, <1>3, <1>4, <1>5, <1>6, <1>7 DEF JobStep

LEMMA TypedRefresh ==
  ASSUME JobsTypeOK, NEW p \in Refreshed, RefreshStep(p)
  PROVE  JobsTypeOK'
<1> USE DEF JobsTypeOK
<1>1. p \in Tasks /\ NoTask \in Task
  BY DEF Tasks, Task, NoTask
<1>2. CASE RefreshLock(p)
  BY <1>1, <1>2, TypedLock DEF RefreshLock
<1>3. CASE Grant(p)
  BY <1>1, <1>3, TypedLock DEF Grant
<1>4. CASE RefreshEnds(p)
  BY <1>1, <1>4 DEF RefreshEnds
<1> QED
  BY <1>2, <1>3, <1>4 DEF RefreshStep

\* A step of a call gives it another place, and a job or a result with it.
LEMMA TypedCall ==
  ASSUME JobsTypeOK, NEW c \in Calls, CallStep(c) \/ Wake(c) \/ TimeOut(c)
  PROVE  JobsTypeOK'
<1> USE DEF JobsTypeOK
<1>1. call[c] \in Call /\ call[c].project \in Projects
  BY DEF Call
<1>2. ASSUME NEW j \in JobIds, NEW joined \in BOOLEAN
      PROVE  [call[c] EXCEPT !.pc = "check", !.job = j, !.joined = joined] \in Call
  BY <1>1 DEF Call
<1>3. ASSUME NEW pc \in {"check", "wait", "remove"}
      PROVE  [call[c] EXCEPT !.pc = pc] \in Call
  BY <1>1 DEF Call
<1>4. ASSUME NEW result \in {"result", "in_progress", "started", "rejected"}
      PROVE  Answer(c, result) \in [Calls -> Call]
  <2>1. [call[c] EXCEPT !.pc = "answer", !.result = result] \in Call
    BY <1>1 DEF Call
  <2>2. Answer(c, result)
          = [call EXCEPT ![c] = [call[c] EXCEPT !.pc = "answer", !.result = result]]
    BY DEF Answer
  <2> QED
    BY <2>1, <2>2
<1>5. CASE ClaimExisting(c)
  <2> DEFINE j == index_jobs[call[c].project]
  <2>1. j \in JobIds
    BY <1>1, <1>5 DEF ClaimExisting
  <2>2. call' = [call EXCEPT ![c] = [call[c] EXCEPT !.pc = "check", !.job = j, !.joined = TRUE]]
    BY <1>5 DEF ClaimExisting
  <2> HIDE DEF j
  <2>3. call' \in [Calls -> Call]
    BY <1>2, <2>1, <2>2
  <2> QED
    BY <1>5, <2>3 DEF ClaimExisting
<1>6. CASE ClaimStarted(c)
  <2> DEFINE p == call[c].project
             j == started + 1
  <2>1. j \in JobIds /\ j \in 0..MaxJobs /\ started' = j
    BY <1>6, JobAssumption DEF ClaimStarted, JobIds
  <2>2. /\ call' = [call EXCEPT ![c] = [call[c] EXCEPT !.pc = "check", !.job = j,
                                                     !.joined = FALSE]]
        /\ job' = [job EXCEPT ![j] = [job[j] EXCEPT !.pc = "index", !.project = p]]
        /\ index_jobs' = [index_jobs EXCEPT ![p] = j]
    BY <1>6 DEF ClaimStarted
  <2>3. p \in Projects
    BY <1>1
  <2> HIDE DEF p, j
  <2>4. call' \in [Calls -> Call]
    BY <1>2, <2>1, <2>2
  <2>5. [job[j] EXCEPT !.pc = "index", !.project = p] \in Job
    BY <2>1, <2>3 DEF Job
  <2>6. job' \in [JobIds -> Job] /\ index_jobs' \in [Projects -> JobIds \cup {NoJob}]
    BY <2>1, <2>2, <2>5
  <2> QED
    BY <1>6, <2>1, <2>4, <2>6 DEF ClaimStarted
<1>7. CASE ClaimRejected(c) \/ TimeOut(c) \/ CheckRunning(c)
  <2>1. call' \in [Calls -> Call]
    BY <1>3, <1>4, <1>7 DEF ClaimRejected, TimeOut, CheckRunning
  <2> QED
    BY <1>7, <2>1 DEF ClaimRejected, TimeOut, CheckRunning
<1>8. CASE CheckFinished(c) \/ Wake(c)
  <2>1. call' \in [Calls -> Call]
    BY <1>3, <1>8 DEF CheckFinished, Wake
  <2> QED
    BY <1>8, <2>1 DEF CheckFinished, Wake
<1>9. CASE Remove(c)
  <2>1. call' \in [Calls -> Call]
    BY <1>4, <1>9 DEF Remove
  <2> QED
    BY <1>9, <2>1 DEF Remove, remove_index_job_if_id
<1> QED
  BY <1>5, <1>6, <1>7, <1>8, <1>9 DEF CallStep

LEMMA TypedBegin ==
  ASSUME JobsTypeOK, NEW c \in Calls,
         UNCHANGED <<index_jobs, started, job, index_locks, task, lost>>,
         \/ Drop(c)
         \/ \E u \in Tools, p \in Projects : BeginCall(c, u, p)
         \/ UNCHANGED call
  PROVE  JobsTypeOK'
<1> USE DEF JobsTypeOK
<1>1. call[c] \in Call
  OBVIOUS
<1>2. CASE Drop(c)
  <2>1. [call[c] EXCEPT !.pc = "dropped"] \in Call
    BY <1>1 DEF Call
  <2> QED
    BY <1>2, <2>1 DEF Drop
<1>3. ASSUME NEW u \in Tools, NEW p \in Projects, BeginCall(c, u, p)
      PROVE  JobsTypeOK'
  <2>1. [call[c] EXCEPT !.pc = "claim", !.tool = u, !.project = p] \in Call
    BY <1>1 DEF Call
  <2>2. call' = [call EXCEPT ![c] = [call[c] EXCEPT !.pc = "claim", !.tool = u, !.project = p]]
    BY <1>3 DEF BeginCall
  <2> QED
    BY <2>1, <2>2
<1> QED
  BY <1>2, <1>3

-----------------------------------------------------------------------------

LEMMA TypedNext == Typed /\ [Next]_vars => Typed'
<1> SUFFICES ASSUME DispatchTypeOK, JobsTypeOK, use \in [Requests -> Uses \cup {"ping"}], Sending,
                    [Next]_vars
             PROVE  /\ DispatchTypeOK' /\ JobsTypeOK' /\ Sending'
                    /\ (use \in [Requests -> Uses \cup {"ping"}])'
  BY DEF Typed, TypeOK
<1> USE ServerAssumption
<1> DEFINE Goal == /\ DispatchTypeOK' /\ JobsTypeOK' /\ Sending'
                   /\ (use \in [Requests -> Uses \cup {"ping"}])'
<1>1. UNCHANGED jobVars => JobsTypeOK'
  BY DEF jobVars, JobsTypeOK
<1>2. UNCHANGED dispatchVars => DispatchTypeOK' /\ Sending'
  BY DEF dispatchVars, DispatchTypeOK, Sending
<1>3. ASSUME NEW r \in Requests, NEW k \in Keys, NEW u \in Uses, NEW p \in Projects,
             Receive(r, k, u, p)
      PROVE  Goal
  BY <1>3, TypedDispatch, TypedBegin DEF Receive
<1>4. CASE SessionStep /\ UNCHANGED <<jobVars, use>>
  BY <1>1, <1>4, TypedCancel, TypedReader, TypedDelivery DEF SessionStep
<1>5. ASSUME NEW r \in Requests, RequestStep(r)
      PROVE  Goal
  <2>1. CASE PollCall(r)
    BY <1>2, <2>1, TypedCall DEF PollCall
  <2>2. CASE CallResumes(r)
    BY <2>2, TypedCall, TypedWorker DEF CallResumes
  <2>3. CASE CallWaits(r) \/ AbortRequest(r)
    BY <2>3, TypedBegin, TypedWorker DEF CallWaits, AbortRequest
  <2>4. CASE StartRequest(r)
    BY <1>1, <2>4, TypedWorker DEF StartRequest
  <2> QED
    BY <1>1, <1>5, <2>1, <2>2, <2>3, <2>4, TypedWorker
    DEF RequestStep, CallReturns, OtherWaits, OtherResumes, OtherReturns, OtherPanics
<1>6. CASE UNCHANGED vars
  BY <1>1, <1>2, <1>6 DEF vars
<1> QED
  BY <1>2, <1>3, <1>4, <1>5, <1>6, TypedJob, TypedRefresh DEF Next

\* Every variable of session and jobs keeps its type, for any number of requests, ids,
\* projects and jobs: a response never goes into an outbox without room (mpsc channel
\* of serve_stdio in mcp/src/main.rs), and a job's number is never beyond those that
\* were started.
THEOREM TypeCorrect == Spec => []TypeOK
<1>1. Typed => TypeOK
  BY DEF Typed
<1> QED
  BY <1>1, TypedInit, TypedNext, PTL DEF Spec

=============================================================================
