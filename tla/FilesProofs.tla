------------------------------ MODULE FilesProofs -------------------------------
(***************************************************************************)
(* The files tam shares: the ledger, whose replay yields what applying its *)
(* events yields, Claude's settings, to which tam's hooks are added once   *)
(* and the user's are kept, and .claude.json, which is never half written. *)
(* For any names, directories, hook events and writers.                    *)
(***************************************************************************)
EXTENDS LedgerReplay, HooksFile, TrustFile, FiniteSetTheorems, TLAPS

-----------------------------------------------------------------------------
(* The ledger *)

\* A run more keeps a task a task.
LEMMA OneMoreType ==
    ASSUME NEW s \in Snapshot
    PROVE  [s EXCEPT !.runs = OneMore(@)] \in Snapshot
<1>1. OneMore(s.runs) \in 0..MaxRuns
  BY LedgerAssumption DEF Snapshot, OneMore
<1> QED
  BY <1>1 DEF Snapshot

\* Applying an event keeps the tasks tasks.
LEMMA ApplyType ==
    ASSUME NEW ts \in Tasks, NEW e \in Events
    PROVE  Apply(ts, e) \in Tasks
<1>1. CASE \E n \in Names, d \in Dirs, o \in BOOLEAN : e = TaskCreated(n, d, o)
  <2> PICK n \in Names, d \in Dirs, o \in BOOLEAN : e = TaskCreated(n, d, o)
    BY <1>1
  <2>1. [dir |-> d, owned |-> o, runs |-> 0] \in Snapshot
    BY LedgerAssumption DEF Snapshot
  <2>2. Apply(ts, e) = [ts EXCEPT ![n] = [dir |-> d, owned |-> o, runs |-> 0]]
    BY DEF Apply, TaskCreated
  <2> QED
    BY <2>1, <2>2 DEF Tasks
<1>2. CASE \E n \in Names : e = AgentRunStarted(n)
  <2> PICK n \in Names : e = AgentRunStarted(n)
    BY <1>2
  <2>1. CASE ts[n] = None
    BY <2>1 DEF Apply, AgentRunStarted
  <2>2. CASE ts[n] # None
    <3>1. ts[n] \in Snapshot
      BY <2>2 DEF Tasks
    <3>2. Apply(ts, e) = [ts EXCEPT ![n] = [ts[n] EXCEPT !.runs = OneMore(@)]]
      BY <2>2 DEF Apply, AgentRunStarted
    <3> QED
      BY <3>1, <3>2, OneMoreType DEF Tasks
  <2> QED
    BY <2>1, <2>2
<1>3. CASE \E n \in Names : e = TaskDropped(n)
  BY <1>3 DEF Apply, TaskDropped, Tasks
<1>4. CASE \/ e = Malformed
           \/ \E n \in Names : e = AgentRunEnded(n) \/ e = WorktreeDeleted(n)
  BY <1>4 DEF Apply, Malformed, AgentRunEnded, WorktreeDeleted
<1> QED
  BY <1>1, <1>2, <1>3, <1>4 DEF Events

\* The types of events, and the names they carry.
LEMMA EventNames ==
    ASSUME NEW e \in Events
    PROVE  /\ e.type \in {"task_created", "agent_run_started", "agent_run_ended",
                          "worktree_deleted", "task_dropped", "malformed"}
           /\ e.type # "malformed" => e.task \in Names
           /\ e.type = "task_created" =>
                [dir |-> e.dir, owned |-> e.owned, runs |-> 0] \in Snapshot
BY LedgerAssumption DEF Events, Malformed, TaskCreated, AgentRunStarted,
   AgentRunEnded, WorktreeDeleted, TaskDropped, Snapshot

LEMMA StepType == TypeOK /\ [Next]_replay => TypeOK'
<1> SUFFICES ASSUME TypeOK, [Next]_replay PROVE TypeOK'
  OBVIOUS
<1>1. CASE UNCHANGED replay
  BY <1>1 DEF replay, TypeOK
<1>2. ASSUME NEW e \in Events, Replay(e) PROVE TypeOK'
  <2>1. view' \in Tasks
    BY <1>2, ApplyType DEF Replay, TypeOK
  <2>2. CASE Create(e)
    BY <2>1, <2>2, EventNames DEF Create, TypeOK, Tasks
  <2>3. CASE CountRun(e)
    <3>1. e.task \in Names
      BY <2>3, EventNames DEF CountRun
    <3>2. tasks' \in Tasks
      <4>1. CASE tasks[e.task] = None
        BY <2>3, <4>1 DEF CountRun, TypeOK
      <4>2. CASE tasks[e.task] # None
        <5>1. tasks[e.task] \in Snapshot
          BY <3>1, <4>2 DEF TypeOK, Tasks
        <5>2. tasks' = [tasks EXCEPT ![e.task] = [tasks[e.task] EXCEPT !.runs = OneMore(@)]]
          BY <2>3, <4>2 DEF CountRun
        <5> QED
          BY <5>1, <5>2, OneMoreType DEF TypeOK, Tasks
      <4> QED
        BY <4>1, <4>2
    <3> QED
      BY <2>1, <2>3, <3>2 DEF CountRun, TypeOK
  <2>4. CASE Drop(e) \/ Ignore(e)
    BY <2>1, <2>4, EventNames DEF Drop, Ignore, TypeOK
  <2> QED
    BY <1>2, <2>2, <2>3, <2>4 DEF Replay
<1> QED
  BY <1>1, <1>2 DEF Next

LEMMA InitType == Init => TypeOK
BY DEF Init, TypeOK, Tasks

\* The replay keeps its types, however long the log is.
THEOREM ReplayTypeCorrect == Spec => []TypeOK
BY InitType, StepType, PTL DEF Spec

-----------------------------------------------------------------------------
\* One event more keeps the loop and the events in agreement: what the loop keeps
\* of a dropped task is hidden by the set of dropped names until the name is
\* created again, when it is replaced.
LEMMA StepAgrees == TypeOK /\ ReplayAgrees /\ [Next]_replay => ReplayAgrees'
<1> SUFFICES ASSUME TypeOK, ReplayAgrees, [Next]_replay PROVE ReplayAgrees'
  OBVIOUS
<1>0. /\ \A n \in Names : view[n] = IF n \in dropped THEN None ELSE tasks[n]
      /\ view \in Tasks /\ tasks \in Tasks
  BY DEF ReplayAgrees, ActiveTasks, TypeOK
<1>1. CASE UNCHANGED replay
  BY <1>1 DEF replay, ReplayAgrees, ActiveTasks
<1>2. ASSUME NEW e \in Events, Replay(e),
             \A n \in Names : view'[n] = IF n \in dropped' THEN None ELSE tasks'[n]
      PROVE  ReplayAgrees'
  <2>1. view' \in [Names -> Snapshot \cup {None}]
    BY <1>0, <1>2, ApplyType DEF Replay, Tasks
  <2> QED
    BY <1>2, <2>1 DEF ReplayAgrees, ActiveTasks
<1>3. ASSUME NEW e \in Events, Replay(e), NEW n \in Names
      PROVE  view'[n] = IF n \in dropped' THEN None ELSE tasks'[n]
  <2>0. view' = Apply(view, e)
    BY <1>3 DEF Replay
  <2>1. CASE Create(e)
    <3>1. view' = [view EXCEPT ![e.task] = [dir |-> e.dir, owned |-> e.owned, runs |-> 0]]
      BY <2>0, <2>1 DEF Create, Apply
    <3> QED
      BY <1>0, <2>1, <3>1 DEF Create, Tasks
  <2>2. CASE CountRun(e)
    <3>1. e.task \in Names
      BY <2>2, EventNames DEF CountRun
    <3>2. view' = IF view[e.task] # None
                  THEN [view EXCEPT ![e.task].runs = OneMore(@)] ELSE view
      BY <2>0, <2>2 DEF CountRun, Apply
    <3> QED
      BY <1>0, <2>2, <3>1, <3>2 DEF CountRun, Tasks
  <2>3. CASE Drop(e)
    <3>1. view' = [view EXCEPT ![e.task] = None]
      BY <2>0, <2>3 DEF Drop, Apply
    <3> QED
      BY <1>0, <2>3, <3>1 DEF Drop, Tasks
  <2>4. CASE Ignore(e)
    <3>1. view' = view
      BY <2>0, <2>4 DEF Ignore, Apply
    <3> QED
      BY <1>0, <2>4, <3>1 DEF Ignore
  <2> QED
    BY <1>3, <2>1, <2>2, <2>3, <2>4 DEF Replay
<1> QED
  BY <1>1, <1>2, <1>3 DEF Next

\* However many events there are and in whatever order they come, the tasks the
\* loop yields are the tasks its events make one after the other.
THEOREM ReplayCorrect == Spec => []ReplayAgrees
<1>1. Init => ReplayAgrees
  BY DEF Init, ReplayAgrees, ActiveTasks
<1> QED
  BY <1>1, InitType, StepType, StepAgrees, PTL DEF Spec

-----------------------------------------------------------------------------
(* The hooks *)

\* No event of these lists has two hooks of tam's or its predecessor's.
Once(lists) == \A h \in Hooks : lists[h].tam + lists[h].zinc <= 1

\* These lists have what the user has put there.
HaveUsers(lists) == \A h \in Hooks : lists[h].user = users[h]

\* Whatever writers do, what they are about to write has each hook once.
CopiesOnce == \A w \in AmidHooks : Once(hookWriter[w].copy)

\* As long as nobody overlaps there is one writer at most, with all of the user's
\* hooks in its copy once it has read, and in the file until it truncates it.
OneHookWriter ==
    ~hooksRaced =>
        /\ \A v, w \in AmidHooks : v = w
        /\ \A w \in AmidHooks :
              /\ HaveUsers(hookWriter[w].copy)
              /\ hookWriter[w].at = "opened" => settings = HalfSettings
        /\ (\A w \in AmidHooks : hookWriter[w].at = "read") =>
              settings # HalfSettings /\ HaveUsers(settings)

HooksInv == HooksTypeOK /\ HooksOnce /\ CopiesOnce /\ OneHookWriter

\* Adding tam's hooks leaves each event with one, and the user's as they are.
LEMMA WithHooksAdds ==
    ASSUME NEW lists \in HookLists, Once(lists)
    PROVE  /\ WithHooks(lists) \in HookLists /\ Once(WithHooks(lists))
           /\ \A h \in Hooks : WithHooks(lists)[h].user = lists[h].user
<1>1. ASSUME NEW h \in Hooks
      PROVE  /\ WithHooks(lists)[h] \in Entries
             /\ WithHooks(lists)[h].tam + WithHooks(lists)[h].zinc <= 1
             /\ WithHooks(lists)[h].user = lists[h].user
  <2>1. lists[h] \in Entries /\ lists[h].tam \in Nat /\ lists[h].zinc \in Nat
        /\ lists[h].tam + lists[h].zinc <= 1
    BY DEF HookLists, Entries, Once
  <2>2. CASE Installed(lists[h])
    BY <2>1, <2>2 DEF WithHooks
  <2>3. CASE ~Installed(lists[h])
    <3>1. WithHooks(lists)[h] = [lists[h] EXCEPT !.tam = @ + 1]
      BY <2>3 DEF WithHooks
    <3>2. lists[h].tam = 0 /\ lists[h].zinc = 0
      BY <2>1, <2>3 DEF Installed
    <3> QED
      BY <2>1, <3>1, <3>2 DEF Entries
  <2> QED
    BY <2>2, <2>3
<1>2. WithHooks(lists) = [h \in Hooks |-> WithHooks(lists)[h]]
  BY DEF WithHooks
<1> QED
  BY <1>1, <1>2 DEF HookLists, Once

\* The parts of a writer.
LEMMA HookWriterIs ==
    ASSUME HooksTypeOK, NEW w \in HookWriters
    PROVE  /\ HookIdle \in HookWriter
           /\ w \in AmidHooks <=> hookWriter[w] # HookIdle
           /\ hookWriter[w].at \in {"idle", "read", "opened"}
           /\ hookWriter[w].at = "idle" <=> hookWriter[w] = HookIdle
           /\ hookWriter[w].at # "idle" =>
                hookWriter[w] \in [at : {"read", "opened"}, copy : HookLists]
BY DEF HooksTypeOK, HookWriter, HookIdle, AmidHooks

\* Who is writing after a step of w's.
LEMMA AmidAfter ==
    ASSUME HooksTypeOK, NEW w \in HookWriters, NEW s \in HookWriter, HookStep(w, s)
    PROVE  /\ hookWriter' \in [HookWriters -> HookWriter]
           /\ hookWriter'[w] = s
           /\ \A v \in HookWriters \ {w} : hookWriter'[v] = hookWriter[v]
           /\ AmidHooks' = IF s = HookIdle THEN AmidHooks \ {w} ELSE AmidHooks \cup {w}
BY DEF HooksTypeOK, HookStep, AmidHooks

LEMMA ReadHooksKeeps ==
    ASSUME HooksInv, NEW w \in HookWriters, ReadHooks(w)
    PROVE  HooksInv'
<1> DEFINE s == [at |-> "read", copy |-> WithHooks(settings)]
<1>1. settings \in HookLists /\ settings # HalfSettings /\ Once(settings)
  BY HooksAssumption DEF HooksInv, HooksTypeOK, HooksOnce, Once, ReadHooks
<1>2. /\ WithHooks(settings) \in HookLists /\ Once(WithHooks(settings))
      /\ \A h \in Hooks : WithHooks(settings)[h].user = settings[h].user
  BY <1>1, WithHooksAdds
<1>3. s \in HookWriter /\ s # HookIdle
  BY <1>2 DEF HookWriter, HookIdle
<1>4. HookStep(w, s) /\ settings' = settings /\ users' = users /\ w \notin AmidHooks
      /\ hooksRaced' = (hooksRaced \/ AmidHooks # {})
  BY DEF ReadHooks, AmidHooks
<1>5. /\ hookWriter' \in [HookWriters -> HookWriter] /\ hookWriter'[w] = s
      /\ \A v \in HookWriters \ {w} : hookWriter'[v] = hookWriter[v]
      /\ AmidHooks' = AmidHooks \cup {w}
  BY <1>3, <1>4, AmidAfter DEF HooksInv
<1>6. HooksTypeOK'
  BY <1>4, <1>5 DEF HooksInv, HooksTypeOK
<1>7. CopiesOnce'
  BY <1>2, <1>4, <1>5 DEF HooksInv, CopiesOnce, AmidHooks, Once
<1>8. OneHookWriter'
  <2> SUFFICES ASSUME ~hooksRaced'
               PROVE  /\ AmidHooks' = {w} /\ HaveUsers(WithHooks(settings))
                      /\ HaveUsers(settings)
    BY <1>1, <1>4, <1>5 DEF OneHookWriter, HaveUsers
  <2>1. ~hooksRaced /\ AmidHooks = {}
    BY <1>4 DEF HooksInv, HooksTypeOK
  <2>2. HaveUsers(settings)
    BY <2>1 DEF HooksInv, OneHookWriter
  <2> QED
    BY <1>2, <1>5, <2>1, <2>2 DEF HaveUsers
<1> QED
  BY <1>4, <1>6, <1>7, <1>8 DEF HooksInv, HooksOnce

LEMMA OpenHooksKeeps ==
    ASSUME HooksInv, NEW w \in HookWriters, OpenHooks(w)
    PROVE  HooksInv'
<1> DEFINE s == [hookWriter[w] EXCEPT !.at = "opened"]
<1>1. hookWriter[w] \in [at : {"read", "opened"}, copy : HookLists] /\ w \in AmidHooks
      /\ hookWriter[w].at = "read"
  BY HookWriterIs DEF HooksInv, OpenHooks
<1>2. s \in HookWriter /\ s # HookIdle /\ s.copy = hookWriter[w].copy /\ s.at = "opened"
  BY <1>1 DEF HookWriter, HookIdle
<1>3. HookStep(w, s) /\ settings' = HalfSettings /\ users' = users /\ hooksRaced' = hooksRaced
  BY DEF OpenHooks
<1> HIDE DEF s
<1>4. /\ hookWriter' \in [HookWriters -> HookWriter] /\ hookWriter'[w] = s
      /\ \A v \in HookWriters \ {w} : hookWriter'[v] = hookWriter[v]
      /\ AmidHooks' = AmidHooks
  BY <1>1, <1>2, <1>3, AmidAfter DEF HooksInv
<1>5. HooksTypeOK' /\ HooksOnce'
  BY <1>3, <1>4 DEF HooksInv, HooksTypeOK, HooksOnce
<1>6. \A v \in AmidHooks : hookWriter'[v].copy = hookWriter[v].copy
  BY <1>2, <1>4 DEF AmidHooks
<1>7. CopiesOnce'
  BY <1>4, <1>6 DEF HooksInv, CopiesOnce, Once
<1>8. OneHookWriter'
  BY <1>1, <1>2, <1>3, <1>4, <1>6 DEF HooksInv, OneHookWriter, HaveUsers
<1> QED
  BY <1>5, <1>7, <1>8 DEF HooksInv

\* A writer that is done, or dead, leaves the others as they are.
LEMMA HookWriterLeaves ==
    ASSUME HooksInv, NEW w \in HookWriters, HookStep(w, HookIdle), w \in AmidHooks
    PROVE  /\ hookWriter' \in [HookWriters -> HookWriter]
           /\ AmidHooks' = AmidHooks \ {w}
           /\ \A v \in AmidHooks' : hookWriter'[v] = hookWriter[v]
           /\ CopiesOnce'
           /\ ~hooksRaced => AmidHooks' = {}
<1>1. /\ hookWriter' \in [HookWriters -> HookWriter] /\ AmidHooks' = AmidHooks \ {w}
      /\ \A v \in HookWriters \ {w} : hookWriter'[v] = hookWriter[v]
  BY AmidAfter, HookWriterIs DEF HooksInv
<1>2. \A v \in AmidHooks' : hookWriter'[v] = hookWriter[v]
  BY <1>1 DEF AmidHooks
<1>3. CopiesOnce'
  BY <1>1, <1>2 DEF HooksInv, CopiesOnce, Once
<1>4. ~hooksRaced => AmidHooks' = {}
  BY <1>1 DEF HooksInv, OneHookWriter
<1> QED
  BY <1>1, <1>2, <1>3, <1>4

LEMMA WriteHooksKeeps ==
    ASSUME HooksInv, NEW w \in HookWriters, WriteHooks(w)
    PROVE  HooksInv'
<1>1. hookWriter[w] \in [at : {"read", "opened"}, copy : HookLists] /\ w \in AmidHooks
      /\ hookWriter[w].at = "opened"
  BY HookWriterIs DEF HooksInv, WriteHooks
<1>2. /\ hookWriter' \in [HookWriters -> HookWriter] /\ AmidHooks' = AmidHooks \ {w}
      /\ CopiesOnce' /\ (~hooksRaced => AmidHooks' = {})
      /\ users' = users /\ hooksRaced' = hooksRaced
  BY <1>1, HookWriterLeaves DEF WriteHooks
<1>3. hookWriter[w].copy \in HookLists /\ hookWriter[w].copy # HalfSettings
      /\ Once(hookWriter[w].copy)
  BY <1>1, HooksAssumption DEF HooksInv, CopiesOnce
<1>4. settings' = hookWriter[w].copy \/ (settings # HalfSettings /\ settings' = HalfSettings)
  BY DEF WriteHooks
<1>5. HooksTypeOK' /\ HooksOnce'
  BY <1>2, <1>3, <1>4 DEF HooksInv, HooksTypeOK, HooksOnce, Once
<1>6. OneHookWriter'
  <2> SUFFICES ASSUME ~hooksRaced
               PROVE  settings' # HalfSettings /\ HaveUsers(settings')
    BY <1>2 DEF OneHookWriter, HaveUsers
  <2>1. settings = HalfSettings /\ HaveUsers(hookWriter[w].copy)
    BY <1>1 DEF HooksInv, OneHookWriter
  <2> QED
    BY <1>3, <1>4, <2>1
<1> QED
  BY <1>2, <1>5, <1>6 DEF HooksInv

LEMMA HookWriterDiesKeeps ==
    ASSUME HooksInv, NEW w \in HookWriters, HookWriterDies(w)
    PROVE  HooksInv'
<1>1. w \in AmidHooks /\ hookWriter[w].at \in {"read", "opened"}
  BY HookWriterIs DEF HooksInv, HookWriterDies
<1>2. /\ hookWriter' \in [HookWriters -> HookWriter] /\ AmidHooks' = AmidHooks \ {w}
      /\ CopiesOnce' /\ (~hooksRaced => AmidHooks' = {})
      /\ users' = users /\ settings' = settings
      /\ hooksRaced' = (hooksRaced \/ hookWriter[w].at = "opened")
  BY <1>1, HookWriterLeaves DEF HookWriterDies
<1>3. HooksTypeOK' /\ HooksOnce'
  BY <1>2 DEF HooksInv, HooksTypeOK, HooksOnce
<1>4. OneHookWriter'
  <2> SUFFICES ASSUME ~hooksRaced'
               PROVE  settings # HalfSettings /\ HaveUsers(settings)
    BY <1>2 DEF OneHookWriter, HaveUsers, HooksInv, HooksTypeOK
  <2>1. ~hooksRaced /\ hookWriter[w].at = "read"
    BY <1>1, <1>2 DEF HooksInv, HooksTypeOK
  <2> QED
    BY <1>1, <2>1 DEF HooksInv, OneHookWriter
<1> QED
  BY <1>2, <1>3, <1>4 DEF HooksInv

LEMMA UserAddsHookKeeps ==
    ASSUME HooksInv, NEW h \in Hooks, UserAddsHook(h)
    PROVE  HooksInv'
<1>1. /\ settings \in HookLists /\ settings # HalfSettings
      /\ users \in [Hooks -> 0..MaxEdits] /\ users[h] < MaxEdits /\ MaxEdits \in Nat
      /\ settings' = [settings EXCEPT ![h].user = @ + 1] /\ users' = [users EXCEPT ![h] = @ + 1]
      /\ hookWriter' = hookWriter /\ AmidHooks' = AmidHooks
      /\ hooksRaced' = (hooksRaced \/ AmidHooks # {})
  BY HooksAssumption DEF HooksInv, HooksTypeOK, UserAddsHook, AmidHooks
<1>2. /\ settings' \in HookLists
      /\ \A k \in Hooks : /\ settings'[k].tam = settings[k].tam
                         /\ settings'[k].zinc = settings[k].zinc
                         /\ settings'[k].user = IF k = h THEN settings[k].user + 1
                                                        ELSE settings[k].user
  BY <1>1 DEF HookLists, Entries
<1>3. HooksTypeOK' /\ HooksOnce' /\ CopiesOnce' /\ settings' # HalfSettings
  <2>1. settings' # HalfSettings
    BY <1>2, HooksAssumption
  <2>2. users' \in [Hooks -> 0..MaxEdits]
    BY <1>1
  <2>3. HooksTypeOK'
    BY <1>1, <1>2, <2>2 DEF HooksInv, HooksTypeOK
  <2>4. HooksOnce' /\ CopiesOnce'
    BY <1>1, <1>2 DEF HooksInv, HooksOnce, CopiesOnce, Once
  <2> QED
    BY <2>1, <2>3, <2>4
<1>4. OneHookWriter'
  <2> SUFFICES ASSUME ~hooksRaced'
               PROVE  AmidHooks = {} /\ \A k \in Hooks : settings'[k].user = users'[k]
    BY <1>1, <1>3 DEF OneHookWriter, HaveUsers
  <2>1. ~hooksRaced /\ AmidHooks = {}
    BY <1>1 DEF HooksInv, HooksTypeOK
  <2>2. \A k \in Hooks : settings[k].user = users[k]
    BY <2>1 DEF HooksInv, OneHookWriter, HaveUsers
  <2> QED
    BY <1>1, <1>2, <2>1, <2>2
<1> QED
  BY <1>3, <1>4 DEF HooksInv

LEMMA HooksInvariant == HooksSpec => []HooksInv
<1>1. HooksInit => HooksInv
  <2> SUFFICES ASSUME HooksInit PROVE HooksInv
    OBVIOUS
  <2>1. settings \in HookLists /\ Once(settings) /\ \A h \in Hooks : settings[h].user = 0
    BY DEF HooksInit, HookLists, Entries, Once
  <2>2. settings # HalfSettings /\ AmidHooks = {}
    BY <2>1, HooksAssumption DEF HooksInit, AmidHooks
  <2>3. HooksTypeOK
    <3>1. HookIdle \in HookWriter
      BY DEF HookWriter, HookIdle
    <3>2. users \in [Hooks -> 0..MaxEdits]
      BY HooksAssumption DEF HooksInit
    <3> QED
      BY <2>1, <3>1, <3>2 DEF HooksInit, HooksTypeOK
  <2> QED
    BY <2>1, <2>2, <2>3
       DEF HooksInit, HooksInv, HooksOnce, CopiesOnce, OneHookWriter, HaveUsers, Once
<1>2. HooksInv /\ [HooksNext]_hooksFile => HooksInv'
  <2> SUFFICES ASSUME HooksInv, [HooksNext]_hooksFile PROVE HooksInv'
    OBVIOUS
  <2>1. CASE UNCHANGED hooksFile
    BY <2>1 DEF hooksFile, HooksInv, HooksTypeOK, HooksOnce, CopiesOnce, OneHookWriter,
                HaveUsers, AmidHooks, Once
  <2>2. CASE HooksNext
    BY <2>2, ReadHooksKeeps, OpenHooksKeeps, WriteHooksKeeps, HookWriterDiesKeeps,
       UserAddsHookKeeps DEF HooksNext
  <2> QED
    BY <2>1, <2>2
<1> QED
  BY <1>1, <1>2, PTL DEF HooksSpec

\* HooksTypeOK: what a call of ensure_claude_hooks_at is about to write is a file.
THEOREM HooksTypeCorrect == HooksSpec => []HooksTypeOK
BY HooksInvariant, PTL DEF HooksInv

\* HooksIntact: however calls of ensure_claude_hooks_at and the user's edits meet, no
\* event gets a second hook of tam's; without overlap the user's hooks stay.
THEOREM HooksStayIntact == HooksSpec => []HooksIntact
<1>1. HooksInv => HooksIntact
  BY HookWriterIs DEF HooksInv, OneHookWriter, HooksIntact, UsersHooksKept, HaveUsers
<1> QED
  BY <1>1, HooksInvariant, PTL
-----------------------------------------------------------------------------
(* The trust file *)

\* The parts of a writer.
LEMMA TrustWriterIs ==
    ASSUME trustWriter \in [TrustWriters -> TrustWriter], NEW w \in TrustWriters
    PROVE  /\ TrustIdle \in TrustWriter
           /\ w \in AmidTrust <=> trustWriter[w] # TrustIdle
           /\ trustWriter[w].at \in {"idle", "read", "opened", "written"}
           /\ trustWriter[w].at = "idle" <=> trustWriter[w] = TrustIdle
           /\ trustWriter[w].at # "idle" =>
                trustWriter[w].copy \in File /\ trustWriter[w].dir \in Cwds
           /\ trustWriter[w].at \in {"opened", "written"} =>
                trustWriter[w] \in [at : {"opened", "written"}, copy : File, dir : Cwds,
                                   inode : Inodes]
           /\ w \in Holding => w \in AmidTrust /\ trustWriter[w].inode \in Inodes
BY DEF TrustWriter, TrustIdle, AmidTrust, Holding

\* The temporary file has a writer, or there is a writer that could have left it; and it
\* is not the file itself.
TmpAccounted ==
    /\ tmp # NoFile => tmp \in OpenInodes \/ Holding # TrustWriters
    /\ tmp # NoFile => tmp # path

\* An element more makes a set larger by one at most.
LEMMA OneElementMore ==
    ASSUME NEW S, IsFiniteSet(S), NEW x
    PROVE  /\ IsFiniteSet(S \cup {x}) /\ Cardinality(S \cup {x}) \in Nat
           /\ Cardinality(S \cup {x}) <= Cardinality(S) + 1
<1>1. Cardinality(S) \in Nat
  BY FS_CardinalityType
<1>2. /\ IsFiniteSet(S \cup {x})
      /\ Cardinality(S \cup {x}) = IF x \in S THEN Cardinality(S) ELSE Cardinality(S) + 1
  BY FS_AddElement, Zenon
<1> QED
  BY <1>1, <1>2

\* There is always an inode for a new file.
LEMMA SomeFree ==
    ASSUME TrustTypeOK, TmpAccounted
    PROVE  (CHOOSE i \in Free : TRUE) \in Free
<1> SUFFICES ASSUME Free = {} PROVE FALSE
  OBVIOUS
<1> DEFINE n == Cardinality(TrustWriters)
<1>1. IsFiniteSet(TrustWriters) /\ n \in Nat /\ IsFiniteSet(Holding)
      /\ Cardinality(Holding) \in Nat /\ Cardinality(Holding) <= n
      /\ (Holding # TrustWriters => Cardinality(Holding) # n)
  <2>1. Holding \in SUBSET TrustWriters
    BY DEF Holding
  <2> QED
    BY <2>1, TrustAssumption, FS_Subset, FS_CardinalityType
<1>2. /\ IsFiniteSet(OpenInodes) /\ Cardinality(OpenInodes) \in Nat
      /\ Cardinality(OpenInodes) <= Cardinality(Holding)
  <2>1. [w \in Holding |-> trustWriter[w].inode] \in Surjection(Holding, OpenInodes)
    BY DEF Surjection, OpenInodes
  <2> QED
    BY <1>1, <2>1, FS_Surjection, FS_CardinalityType
<1>3. Inodes \subseteq OpenInodes \cup {path, tmp} /\ NoFile \notin Inodes
  BY TrustAssumption DEF Free, Inodes
<1>4. Cardinality(Inodes) = n + 2
  BY <1>1, FS_Interval DEF Inodes
<1>5. ASSUME NEW S, IsFiniteSet(S), Inodes \subseteq S
      PROVE  n + 2 <= Cardinality(S)
  BY <1>4, <1>5, FS_Subset
<1>6. CASE tmp = NoFile \/ tmp \in OpenInodes
  <2>1. Inodes \subseteq OpenInodes \cup {path}
    BY <1>3, <1>6
  <2>2. /\ IsFiniteSet(OpenInodes \cup {path})
        /\ Cardinality(OpenInodes \cup {path}) \in Nat
        /\ Cardinality(OpenInodes \cup {path}) <= Cardinality(OpenInodes) + 1
    BY <1>2, OneElementMore
  <2>3. n + 2 <= Cardinality(OpenInodes \cup {path})
    BY <1>5, <2>1, <2>2
  <2> QED
    BY <1>1, <1>2, <2>2, <2>3
<1>7. CASE Holding # TrustWriters
  <2>1. /\ IsFiniteSet(OpenInodes \cup {path})
        /\ Cardinality(OpenInodes \cup {path}) \in Nat
        /\ Cardinality(OpenInodes \cup {path}) <= Cardinality(OpenInodes) + 1
    BY <1>2, OneElementMore
  <2>2. /\ IsFiniteSet(OpenInodes \cup {path} \cup {tmp})
        /\ Cardinality(OpenInodes \cup {path} \cup {tmp}) \in Nat
        /\ Cardinality(OpenInodes \cup {path} \cup {tmp}) <= Cardinality(OpenInodes \cup {path}) + 1
    BY <2>1, OneElementMore
  <2>3. n + 2 <= Cardinality(OpenInodes \cup {path} \cup {tmp})
    BY <1>3, <1>5, <2>2
  <2> QED
    BY <1>1, <1>2, <1>7, <2>1, <2>2, <2>3
<1> QED
  BY <1>6, <1>7 DEF TmpAccounted

\* The file has everything that was ever put there.
HasGiven(file) ==
    file # HalfTrust /\ given.trusted \subseteq file.trusted /\ given.claude <= file.claude

\* As long as nobody overlaps there is one writer at most; what it read is still what
\* the file has, and once it has opened the temporary file that is its own.
OneTrustWriter ==
    ~trustRaced =>
        /\ HasGiven(Current)
        /\ \A v, w \in AmidTrust : v = w
        /\ \A w \in AmidTrust :
              LET copy == trustWriter[w].copy
              IN /\ copy.trusted = Current.trusted \cup {trustWriter[w].dir}
                 /\ copy.claude = Current.claude
                 /\ w \in Holding => tmp = trustWriter[w].inode
                 /\ trustWriter[w].at = "opened" => content[tmp] = HalfTrust
                 /\ trustWriter[w].at = "written" => content[tmp] = copy

TrustInv == TrustTypeOK /\ TmpAccounted /\ OneTrustWriter

\* What a reader finds is a file, or half of one.
LEMMA CurrentIs ==
    ASSUME TrustTypeOK
    PROVE  /\ Current \in File \cup {HalfTrust}
           /\ Current # HalfTrust => Current \in File
           /\ Empty \in File /\ Empty # HalfTrust
BY TrustAssumption DEF TrustTypeOK, Current, File, Empty

\* Writing an inode changes no other that has a name or is open.
LEMMA PutIs ==
    ASSUME TrustTypeOK, NEW i \in Inodes, NEW c \in File \cup {HalfTrust}, Put(i, c)
    PROVE  /\ content' \in [Inodes -> File \cup {HalfTrust}]
           /\ content'[i] = c
           /\ \A j \in Inodes \ {i} : j \notin Free => content'[j] = content[j]
<1>1. Empty \in File
  BY CurrentIs
<1> QED
  BY <1>1 DEF TrustTypeOK, Put

\* Who is writing, and where, after a step of w's.
LEMMA TrustAfter ==
    ASSUME trustWriter \in [TrustWriters -> TrustWriter],
           NEW w \in TrustWriters, NEW s \in TrustWriter, TrustStep(w, s)
    PROVE  /\ trustWriter' \in [TrustWriters -> TrustWriter]
           /\ trustWriter'[w] = s
           /\ \A v \in TrustWriters \ {w} : trustWriter'[v] = trustWriter[v]
           /\ AmidTrust' = IF s = TrustIdle THEN AmidTrust \ {w} ELSE AmidTrust \cup {w}
           /\ Holding' = IF s.at \in {"opened", "written"} THEN Holding \cup {w}
                                                           ELSE Holding \ {w}
BY DEF TrustStep, AmidTrust, Holding

LEMMA ReadTrustKeeps ==
    ASSUME TrustInv, NEW w \in TrustWriters, NEW d \in Cwds, ReadTrust(w, d)
    PROVE  TrustInv'
<1> DEFINE copy == [Current EXCEPT !.trusted = @ \cup {d}]
           s == [at |-> "read", dir |-> d, copy |-> copy]
<1>1. Current \in File /\ trustWriter \in [TrustWriters -> TrustWriter]
  BY CurrentIs DEF TrustInv, TrustTypeOK, ReadTrust
<1>2. copy \in File /\ copy.trusted = Current.trusted \cup {d} /\ copy.claude = Current.claude
  BY <1>1 DEF File
<1> HIDE DEF copy
<1>3. s \in TrustWriter /\ s # TrustIdle
      /\ s.at = "read" /\ s.copy = copy /\ s.dir = d
  BY <1>2 DEF TrustWriter, TrustIdle
<1>4. TrustStep(w, s) /\ UNCHANGED <<content, path, tmp, given>> /\ w \notin AmidTrust
      /\ trustRaced' = (trustRaced \/ AmidTrust # {})
  BY DEF ReadTrust, AmidTrust, copy
<1> HIDE DEF s
<1>5. /\ trustWriter' \in [TrustWriters -> TrustWriter] /\ trustWriter'[w] = s
      /\ \A v \in TrustWriters \ {w} : trustWriter'[v] = trustWriter[v]
      /\ AmidTrust' = AmidTrust \cup {w} /\ Holding' = Holding /\ w \notin Holding
  <2>1. w \notin Holding
    BY <1>1, <1>4, TrustWriterIs
  <2>2. Holding' = Holding \ {w}
    BY <1>1, <1>3, <1>4, TrustAfter
  <2> QED
    BY <1>1, <1>3, <1>4, <2>1, <2>2, TrustAfter
<1>6. TrustTypeOK' /\ Current' = Current
  BY <1>4, <1>5 DEF TrustInv, TrustTypeOK, Current
<1>7. OpenInodes' = OpenInodes
  BY <1>5 DEF OpenInodes, Holding
<1>8. TmpAccounted'
  BY <1>4, <1>5, <1>7 DEF TrustInv, TmpAccounted
<1>9. OneTrustWriter'
  BY <1>2, <1>3, <1>4, <1>5, <1>6 DEF TrustInv, TrustTypeOK, OneTrustWriter, HasGiven
<1> QED
  BY <1>6, <1>8, <1>9 DEF TrustInv

LEMMA OpenTmpKeeps ==
    ASSUME TrustInv, NEW w \in TrustWriters, OpenTmp(w)
    PROVE  TrustInv'
<1> DEFINE s == Opened(w, tmp')
<1>1. trustWriter \in [TrustWriters -> TrustWriter] /\ path \in Inodes \cup {NoFile}
      /\ NoFile \notin Inodes
  BY TrustAssumption DEF TrustInv, TrustTypeOK, Inodes
<1>2. tmp' \in Inodes /\ tmp' # path
      /\ (tmp = NoFile => tmp' \in Free) /\ (tmp # NoFile => tmp' = tmp)
  BY <1>1, SomeFree DEF OpenTmp, TrustInv, TrustTypeOK, TmpAccounted, Free
<1>3. trustWriter[w].at = "read" /\ trustWriter[w].copy \in File /\ trustWriter[w].dir \in Cwds
      /\ w \in AmidTrust
  BY <1>1, TrustWriterIs DEF OpenTmp
<1>4. s \in TrustWriter /\ s # TrustIdle /\ s.at = "opened" /\ s.inode = tmp'
      /\ s.copy = trustWriter[w].copy /\ s.dir = trustWriter[w].dir
  BY <1>2, <1>3 DEF Opened, TrustWriter, TrustIdle
<1>5. TrustStep(w, s) /\ Put(tmp', HalfTrust) /\ UNCHANGED <<path, given, trustRaced>>
  BY DEF OpenTmp
<1> HIDE DEF s
<1>6. /\ trustWriter' \in [TrustWriters -> TrustWriter] /\ trustWriter'[w] = s
      /\ \A v \in TrustWriters \ {w} : trustWriter'[v] = trustWriter[v]
      /\ AmidTrust' = AmidTrust /\ Holding' = Holding \cup {w}
  BY <1>1, <1>3, <1>4, <1>5, TrustAfter
<1>7. /\ content' \in [Inodes -> File \cup {HalfTrust}] /\ content'[tmp'] = HalfTrust
      /\ \A j \in Inodes \ {tmp'} : j \notin Free => content'[j] = content[j]
  BY <1>2, <1>5, PutIs DEF TrustInv
<1>8. TrustTypeOK' /\ Current' = Current
  BY <1>1, <1>2, <1>5, <1>6, <1>7 DEF TrustInv, TrustTypeOK, Current, Free
<1>9. tmp' \in OpenInodes'
  BY <1>4, <1>6 DEF OpenInodes
<1>10. TmpAccounted'
  BY <1>2, <1>5, <1>9 DEF TmpAccounted
<1>11. OneTrustWriter'
  BY <1>3, <1>4, <1>5, <1>6, <1>7, <1>8 DEF TrustInv, OneTrustWriter, HasGiven
<1> QED
  BY <1>8, <1>10, <1>11 DEF TrustInv

LEMMA WriteTmpKeeps ==
    ASSUME TrustInv, NEW w \in TrustWriters, WriteTmp(w)
    PROVE  TrustInv'
<1> DEFINE s == [trustWriter[w] EXCEPT !.at = "written"]
           i == trustWriter[w].inode
<1>1. trustWriter \in [TrustWriters -> TrustWriter] /\ path \in Inodes \cup {NoFile}
      /\ NoFile \notin Inodes
  BY TrustAssumption DEF TrustInv, TrustTypeOK, Inodes
<1>2. trustWriter[w] \in [at : {"opened", "written"}, copy : File, dir : Cwds, inode : Inodes]
      /\ trustWriter[w].at = "opened" /\ w \in Holding /\ w \in AmidTrust
  BY <1>1, TrustWriterIs DEF WriteTmp, Holding
<1>3. s \in TrustWriter /\ s # TrustIdle /\ s.at = "written" /\ s.inode = i
      /\ s.copy = trustWriter[w].copy /\ s.dir = trustWriter[w].dir
  BY <1>2 DEF TrustWriter, TrustIdle
<1>4. i \in Inodes /\ trustWriter[w].copy \in File /\ i \in OpenInodes
  BY <1>2 DEF OpenInodes
<1>5. TrustStep(w, s) /\ UNCHANGED <<path, tmp, given, trustRaced>>
      /\ \/ Put(i, trustWriter[w].copy)
         \/ content[i] # HalfTrust /\ Put(i, HalfTrust)
  BY DEF WriteTmp
<1> HIDE DEF s, i
<1>6. /\ trustWriter' \in [TrustWriters -> TrustWriter] /\ trustWriter'[w] = s
      /\ \A v \in TrustWriters \ {w} : trustWriter'[v] = trustWriter[v]
      /\ AmidTrust' = AmidTrust /\ Holding' = Holding
  <2>1. Holding' = Holding \cup {w}
    BY <1>1, <1>3, <1>5, TrustAfter
  <2>2. AmidTrust' = AmidTrust \cup {w}
    BY <1>1, <1>3, <1>5, TrustAfter
  <2> QED
    BY <1>1, <1>2, <1>3, <1>5, <2>1, <2>2, TrustAfter
<1>7. OpenInodes' = OpenInodes
  BY <1>3, <1>6 DEF OpenInodes, i, Holding
<1>8. /\ content' \in [Inodes -> File \cup {HalfTrust}]
      /\ \/ content'[i] = trustWriter[w].copy
         \/ content[i] # HalfTrust /\ content'[i] = HalfTrust
      /\ \A j \in Inodes \ {i} : j \notin Free => content'[j] = content[j]
  BY <1>4, <1>5, PutIs DEF TrustInv
<1>9. TrustTypeOK' /\ TmpAccounted'
  BY <1>5, <1>6, <1>7, <1>8 DEF TrustInv, TrustTypeOK, TmpAccounted
<1>10. OneTrustWriter'
  <2> SUFFICES ASSUME ~trustRaced
               PROVE  i = tmp /\ i # path /\ content'[i] = trustWriter[w].copy
    <3>1. i # path => Current' = Current
      BY <1>1, <1>5, <1>8 DEF Current, Free
    <3> QED
      BY <1>2, <1>3, <1>5, <1>6, <3>1 DEF TrustInv, OneTrustWriter, HasGiven, i
  <2>1. i = tmp /\ content[i] = HalfTrust
    BY <1>2 DEF TrustInv, OneTrustWriter, i
  <2> QED
    BY <1>1, <1>4, <1>8, <2>1 DEF TrustInv, TmpAccounted
<1> QED
  BY <1>9, <1>10 DEF TrustInv

\* A writer that is done, or dead, leaves the others and its file as they are.
LEMMA TrustWriterLeaves ==
    ASSUME TrustInv, NEW w \in TrustWriters, w \in AmidTrust, TrustStep(w, TrustIdle)
    PROVE  /\ trustWriter' \in [TrustWriters -> TrustWriter]
           /\ Holding' # TrustWriters
           /\ ~trustRaced => AmidTrust' = {}
<1>1. trustWriter \in [TrustWriters -> TrustWriter] /\ TrustIdle \in TrustWriter
      /\ TrustIdle.at = "idle"
  BY TrustWriterIs DEF TrustInv, TrustTypeOK, TrustIdle
<1>2. /\ trustWriter' \in [TrustWriters -> TrustWriter]
      /\ AmidTrust' = AmidTrust \ {w} /\ Holding' = Holding \ {w}
  BY <1>1, TrustAfter
<1>3. ~trustRaced => AmidTrust = {w}
  BY DEF TrustInv, OneTrustWriter
<1> QED
  BY <1>2, <1>3

LEMMA RenameTmpKeeps ==
    ASSUME TrustInv, NEW w \in TrustWriters, RenameTmp(w)
    PROVE  TrustInv'
<1>1. /\ trustWriter \in [TrustWriters -> TrustWriter] /\ tmp \in Inodes \cup {NoFile}
      /\ given \in File /\ trustRaced \in BOOLEAN /\ NoFile \notin Inodes
  BY TrustAssumption DEF TrustInv, TrustTypeOK, Inodes
<1>2. trustWriter[w] \in [at : {"opened", "written"}, copy : File, dir : Cwds, inode : Inodes]
      /\ trustWriter[w].at = "written" /\ w \in Holding /\ w \in AmidTrust
  BY <1>1, TrustWriterIs DEF RenameTmp, Holding
<1>3. /\ trustWriter' \in [TrustWriters -> TrustWriter] /\ Holding' # TrustWriters
      /\ ~trustRaced => AmidTrust' = {}
      /\ content' = content /\ trustRaced' = trustRaced
  BY <1>2, TrustWriterLeaves DEF RenameTmp
<1>4. CASE tmp = NoFile
  <2>1. path' = path /\ tmp' = tmp /\ given' = given
    BY <1>4 DEF RenameTmp
  <2>2. TrustTypeOK' /\ TmpAccounted' /\ Current' = Current
    BY <1>3, <1>4, <2>1 DEF TrustInv, TrustTypeOK, TmpAccounted, Current
  <2>3. OneTrustWriter'
    BY <1>3, <2>1, <2>2 DEF TrustInv, OneTrustWriter, HasGiven
  <2> QED
    BY <2>2, <2>3 DEF TrustInv
<1>5. CASE tmp # NoFile
  <2>1. path' = tmp /\ tmp' = NoFile
        /\ given' = [given EXCEPT !.trusted = @ \cup {trustWriter[w].dir}]
    BY <1>5 DEF RenameTmp
  <2>2. given' \in File /\ given'.claude = given.claude
        /\ given'.trusted = given.trusted \cup {trustWriter[w].dir}
    BY <1>1, <1>2, <2>1 DEF File
  <2>3. TrustTypeOK' /\ TmpAccounted'
    BY <1>1, <1>3, <1>5, <2>1, <2>2 DEF TrustInv, TrustTypeOK, TmpAccounted
  <2>4. OneTrustWriter'
    <3> SUFFICES ASSUME ~trustRaced PROVE HasGiven(Current)'
      BY <1>3 DEF OneTrustWriter
    <3>1. /\ Current' = trustWriter[w].copy
          /\ trustWriter[w].copy.trusted = Current.trusted \cup {trustWriter[w].dir}
          /\ trustWriter[w].copy.claude = Current.claude /\ HasGiven(Current)
      BY <1>1, <1>2, <1>3, <1>5, <2>1 DEF TrustInv, OneTrustWriter, Current
    <3>2. trustWriter[w].copy # HalfTrust
      BY <1>2, TrustAssumption
    <3> QED
      BY <2>2, <3>1, <3>2 DEF HasGiven
  <2> QED
    BY <2>3, <2>4 DEF TrustInv
<1> QED
  BY <1>4, <1>5

LEMMA TrustWriterDiesKeeps ==
    ASSUME TrustInv, NEW w \in TrustWriters, TrustWriterDies(w)
    PROVE  TrustInv'
<1>1. w \in AmidTrust
  BY DEF TrustWriterDies, AmidTrust
<1>2. /\ trustWriter' \in [TrustWriters -> TrustWriter] /\ Holding' # TrustWriters
      /\ ~trustRaced => AmidTrust' = {}
      /\ UNCHANGED <<content, path, tmp, given, trustRaced>>
  BY <1>1, TrustWriterLeaves DEF TrustWriterDies
<1>3. TrustTypeOK' /\ TmpAccounted' /\ Current' = Current
  BY <1>2 DEF TrustInv, TrustTypeOK, TmpAccounted, Current
<1>4. OneTrustWriter'
  BY <1>2, <1>3 DEF TrustInv, OneTrustWriter, HasGiven
<1> QED
  BY <1>3, <1>4 DEF TrustInv

LEMMA ClaudeWritesKeeps ==
    ASSUME TrustInv, ClaudeWrites
    PROVE  TrustInv'
<1> DEFINE i == CHOOSE i \in Free : TRUE
<1>1. i \in Free /\ i \in Inodes /\ i # tmp
  BY SomeFree DEF TrustInv, Free
<1> HIDE DEF i
<1>2. Current \in File /\ given \in File
  BY CurrentIs DEF TrustInv, TrustTypeOK, ClaudeWrites
<1>3. PICK new : /\ \/ new = [Current EXCEPT !.claude = 1]
                    \/ \E d \in Cwds : new = [Current EXCEPT !.trusted = @ \cup {d}]
                 /\ Put(i, new) /\ path' = i
                 /\ given' = [trusted |-> given.trusted \cup new.trusted,
                              claude |-> IF new.claude = 1 THEN 1 ELSE given.claude]
  BY DEF ClaudeWrites, i
<1>4. new \in File /\ Current.trusted \subseteq new.trusted /\ Current.claude <= new.claude
      /\ new.claude \in 0..1 /\ new # HalfTrust
  BY <1>2, <1>3, TrustAssumption DEF File
<1>5. given' \in File /\ given'.trusted = given.trusted \cup new.trusted
      /\ given'.claude = (IF new.claude = 1 THEN 1 ELSE given.claude)
  BY <1>2, <1>3, <1>4 DEF File
<1>6. /\ content' \in [Inodes -> File \cup {HalfTrust}] /\ content'[i] = new
  BY <1>1, <1>3, <1>4, PutIs DEF TrustInv
<1>7. tmp' = tmp /\ trustWriter' = trustWriter /\ AmidTrust' = AmidTrust
      /\ Holding' = Holding /\ OpenInodes' = OpenInodes
      /\ trustRaced' = (trustRaced \/ AmidTrust # {})
  BY DEF ClaudeWrites, AmidTrust, Holding, OpenInodes
<1>8. TrustTypeOK' /\ TmpAccounted'
  BY <1>1, <1>3, <1>5, <1>6, <1>7 DEF TrustInv, TrustTypeOK, TmpAccounted
<1>9. OneTrustWriter'
  <2> SUFFICES ASSUME ~trustRaced' PROVE HasGiven(Current)' /\ AmidTrust = {}
    BY <1>7 DEF OneTrustWriter
  <2>1. ~trustRaced /\ AmidTrust = {}
    BY <1>7 DEF TrustInv, TrustTypeOK
  <2>2. HasGiven(Current)
    BY <2>1 DEF TrustInv, OneTrustWriter
  <2>3. Current' = new
    BY <1>1, <1>3, <1>6, TrustAssumption DEF Current, Inodes
  <2>4. given.claude \in 0..1 /\ Current.claude \in 0..1
    BY <1>2 DEF File
  <2> QED
    BY <1>4, <1>5, <2>1, <2>2, <2>3, <2>4 DEF HasGiven
<1> QED
  BY <1>8, <1>9 DEF TrustInv

LEMMA TrustInvariant == TrustSpec => []TrustInv
<1>1. TrustInit => TrustInv
  <2> SUFFICES ASSUME TrustInit PROVE TrustInv
    OBVIOUS
  <2>1. Empty \in File /\ Empty # HalfTrust /\ TrustIdle \in TrustWriter
    BY TrustAssumption DEF Empty, File, TrustWriter, TrustIdle
  <2>2. 1 \in Inodes
    BY TrustAssumption, FS_CardinalityType DEF Inodes
  <2>3. AmidTrust = {} /\ Current = Empty
    BY <2>2 DEF TrustInit, AmidTrust, Current
  <2>4. TrustTypeOK
    BY <2>1, <2>2 DEF TrustInit, TrustTypeOK
  <2>5. OneTrustWriter
    BY <2>1, <2>3 DEF TrustInit, OneTrustWriter, HasGiven, Empty
  <2> QED
    BY <2>4, <2>5 DEF TrustInit, TrustInv, TmpAccounted
<1>2. TrustInv /\ [TrustNext]_trustFile => TrustInv'
  <2> SUFFICES ASSUME TrustInv, [TrustNext]_trustFile PROVE TrustInv'
    OBVIOUS
  <2>1. CASE UNCHANGED trustFile
    BY <2>1 DEF trustFile, TrustInv, TrustTypeOK, TmpAccounted, OneTrustWriter, HasGiven,
                Current, AmidTrust, Holding, OpenInodes
  <2>2. CASE TrustNext
    BY <2>2, ReadTrustKeeps, OpenTmpKeeps, WriteTmpKeeps, RenameTmpKeeps,
       TrustWriterDiesKeeps, ClaudeWritesKeeps DEF TrustNext
  <2> QED
    BY <2>1, <2>2
<1> QED
  BY <1>1, <1>2, PTL DEF TrustSpec

\* TrustTypeOK: however many writers share the temporary file, every name leads to a file.
THEOREM TrustTypeCorrect == TrustSpec => []TrustTypeOK
BY TrustInvariant, PTL DEF TrustInv

\* TrustKept: a write of .claude.json that does not overlap another loses nothing, also
\* when it is cut short anywhere in write_json_atomic.
THEOREM TrustIsKept == TrustSpec => []TrustKept
<1>1. TrustInv => TrustKept
  BY DEF TrustInv, OneTrustWriter, HasGiven, TrustKept
<1> QED
  BY <1>1, TrustInvariant, PTL
===============================================================================
