-------------------------- MODULE TunnelLifecycle --------------------------
(***************************************************************************)
(* Connecting and disconnecting in the app: ClientViewModel on the main    *)
(* actor, the detached tasks in which it calls TunnelEngine, and the Start *)
(* and Stop of the Go package mobile that those run at the same time.      *)
(*                                                                         *)
(* Every start() and stop() of the view model takes the next lifecycle     *)
(* token, which names the task it spawns here; a start's token also names  *)
(* the Go client and the stdout interceptor that its Start creates.  A     *)
(* task moves at the points where the code suspends, takes or releases the *)
(* lock of package mobile, or waits.  A start does not wait for the tasks  *)
(* of earlier taps, so that several starts and stops may be under way;     *)
(* overwritten and crossed remember what they did to each other.           *)
(***************************************************************************)
EXTENDS Naturals

CONSTANT MaxToken   \* how often the user starts and stops

ASSUME LifecycleAssumption == MaxToken \in Nat

VARIABLES
  status,           \* ClientViewModel.status
  lifecycleToken,
  keeper,           \* backgroundRuntimeKeeper.isRunning
  task,             \* task[t]: where the task with token t is
  took,             \* took[t]: the client and interceptor that t's Stop took over
  cancelFn,         \* the client that cancelFn cancels, 0 for nil
  stdoutPump,       \* the interceptor to restore, 0 for nil
  logWriter,        \* writerRef is set
  client,           \* client[t]: the context and goroutine of Start t's client
  stdout,           \* what os.Stdout is: an interceptor, 0 for the original
  origStdout,       \* origStdout[t]: what interceptor t replaced
  overwritten,      \* the clients whose cancelFn another start replaced (history)
  crossed           \* what else a task did to those of other taps (history)

vars == <<status, lifecycleToken, keeper, task, took, cancelFn, stdoutPump,
          logWriter, client, stdout, origStdout, overwritten, crossed>>

ui     == <<status, lifecycleToken, keeper>>
mobile == <<cancelFn, stdoutPump, client>>
pump   == <<stdout, origStdout>>
past   == <<overwritten, crossed>>

Token  == 1 .. MaxToken
Token0 == 0 .. MaxToken

Step == {"none", "engine", "check", "pump", "bootstrap", "publish", "go",
         "started", "ready",                                       \* start() goes on
         "failed/take", "failed/wait", "failed/unpump", "threw",   \* engine.start failed
         "undo/take", "undo/wait", "undo/unpump", "undone",        \* stopEngine
         "stop/take", "stop/wait", "stop/unpump", "stopped",       \* stop()
         "done"}

Stages == [failed |-> <<"failed/take", "failed/wait", "failed/unpump", "threw">>,
           undo   |-> <<"undo/take", "undo/wait", "undo/unpump", "undone">>,
           stop   |-> <<"stop/take", "stop/wait", "stop/unpump", "stopped">>]

Init ==
  /\ status = "stopped" /\ lifecycleToken = 0 /\ keeper = FALSE
  /\ task = [t \in Token |-> "none"] /\ took = [t \in Token |-> [cancel |-> 0, pump |-> 0]]
  /\ cancelFn = 0 /\ stdoutPump = 0 /\ logWriter = FALSE
  /\ client = [t \in Token |-> "none"]
  /\ stdout = 0 /\ origStdout = [t \in Token |-> 0]
  /\ overwritten = {} /\ crossed = {}

Idle == \A t \in Token : task[t] \in {"none", "done"}

\* What the states of a client mean: "created" and "doomed" have no goroutine
\* yet, in "doomed" and "cancelled" the context is cancelled.
ClientState == {"none", "created", "doomed", "running", "cancelled", "gone"}
Active      == {"running", "cancelled"}      \* counted by runningWG

Cancelled(c) == CASE c = "created" -> "doomed" [] c = "running" -> "cancelled" [] OTHER -> c

Goto(t, step) == task' = [task EXCEPT ![t] = step]

(* What tasks of several taps may do to each other:                         *)
(*   "ignored"  a start returned while another start was shown, and nobody  *)
(*              stopped or showed its client                                *)
(*   "nested"   os.Stdout was replaced by one start over another's          *)
(*   "late"     a task of an earlier tap stopped something while the app    *)
(*              showed a later start as starting or ready                   *)
Crossing == {"ignored", "nested", "late"}

Crosses(event, happens) == crossed' = crossed \cup (IF happens THEN {event} ELSE {})

Late(t) == lifecycleToken # t /\ status \in {"starting", "ready"}

-----------------------------------------------------------------------------
(* The user. *)

(* The button connects unless status.isRunning. *)
StartOffered == status \in {"stopped", "failed"}

(* start(), and the part of its task that precedes the detached one: the    *)
(* keeper, which may throw.  The main actor runs it before the next tap.    *)
UserStart ==
  /\ lifecycleToken < MaxToken
  /\ StartOffered
  /\ lifecycleToken' = lifecycleToken + 1
  /\ \/ /\ status' = "starting" /\ keeper' = TRUE
        /\ Goto(lifecycleToken', "engine")
     \/ /\ ~keeper
        /\ status' = "failed" /\ UNCHANGED keeper
        /\ Goto(lifecycleToken', "done")
  /\ UNCHANGED <<took, mobile, logWriter, pump, past>>

(* stop(), by the button or by deleting the profile in use. *)
UserStop ==
  /\ lifecycleToken < MaxToken
  /\ status \in {"starting", "ready", "stopping"}
  /\ lifecycleToken' = lifecycleToken + 1
  /\ status' = "stopping"
  /\ Goto(lifecycleToken', "stop/take")
  /\ UNCHANGED <<keeper, took, mobile, logWriter, pump, past>>

-----------------------------------------------------------------------------
(* TunnelEngine.start and mobile.Start. *)

(* The options are checked and prepared, then the log writer is installed. *)
EngineStart(t) ==
  /\ task[t] = "engine"
  /\ \/ Goto(t, "check") /\ logWriter' = TRUE
     \/ Goto(t, "threw") /\ UNCHANGED logWriter
  /\ UNCHANGED <<ui, took, mobile, pump, past>>

StartCheck(t) ==
  /\ task[t] = "check"
  /\ Goto(t, IF cancelFn = 0 THEN "pump" ELSE "failed/take")
  /\ UNCHANGED <<ui, took, mobile, logWriter, pump, past>>

(* The files are written and os.Stdout is replaced, unless that fails. *)
StartPump(t) ==
  /\ task[t] = "pump"
  /\ \/ /\ Goto(t, "bootstrap")
        /\ stdout' = t /\ origStdout' = [origStdout EXCEPT ![t] = stdout]
        /\ Crosses("nested", stdout # 0)
     \/ Goto(t, "failed/take") /\ UNCHANGED <<pump, crossed>>
  /\ UNCHANGED <<ui, took, mobile, logWriter, overwritten>>

StartBootstrap(t) ==
  /\ task[t] = "bootstrap"
  /\ \/ Goto(t, "publish") /\ UNCHANGED pump
     \/ /\ Goto(t, "failed/take")
        /\ stdout' = origStdout[t] /\ UNCHANGED origStdout
  /\ UNCHANGED <<ui, took, mobile, logWriter, past>>

StartPublish(t) ==
  /\ task[t] = "publish"
  /\ Goto(t, "go")
  /\ cancelFn' = t /\ stdoutPump' = t
  /\ client' = [client EXCEPT ![t] = "created"]
  /\ overwritten' = overwritten \cup ({cancelFn} \ {0})
  /\ UNCHANGED <<ui, took, logWriter, pump, crossed>>

(* runningWG.Add and the client's goroutine, after the lock was released. *)
StartGo(t) ==
  /\ task[t] = "go"
  /\ Goto(t, "started")
  /\ client' = [client EXCEPT ![t] = IF @ = "doomed" THEN "cancelled" ELSE "running"]
  /\ UNCHANGED <<ui, took, cancelFn, stdoutPump, logWriter, pump, past>>

-----------------------------------------------------------------------------
(* mobile.Stop, called by stop(), by a start() that came too late and by a  *)
(* TunnelEngine.start that failed, with the SetLogWriter(nil) that follows. *)

StopTakeUncancelled(t, s) ==
  /\ task[t] = s[1]
  /\ took' = [took EXCEPT ![t] = [cancel |-> cancelFn, pump |-> stdoutPump]]
  /\ cancelFn' = 0 /\ stdoutPump' = 0
  /\ Goto(t, IF cancelFn = 0 THEN s[4] ELSE s[2])
  /\ logWriter' = (logWriter /\ cancelFn # 0)
  /\ Crosses("late", Late(t))
  /\ UNCHANGED <<ui, client, pump, overwritten>>

StopTake(t, s) ==
  /\ task[t] = s[1]
  /\ took' = [took EXCEPT ![t] = [cancel |-> cancelFn, pump |-> stdoutPump]]
  /\ cancelFn' = 0 /\ stdoutPump' = 0
  /\ IF cancelFn = 0
     THEN Goto(t, s[4]) /\ logWriter' = FALSE /\ UNCHANGED client
     ELSE /\ Goto(t, s[2])
          /\ client' = [client EXCEPT ![cancelFn] = Cancelled(@)]
          /\ UNCHANGED logWriter
  /\ Crosses("late", Late(t))
  /\ UNCHANGED <<ui, pump, overwritten>>

(* runningWG.Wait *)
StopWait(t, s) ==
  /\ task[t] = s[2]
  /\ \A u \in Token : client[u] \notin Active
  /\ Goto(t, s[3])
  /\ UNCHANGED <<ui, took, mobile, logWriter, pump, past>>

StopUnpump(t, s) ==
  /\ task[t] = s[3]
  /\ Goto(t, s[4])
  /\ stdout' = origStdout[took[t].pump]
  /\ logWriter' = FALSE
  /\ Crosses("late", Late(t))
  /\ UNCHANGED <<ui, took, mobile, origStdout, overwritten>>

Stop(t) == \E k \in DOMAIN Stages :
             StopTake(t, Stages[k]) \/ StopWait(t, Stages[k]) \/ StopUnpump(t, Stages[k])

-----------------------------------------------------------------------------
(* The rest of start() and stop(), on the main actor. *)

StartReturnedIgnored(t) ==
  /\ task[t] = "started"
  /\ Goto(t, IF lifecycleToken = t /\ status = "starting" THEN "ready" ELSE "done")
  /\ Crosses("ignored", Late(t))
  /\ UNCHANGED <<ui, took, mobile, logWriter, pump, overwritten>>

(* startCompletionAction *)
StartReturned(t) ==
  /\ task[t] = "started"
  /\ Goto(t, IF lifecycleToken = t /\ status = "starting" THEN "ready"
             ELSE IF status \in {"stopped", "stopping", "failed"} THEN "undo/take"
             ELSE "done")
  /\ Crosses("ignored", Late(t))
  /\ UNCHANGED <<ui, took, mobile, logWriter, pump, overwritten>>

MarkReadyStale(t) ==
  /\ task[t] = "ready"
  /\ Goto(t, "done")
  /\ status' = "ready"
  /\ UNCHANGED <<lifecycleToken, keeper, took, mobile, logWriter, pump, past>>

MarkReady(t) ==
  /\ task[t] = "ready"
  /\ Goto(t, "done")
  /\ status' = IF lifecycleToken = t THEN "ready" ELSE status
  /\ UNCHANGED <<lifecycleToken, keeper, took, mobile, logWriter, pump, past>>

(* The engine was stopped again: the keeper too, whatever the token. *)
Undone(t) ==
  /\ task[t] = "undone"
  /\ Goto(t, "done")
  /\ keeper' = FALSE
  /\ Crosses("late", Late(t))
  /\ UNCHANGED <<status, lifecycleToken, took, mobile, logWriter, pump, overwritten>>

StartThrew(t) ==
  /\ task[t] = "threw"
  /\ Goto(t, "done")
  /\ IF lifecycleToken = t THEN status' = "failed" /\ keeper' = FALSE
                           ELSE UNCHANGED <<status, keeper>>
  /\ UNCHANGED <<lifecycleToken, took, mobile, logWriter, pump, past>>

StopReturned(t) ==
  /\ task[t] = "stopped"
  /\ Goto(t, "done")
  /\ IF lifecycleToken = t THEN status' = "stopped" /\ keeper' = FALSE
                           ELSE UNCHANGED <<status, keeper>>
  /\ UNCHANGED <<lifecycleToken, took, mobile, logWriter, pump, past>>

-----------------------------------------------------------------------------
(* The Go client ends when it is cancelled, or by an error of Client.Run. *)

ClientEnds(t) ==
  /\ client[t] \in Active
  /\ client' = [client EXCEPT ![t] = "gone"]
  /\ UNCHANGED <<ui, task, took, cancelFn, stdoutPump, logWriter, pump, past>>

TaskStep(t) ==
  \/ EngineStart(t) \/ StartCheck(t) \/ StartPump(t) \/ StartBootstrap(t)
  \/ StartPublish(t) \/ StartGo(t) \/ StartReturned(t) \/ MarkReady(t)
  \/ Undone(t) \/ StartThrew(t) \/ StopReturned(t)
  \/ Stop(t)

Next == UserStart \/ UserStop \/ \E t \in Token : TaskStep(t) \/ ClientEnds(t)

Spec == Init /\ [][Next]_vars

(* Tasks run, and a cancelled client ends; nobody has to tap or to fail. *)
Fairness == \A t \in Token : /\ WF_vars(TaskStep(t))
                             /\ WF_vars(client[t] = "cancelled" /\ ClientEnds(t))

FairSpec == Spec /\ Fairness

-----------------------------------------------------------------------------
(* Properties. *)

TypeOK ==
  /\ status \in {"stopped", "starting", "ready", "stopping", "failed"}
  /\ lifecycleToken \in Token0 /\ keeper \in BOOLEAN /\ logWriter \in BOOLEAN
  /\ task \in [Token -> Step]
  /\ took \in [Token -> [cancel : Token0, pump : Token0]]
  /\ cancelFn \in Token0 /\ stdoutPump \in Token0
  /\ client \in [Token -> ClientState]
  /\ stdout \in Token0 /\ origStdout \in [Token -> Token0]
  /\ overwritten \subseteq Token /\ crossed \subseteq Crossing

(* When the app shows the tunnel as off, the silent audio that keeps the    *)
(* process alive has ended, and once the tasks are done only a client runs  *)
(* that the next Stop cancels or whose cancelFn was overwritten.  There is  *)
(* no such client unless the app ignored a start that returned, and         *)
(* os.Stdout is restored unless interceptors were nested; also when a start *)
(* and stops overlapped or failed (startCompletionAction, Stop).            *)
OffIsOff ==
  status \in {"stopped", "failed"} =>
    /\ ~keeper
    /\ Idle => /\ \A t \in Token : client[t] \in {"none", "cancelled", "gone"}
                                   \/ t = cancelFn \/ t \in overwritten
               /\ "ignored" \in crossed \/ cancelFn = 0
               /\ crossed \cap {"ignored", "nested"} # {} \/ stdout = 0

(* When the app shows the tunnel as connected, the client of that start is  *)
(* the one that Stop would cancel, and its log and its keeper are on        *)
(* (MarkReady's guard on the token): unless a task of an earlier tap stops  *)
(* it late, or an earlier start replaced its cancelFn.                      *)
ReadyIsServed ==
  /\ TypeOK
  /\ status = "ready" /\ "late" \notin crossed /\ overwritten = {}
       => cancelFn = lifecycleToken /\ logWriter /\ keeper

(* What may keep the app in "Disconnecting...", where its button is         *)
(* disabled, is a client whose cancelFn was overwritten, and nothing else:  *)
(* Stop "signals the running client to exit and waits briefly for           *)
(* shutdown", for every client that it can signal.                          *)
StoppingEnds ==
  status = "stopping"
    ~> \/ status # "stopping"
       \/ \E t \in overwritten : client[t] \in {"created", "running"}
=============================================================================
