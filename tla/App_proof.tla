----------------------------- MODULE App_proof -----------------------------
(***************************************************************************)
(* The two parts of the app that MCApp runs.  Connecting and               *)
(* disconnecting: what an app that shows "off" may still hold, and when    *)
(* one that shows "connected" is served, for any number of starts and      *)
(* stops however they overlap.  The DNS cache: how much of what it calls   *)
(* saved may be missing from its file, for any number of shards, queries   *)
(* and faults.                                                             *)
(***************************************************************************)
EXTENDS TunnelLifecycle, DnsCache, FiniteSetTheorems, TLAPS

(* The steps of a start that is shown as starting, of one that has yet to   *)
(* publish its client, and of a Stop that took a client over and has still  *)
(* to restore the output.                                                   *)
Going       == {"engine", "check", "pump", "bootstrap", "publish", "go", "started", "ready",
                "failed/take", "failed/wait", "failed/unpump", "threw"}
Unpublished == {"none", "engine", "check", "pump", "bootstrap", "publish",
                "failed/take", "failed/wait", "failed/unpump", "threw"}
Holding     == {"failed/wait", "failed/unpump", "undo/wait", "undo/unpump",
                "stop/wait", "stop/unpump"}

(* A token not yet taken has no task. *)
Fresh == \A t \in Token : t > lifecycleToken => task[t] = "none"

(* What the status says of the last task, and of the keeper. *)
StatusTells ==
  /\ status \in {"stopped", "failed"} => ~keeper
  /\ status = "starting" => lifecycleToken \in Token /\ task[lifecycleToken] \in Going
  /\ status = "ready" => lifecycleToken \in Token /\ task[lifecycleToken] = "done"
  /\ status \in {"starting", "ready"} /\ "late" \notin crossed => keeper

(* While the last token is a start's, nothing else has set the status. *)
TokenTells == lifecycleToken \in Token /\ task[lifecycleToken] \in Going => status = "starting"

(* A client whose context still holds is the one that Stop would cancel, or *)
(* another start has taken its place; only the task that has to start it    *)
(* knows one without a goroutine.                                           *)
ClientHeld ==
  \A t \in Token :
    /\ client[t] \in {"created", "running"} => cancelFn = t \/ t \in overwritten
    /\ task[t] = "go" <=> client[t] \in {"created", "doomed"}
    /\ task[t] \in Unpublished => cancelFn # t

(* Interceptors that were not nested replace the original output, and       *)
(* somebody restores it.                                                    *)
StdoutHeld ==
  /\ stdoutPump = cancelFn
  /\ \A t \in Token : task[t] \in Holding => took[t].pump \in Token
  /\ "nested" \notin crossed =>
       /\ \A t \in Token : origStdout[t] = 0
       /\ stdout # 0 => \/ cancelFn # 0
                        \/ \E t \in Token : task[t] \in {"bootstrap", "publish"} \cup Holding

(* A client is shown, or its start goes on, or a task on its way cancels it. *)
CancelHeld ==
  cancelFn # 0 /\ "ignored" \notin crossed =>
    \/ status \in {"starting", "ready"} /\ lifecycleToken = cancelFn
    \/ task[cancelFn] \in {"go", "started"}
    \/ \E t \in Token : task[t] \in {"undo/take", "stop/take"}

(* The client is that of the start that is shown, and its log is on. *)
Served ==
  "late" \notin crossed /\ overwritten = {} =>
    /\ status = "ready" => cancelFn = lifecycleToken /\ logWriter
    /\ status = "starting" =>
         /\ task[lifecycleToken] \in {"check", "pump", "bootstrap", "publish",
                                      "go", "started", "ready"} => logWriter
         /\ task[lifecycleToken] \in {"go", "started", "ready"} => cancelFn = lifecycleToken

(* The inductive invariant. *)
LifeInv == /\ TypeOK /\ Fresh /\ StatusTells /\ TokenTells
           /\ ClientHeld /\ StdoutHeld /\ CancelHeld /\ Served

-----------------------------------------------------------------------------
LEMMA TokensAre == Token0 = Token \cup {0} /\ 0 \notin Token /\ Token \subseteq Nat
BY LifecycleAssumption DEF Token, Token0

(* A task goes to its next step: the other tasks stay where they are. *)
LEMMA TaskGoes ==
  ASSUME LifeInv, NEW t \in Token, NEW s \in Step, Goto(t, s), UNCHANGED lifecycleToken,
         task[t] # "none"
  PROVE  /\ task' \in [Token -> Step] /\ task'[t] = s
         /\ \A u \in Token : u # t => task'[u] = task[u]
         /\ Fresh'
<1>1. /\ task' \in [Token -> Step] /\ task'[t] = s
      /\ \A u \in Token : u # t => task'[u] = task[u]
  BY DEF LifeInv, TypeOK, Goto
<1> QED
  BY <1>1, TokensAre DEF LifeInv, Fresh

(* EngineStart installs the log writer or throws before anything is on. *)
LEMMA EngineStartKeeps == ASSUME LifeInv, NEW t \in Token, EngineStart(t) PROVE LifeInv'
<1> USE TokensAre DEF Step, Going, Unpublished, Holding
<1>1. PICK s \in {"check", "threw"} :
        /\ Goto(t, s)
        /\ IF s = "check" THEN logWriter' = TRUE ELSE UNCHANGED logWriter
        /\ task[t] = "engine"
        /\ UNCHANGED <<ui, took, mobile, pump, past>>
  BY DEF EngineStart
<1>2. /\ task' \in [Token -> Step] /\ task'[t] = s
      /\ \A u \in Token : u # t => task'[u] = task[u]
      /\ Fresh'
  BY <1>1, TaskGoes DEF ui
<1>3. TypeOK'
  BY <1>1, <1>2 DEF LifeInv, TypeOK, ClientState, Crossing, ui, mobile, pump, past
<1>4. StatusTells' /\ TokenTells'
  BY <1>1, <1>2 DEF LifeInv, TypeOK, StatusTells, TokenTells, ui, past
<1>5. ClientHeld'
  BY <1>1, <1>2 DEF LifeInv, TypeOK, ClientHeld, mobile, past
<1>6. StdoutHeld'
  BY <1>1, <1>2 DEF LifeInv, TypeOK, StdoutHeld, mobile, pump, past
<1>7. CancelHeld'
  BY <1>1, <1>2 DEF LifeInv, TypeOK, StatusTells, TokenTells, ClientHeld,
     CancelHeld, ui, mobile, past
<1>8. Served'
  BY <1>1, <1>2 DEF LifeInv, TypeOK, StatusTells, TokenTells, Served, ui, mobile, past
<1> QED
  BY <1>2, <1>3, <1>4, <1>5, <1>6, <1>7, <1>8 DEF LifeInv

(* A start that finds a client fails, and its Stop takes that client over. *)
LEMMA StartCheckKeeps == ASSUME LifeInv, NEW t \in Token, StartCheck(t) PROVE LifeInv'
<1> USE TokensAre DEF Step, Going, Unpublished, Holding
<1>1. PICK s \in {"pump", "failed/take"} :
        /\ Goto(t, s)
        /\ task[t] = "check"
        /\ UNCHANGED <<ui, took, mobile, logWriter, pump, past>>
  BY DEF StartCheck
<1>2. /\ task' \in [Token -> Step] /\ task'[t] = s
      /\ \A u \in Token : u # t => task'[u] = task[u]
      /\ Fresh'
  BY <1>1, TaskGoes DEF ui
<1>3. TypeOK'
  BY <1>1, <1>2 DEF LifeInv, TypeOK, ClientState, Crossing, ui, mobile, pump, past
<1>4. StatusTells' /\ TokenTells'
  BY <1>1, <1>2 DEF LifeInv, TypeOK, StatusTells, TokenTells, ui, past
<1>5. ClientHeld'
  BY <1>1, <1>2 DEF LifeInv, TypeOK, ClientHeld, mobile, past
<1>6. StdoutHeld'
  BY <1>1, <1>2 DEF LifeInv, TypeOK, StdoutHeld, mobile, pump, past
<1>7. CancelHeld'
  BY <1>1, <1>2 DEF LifeInv, TypeOK, StatusTells, TokenTells, ClientHeld,
     CancelHeld, ui, mobile, past
<1>8. Served'
  BY <1>1, <1>2 DEF LifeInv, TypeOK, StatusTells, TokenTells, Served, ui, mobile, past
<1> QED
  BY <1>2, <1>3, <1>4, <1>5, <1>6, <1>7, <1>8 DEF LifeInv

(* The interceptor replaces the original output, or is nested. *)
LEMMA StartPumpKeeps == ASSUME LifeInv, NEW t \in Token, StartPump(t) PROVE LifeInv'
<1> USE TokensAre DEF Step, Going, Unpublished, Holding
<1>1. PICK s \in {"bootstrap", "failed/take"} :
        /\ Goto(t, s)
        /\ IF s = "bootstrap"
           THEN /\ stdout' = t /\ origStdout' = [origStdout EXCEPT ![t] = stdout]
                /\ Crosses("nested", stdout # 0)
           ELSE UNCHANGED pump /\ UNCHANGED crossed
        /\ task[t] = "pump"
        /\ UNCHANGED <<ui, took, mobile, logWriter, overwritten>>
  BY DEF StartPump
<1>2. /\ task' \in [Token -> Step] /\ task'[t] = s
      /\ \A u \in Token : u # t => task'[u] = task[u]
      /\ Fresh'
  BY <1>1, TaskGoes DEF ui
<1>3. TypeOK'
  <2>1. stdout' \in Token0 /\ origStdout' \in [Token -> Token0]
    BY <1>1 DEF LifeInv, TypeOK, pump
  <2>2. crossed' \subseteq Crossing
    BY <1>1 DEF LifeInv, TypeOK, Crosses, Crossing
  <2> QED
    BY <1>1, <1>2, <2>1, <2>2 DEF LifeInv, TypeOK, ui, mobile
<1>4. StatusTells' /\ TokenTells'
  BY <1>1, <1>2 DEF LifeInv, TypeOK, StatusTells, TokenTells, ui, Crosses
<1>5. ClientHeld'
  BY <1>1, <1>2 DEF LifeInv, TypeOK, ClientHeld, mobile, past
<1>6. StdoutHeld'
  BY <1>1, <1>2 DEF LifeInv, TypeOK, StdoutHeld, mobile, pump, Crosses
<1>7. CancelHeld'
  BY <1>1, <1>2 DEF LifeInv, TypeOK, CancelHeld, ui, mobile, Crosses
<1>8. Served'
  BY <1>1, <1>2 DEF LifeInv, TypeOK, StatusTells, Served, ui, mobile, Crosses
<1> QED
  BY <1>2, <1>3, <1>4, <1>5, <1>6, <1>7, <1>8 DEF LifeInv

(* A start that fails puts the output back that it replaced. *)
LEMMA StartBootstrapKeeps == ASSUME LifeInv, NEW t \in Token, StartBootstrap(t) PROVE LifeInv'
<1> USE TokensAre DEF Step, Going, Unpublished, Holding
<1>1. PICK s \in {"publish", "failed/take"} :
        /\ Goto(t, s)
        /\ IF s = "publish" THEN UNCHANGED pump
           ELSE stdout' = origStdout[t] /\ UNCHANGED origStdout
        /\ task[t] = "bootstrap"
        /\ UNCHANGED <<ui, took, mobile, logWriter, past>>
  BY DEF StartBootstrap
<1>2. /\ task' \in [Token -> Step] /\ task'[t] = s
      /\ \A u \in Token : u # t => task'[u] = task[u]
      /\ Fresh'
  BY <1>1, TaskGoes DEF ui
<1>3. TypeOK'
  BY <1>1, <1>2 DEF LifeInv, TypeOK, ClientState, Crossing, ui, mobile, pump, past
<1>4. StatusTells' /\ TokenTells'
  BY <1>1, <1>2 DEF LifeInv, TypeOK, StatusTells, TokenTells, ui, past
<1>5. ClientHeld'
  BY <1>1, <1>2 DEF LifeInv, TypeOK, ClientHeld, mobile, past
<1>6. StdoutHeld'
  BY <1>1, <1>2 DEF LifeInv, TypeOK, StdoutHeld, mobile, pump, past
<1>7. CancelHeld'
  BY <1>1, <1>2 DEF LifeInv, TypeOK, StatusTells, TokenTells, ClientHeld,
     CancelHeld, ui, mobile, past
<1>8. Served'
  BY <1>1, <1>2 DEF LifeInv, TypeOK, StatusTells, TokenTells, Served, ui, mobile, past
<1> QED
  BY <1>2, <1>3, <1>4, <1>5, <1>6, <1>7, <1>8 DEF LifeInv

(* A client whose place is taken is remembered as overwritten. *)
LEMMA StartPublishKeeps == ASSUME LifeInv, NEW t \in Token, StartPublish(t) PROVE LifeInv'
<1> USE TokensAre DEF Step, Going, Unpublished, Holding
<1>1. /\ Goto(t, "go")
      /\ cancelFn' = t /\ stdoutPump' = t
      /\ client' = [client EXCEPT ![t] = "created"]
      /\ overwritten' = overwritten \cup ({cancelFn} \ {0})
      /\ task[t] = "publish"
      /\ UNCHANGED <<ui, took, logWriter, pump, crossed>>
  BY DEF StartPublish
<1>2. /\ task' \in [Token -> Step] /\ task'[t] = "go"
      /\ \A u \in Token : u # t => task'[u] = task[u]
      /\ Fresh'
  BY <1>1, TaskGoes DEF ui
<1>3. TypeOK'
  BY <1>1, <1>2 DEF LifeInv, TypeOK, ClientState, Crossing, ui, mobile, pump, past
<1>4. StatusTells' /\ TokenTells'
  BY <1>1, <1>2 DEF LifeInv, TypeOK, StatusTells, TokenTells, ui, past
<1>5. ClientHeld'
  <2>1. /\ client'[t] = "created" /\ \A u \in Token : u # t => client'[u] = client[u]
        /\ \A u \in Token : cancelFn = u \/ u \in overwritten => u \in overwritten'
    BY <1>1 DEF LifeInv, TypeOK
  <2> QED
    BY <1>1, <1>2, <2>1 DEF LifeInv, TypeOK, ClientHeld
<1>6. StdoutHeld'
  BY <1>1, <1>2 DEF LifeInv, TypeOK, StdoutHeld, mobile, pump, past
<1>7. CancelHeld'
  BY <1>1, <1>2 DEF LifeInv, TypeOK, StatusTells, TokenTells, ClientHeld,
     CancelHeld, ui, mobile, past
<1>8. Served'
  <2>1. overwritten' = {} => overwritten = {} /\ cancelFn = 0
    BY <1>1
  <2> QED
    BY <1>1, <1>2, <2>1 DEF LifeInv, TypeOK, StatusTells, TokenTells, Served, ui
<1> QED
  BY <1>2, <1>3, <1>4, <1>5, <1>6, <1>7, <1>8 DEF LifeInv

(* The goroutine of a client whose context a Stop cancelled is cancelled. *)
LEMMA StartGoKeeps == ASSUME LifeInv, NEW t \in Token, StartGo(t) PROVE LifeInv'
<1> USE TokensAre DEF Step, Going, Unpublished, Holding
<1>1. /\ Goto(t, "started")
      /\ client' = [client EXCEPT ![t] = IF @ = "doomed" THEN "cancelled" ELSE "running"]
      /\ task[t] = "go"
      /\ UNCHANGED <<ui, took, cancelFn, stdoutPump, logWriter, pump, past>>
  BY DEF StartGo
<1>2. /\ task' \in [Token -> Step] /\ task'[t] = "started"
      /\ \A u \in Token : u # t => task'[u] = task[u]
      /\ Fresh'
  BY <1>1, TaskGoes DEF ui
<1>3. TypeOK'
  BY <1>1, <1>2 DEF LifeInv, TypeOK, ClientState, Crossing, ui, mobile, pump, past
<1>4. StatusTells' /\ TokenTells'
  BY <1>1, <1>2 DEF LifeInv, TypeOK, StatusTells, TokenTells, ui, past
<1>5. ClientHeld'
  <2>1. /\ client'[t] = IF client[t] = "doomed" THEN "cancelled" ELSE "running"
        /\ client[t] \in {"created", "doomed"}
        /\ \A u \in Token : u # t => client'[u] = client[u]
    BY <1>1 DEF LifeInv, TypeOK, ClientHeld
  <2> QED
    BY <1>1, <1>2, <2>1 DEF LifeInv, TypeOK, ClientHeld, past
<1>6. StdoutHeld'
  BY <1>1, <1>2 DEF LifeInv, TypeOK, StdoutHeld, mobile, pump, past
<1>7. CancelHeld'
  BY <1>1, <1>2 DEF LifeInv, TypeOK, StatusTells, TokenTells, ClientHeld,
     CancelHeld, ui, mobile, past
<1>8. Served'
  BY <1>1, <1>2 DEF LifeInv, TypeOK, StatusTells, TokenTells, Served, ui, mobile, past
<1> QED
  BY <1>2, <1>3, <1>4, <1>5, <1>6, <1>7, <1>8 DEF LifeInv

(* A start that came too late undoes itself, or is ignored.                 *)
LEMMA StartReturnedKeeps == ASSUME LifeInv, NEW t \in Token, StartReturned(t) PROVE LifeInv'
<1> USE TokensAre DEF Step, Going, Unpublished, Holding
<1>1. PICK s \in {"ready", "undo/take", "done"} :
        /\ Goto(t, s)
        /\ IF s = "ready" THEN lifecycleToken = t /\ status = "starting"
           ELSE ~(lifecycleToken = t /\ status = "starting")
        /\ s = "undo/take" <=> status \in {"stopped", "stopping", "failed"}
        /\ Crosses("ignored", Late(t))
        /\ task[t] = "started"
        /\ UNCHANGED <<ui, took, mobile, logWriter, pump, overwritten>>
  BY DEF LifeInv, TypeOK, StatusTells, TokenTells, StartReturned
<1>2. /\ task' \in [Token -> Step] /\ task'[t] = s
      /\ \A u \in Token : u # t => task'[u] = task[u]
      /\ Fresh'
  BY <1>1, TaskGoes DEF ui
<1>3. TypeOK'
  <2>1. crossed' \subseteq Crossing
    BY <1>1 DEF LifeInv, TypeOK, Crosses, Crossing
  <2> QED
    BY <1>1, <1>2, <2>1 DEF LifeInv, TypeOK, ui, mobile, pump
<1>4. StatusTells' /\ TokenTells'
  BY <1>1, <1>2 DEF LifeInv, TypeOK, StatusTells, TokenTells, ui, Crosses
<1>5. ClientHeld'
  BY <1>1, <1>2 DEF LifeInv, TypeOK, ClientHeld, mobile, past
<1>6. StdoutHeld'
  BY <1>1, <1>2 DEF LifeInv, TypeOK, StdoutHeld, mobile, pump, Crosses
<1>7. CancelHeld'
  <2>1. s = "done" => "ignored" \in crossed'
    BY <1>1 DEF LifeInv, TypeOK, StatusTells, TokenTells, Crosses, Late
  <2>2. "ignored" \notin crossed' => "ignored" \notin crossed
    BY <1>1 DEF Crosses
  <2> QED
    BY <1>1, <1>2, <2>1, <2>2 DEF LifeInv, TypeOK, CancelHeld, ui, mobile
<1>8. Served'
  BY <1>1, <1>2 DEF LifeInv, TypeOK, StatusTells, TokenTells, Served, ui, mobile, Crosses
<1> QED
  BY <1>2, <1>3, <1>4, <1>5, <1>6, <1>7, <1>8 DEF LifeInv

(* Only the start with the last token makes the app show "ready". *)
LEMMA MarkReadyKeeps == ASSUME LifeInv, NEW t \in Token, MarkReady(t) PROVE LifeInv'
<1> USE TokensAre DEF Step, Going, Unpublished, Holding
<1>1. /\ Goto(t, "done")
      /\ status' = IF lifecycleToken = t THEN "ready" ELSE status
      /\ task[t] = "ready"
      /\ UNCHANGED <<lifecycleToken, keeper, took, mobile, logWriter, pump, past>>
  BY DEF MarkReady
<1>2. /\ task' \in [Token -> Step] /\ task'[t] = "done"
      /\ \A u \in Token : u # t => task'[u] = task[u]
      /\ Fresh'
  BY <1>1, TaskGoes DEF ui
<1>3. TypeOK'
  BY <1>1, <1>2 DEF LifeInv, TypeOK, ClientState, Crossing, ui, mobile, pump, past
<1>4. StatusTells' /\ TokenTells'
  BY <1>1, <1>2 DEF LifeInv, TypeOK, StatusTells, TokenTells, ui, past
<1>5. ClientHeld'
  BY <1>1, <1>2 DEF LifeInv, TypeOK, ClientHeld, mobile, past
<1>6. StdoutHeld'
  BY <1>1, <1>2 DEF LifeInv, TypeOK, StdoutHeld, mobile, pump, past
<1>7. CancelHeld'
  BY <1>1, <1>2 DEF LifeInv, TypeOK, StatusTells, TokenTells, ClientHeld,
     CancelHeld, ui, mobile, past
<1>8. Served'
  BY <1>1, <1>2 DEF LifeInv, TypeOK, StatusTells, TokenTells, Served, ui, mobile, past
<1> QED
  BY <1>2, <1>3, <1>4, <1>5, <1>6, <1>7, <1>8 DEF LifeInv

(* Undoing ends the keeper; of a start that is shown, it does so late.       *)
LEMMA UndoneKeeps == ASSUME LifeInv, NEW t \in Token, Undone(t) PROVE LifeInv'
<1> USE TokensAre DEF Step, Going, Unpublished, Holding
<1>1. /\ Goto(t, "done")
      /\ keeper' = FALSE
      /\ Crosses("late", Late(t))
      /\ task[t] = "undone"
      /\ UNCHANGED <<status, lifecycleToken, took, mobile, logWriter, pump, overwritten>>
  BY DEF Undone
<1>2. /\ task' \in [Token -> Step] /\ task'[t] = "done"
      /\ \A u \in Token : u # t => task'[u] = task[u]
      /\ Fresh'
  BY <1>1, TaskGoes DEF ui
<1>3. TypeOK'
  <2>1. crossed' \subseteq Crossing
    BY <1>1 DEF LifeInv, TypeOK, Crosses, Crossing
  <2> QED
    BY <1>1, <1>2, <2>1 DEF LifeInv, TypeOK, mobile, pump
<1>4. StatusTells' /\ TokenTells'
  BY <1>1, <1>2 DEF LifeInv, TypeOK, StatusTells, TokenTells, Crosses, Late
<1>5. ClientHeld'
  BY <1>1, <1>2 DEF LifeInv, TypeOK, ClientHeld, mobile, past
<1>6. StdoutHeld'
  BY <1>1, <1>2 DEF LifeInv, TypeOK, StdoutHeld, mobile, pump, Crosses
<1>7. CancelHeld'
  BY <1>1, <1>2 DEF LifeInv, TypeOK, CancelHeld, mobile, Crosses
<1>8. Served'
  BY <1>1, <1>2 DEF LifeInv, TypeOK, StatusTells, Served, mobile, Crosses
<1> QED
  BY <1>2, <1>3, <1>4, <1>5, <1>6, <1>7, <1>8 DEF LifeInv

(* A start that failed left no client of its own. *)
LEMMA StartThrewKeeps == ASSUME LifeInv, NEW t \in Token, StartThrew(t) PROVE LifeInv'
<1> USE TokensAre DEF Step, Going, Unpublished, Holding
<1>1. /\ Goto(t, "done")
      /\ IF lifecycleToken = t THEN status' = "failed" /\ keeper' = FALSE
         ELSE UNCHANGED <<status, keeper>>
      /\ task[t] = "threw"
      /\ UNCHANGED <<lifecycleToken, took, mobile, logWriter, pump, past>>
  BY DEF StartThrew
<1>2. /\ task' \in [Token -> Step] /\ task'[t] = "done"
      /\ \A u \in Token : u # t => task'[u] = task[u]
      /\ Fresh'
  BY <1>1, TaskGoes DEF ui
<1>3. TypeOK'
  BY <1>1, <1>2 DEF LifeInv, TypeOK, ClientState, Crossing, ui, mobile, pump, past
<1>4. StatusTells' /\ TokenTells'
  BY <1>1, <1>2 DEF LifeInv, TypeOK, StatusTells, TokenTells, ui, past
<1>5. ClientHeld'
  BY <1>1, <1>2 DEF LifeInv, TypeOK, ClientHeld, mobile, past
<1>6. StdoutHeld'
  BY <1>1, <1>2 DEF LifeInv, TypeOK, StdoutHeld, mobile, pump, past
<1>7. CancelHeld'
  BY <1>1, <1>2 DEF LifeInv, TypeOK, StatusTells, TokenTells, ClientHeld,
     CancelHeld, ui, mobile, past
<1>8. Served'
  BY <1>1, <1>2 DEF LifeInv, TypeOK, StatusTells, TokenTells, Served, ui, mobile, past
<1> QED
  BY <1>2, <1>3, <1>4, <1>5, <1>6, <1>7, <1>8 DEF LifeInv

(* The last stop to return shows "stopped". *)
LEMMA StopReturnedKeeps == ASSUME LifeInv, NEW t \in Token, StopReturned(t) PROVE LifeInv'
<1> USE TokensAre DEF Step, Going, Unpublished, Holding
<1>1. /\ Goto(t, "done")
      /\ IF lifecycleToken = t THEN status' = "stopped" /\ keeper' = FALSE
         ELSE UNCHANGED <<status, keeper>>
      /\ task[t] = "stopped"
      /\ UNCHANGED <<lifecycleToken, took, mobile, logWriter, pump, past>>
  BY DEF StopReturned
<1>2. /\ task' \in [Token -> Step] /\ task'[t] = "done"
      /\ \A u \in Token : u # t => task'[u] = task[u]
      /\ Fresh'
  BY <1>1, TaskGoes DEF ui
<1>3. TypeOK'
  BY <1>1, <1>2 DEF LifeInv, TypeOK, ClientState, Crossing, ui, mobile, pump, past
<1>4. StatusTells' /\ TokenTells'
  BY <1>1, <1>2 DEF LifeInv, TypeOK, StatusTells, TokenTells, ui, past
<1>5. ClientHeld'
  BY <1>1, <1>2 DEF LifeInv, TypeOK, ClientHeld, mobile, past
<1>6. StdoutHeld'
  BY <1>1, <1>2 DEF LifeInv, TypeOK, StdoutHeld, mobile, pump, past
<1>7. CancelHeld'
  BY <1>1, <1>2 DEF LifeInv, TypeOK, StatusTells, TokenTells, ClientHeld,
     CancelHeld, ui, mobile, past
<1>8. Served'
  BY <1>1, <1>2 DEF LifeInv, TypeOK, StatusTells, TokenTells, Served, ui, mobile, past
<1> QED
  BY <1>2, <1>3, <1>4, <1>5, <1>6, <1>7, <1>8 DEF LifeInv

-----------------------------------------------------------------------------
(* What the user does, and the end of a client. *)

(* A start waits for no one, and takes nothing away. *)
LEMMA UserStartKeeps == ASSUME LifeInv, UserStart PROVE LifeInv'
<1> USE TokensAre DEF Step, Going, Unpublished, Holding
<1>1. /\ lifecycleToken' = lifecycleToken + 1 /\ lifecycleToken' \in Token
      /\ lifecycleToken \in Nat /\ status \in {"stopped", "failed"}
      /\ UNCHANGED <<took, mobile, logWriter, pump, past>>
  BY LifecycleAssumption DEF UserStart, StartOffered, LifeInv, TypeOK, Token, Token0
<1>2. PICK s \in {"engine", "done"} :
        /\ Goto(lifecycleToken', s)
        /\ IF s = "engine" THEN status' = "starting" /\ keeper' = TRUE
                           ELSE status' = "failed" /\ ~keeper /\ keeper' = keeper
  BY DEF UserStart
<1>3. /\ task[lifecycleToken'] = "none"
      /\ task' \in [Token -> Step] /\ task'[lifecycleToken'] = s
      /\ \A u \in Token : u # lifecycleToken' => task'[u] = task[u]
  BY <1>1, <1>2 DEF LifeInv, TypeOK, Goto, Fresh
<1>4. TypeOK'
  BY <1>1, <1>2, <1>3 DEF LifeInv, TypeOK, mobile, pump, past
<1>5. Fresh' /\ StatusTells' /\ TokenTells'
  BY <1>1, <1>2, <1>3 DEF LifeInv, Fresh, StatusTells, TokenTells, past
<1>6. ClientHeld'
  BY <1>1, <1>2, <1>3 DEF LifeInv, TypeOK, ClientHeld, mobile, past
<1>7. StdoutHeld'
  BY <1>1, <1>2, <1>3 DEF LifeInv, TypeOK, StdoutHeld, mobile, pump, past
<1>8. CancelHeld' /\ Served'
  BY <1>1, <1>2, <1>3 DEF LifeInv, TypeOK, CancelHeld, Served, mobile, past
<1> QED
  BY <1>4, <1>5, <1>6, <1>7, <1>8 DEF LifeInv

(* A stop holds what is on until it takes it. *)
LEMMA UserStopKeeps == ASSUME LifeInv, UserStop PROVE LifeInv'
<1> USE TokensAre DEF Step, Going, Unpublished, Holding
<1>1. /\ lifecycleToken' = lifecycleToken + 1 /\ lifecycleToken' \in Token
      /\ lifecycleToken \in Nat
      /\ status' = "stopping" /\ Goto(lifecycleToken', "stop/take")
      /\ UNCHANGED <<keeper, took, mobile, logWriter, pump, past>>
  BY LifecycleAssumption DEF UserStop, LifeInv, TypeOK, Token, Token0
<1>2. /\ task[lifecycleToken'] = "none"
      /\ task' \in [Token -> Step] /\ task'[lifecycleToken'] = "stop/take"
      /\ \A u \in Token : u # lifecycleToken' => task'[u] = task[u]
  BY <1>1 DEF LifeInv, TypeOK, Goto, Fresh
<1>3. TypeOK'
  BY <1>1, <1>2 DEF LifeInv, TypeOK, mobile, pump, past
<1>4. Fresh' /\ StatusTells' /\ TokenTells'
  BY <1>1, <1>2 DEF LifeInv, Fresh, StatusTells, TokenTells
<1>5. CancelHeld' /\ Served'
  BY <1>1, <1>2 DEF LifeInv, CancelHeld, Served, mobile, past
<1>6. ClientHeld' /\ StdoutHeld'
  BY <1>1, <1>2 DEF LifeInv, ClientHeld, StdoutHeld, mobile, pump, past
<1> QED
  BY <1>3, <1>4, <1>5, <1>6 DEF LifeInv

(* A client that ends was not waiting for its goroutine. *)
LEMMA ClientEndsKeeps == ASSUME LifeInv, NEW t \in Token, ClientEnds(t) PROVE LifeInv'
<1>1. /\ client' = [client EXCEPT ![t] = "gone"] /\ client[t] \in {"running", "cancelled"}
      /\ UNCHANGED <<ui, task, took, cancelFn, stdoutPump, logWriter, pump, past>>
  BY DEF ClientEnds, Active
<1>2. TypeOK'
  BY <1>1 DEF LifeInv, TypeOK, ClientState, ui, pump, past
<1>3. ClientHeld'
  BY <1>1 DEF LifeInv, TypeOK, ClientHeld, past
<1>4. Fresh' /\ StatusTells' /\ TokenTells'
  BY <1>1 DEF LifeInv, Fresh, StatusTells, TokenTells, ui, past
<1>5. StdoutHeld' /\ CancelHeld' /\ Served'
  BY <1>1 DEF LifeInv, StdoutHeld, CancelHeld, Served, ui, pump, past
<1> QED
  BY <1>2, <1>3, <1>4, <1>5 DEF LifeInv

-----------------------------------------------------------------------------
(* Stop. *)

(* The three callers of Stop have stages of their own. *)
LEMMA StagesApart ==
  ASSUME NEW k \in DOMAIN Stages
  PROVE  /\ Stages[k][1] \in {"failed/take", "undo/take", "stop/take"}
         /\ Stages[k][2] \in Holding /\ Stages[k][3] \in Holding
         /\ Stages[k][4] \in {"threw", "undone", "stopped"}
         /\ \A i \in 1 .. 4 : /\ Stages[k][i] \in Step
                              /\ Stages[k][i] \in Going <=> Stages[k][1] = "failed/take"
                              /\ Stages[k][i] \in Unpublished <=> Stages[k][1] = "failed/take"
<1>1. k \in {"failed", "undo", "stop"}
  BY DEF Stages
<1>2. CASE k = "failed"
  BY <1>2 DEF Stages, Step, Going, Unpublished, Holding
<1>3. CASE k = "undo"
  BY <1>3 DEF Stages, Step, Going, Unpublished, Holding
<1>4. CASE k = "stop"
  BY <1>4 DEF Stages, Step, Going, Unpublished, Holding
<1> QED
  BY <1>1, <1>2, <1>3, <1>4

(* A task in Stop is that of a start that fails, or the app shows another   *)
(* start, or none.                                                          *)
LEMMA StopIsLate ==
  ASSUME LifeInv, NEW t \in Token, status \in {"starting", "ready"},
         task[t] \notin Going, task[t] # "done"
  PROVE  Late(t)
BY DEF LifeInv, StatusTells, Late

(* What Stop finds it takes over: the client is cancelled, and whoever took *)
(* it restores the output.                                                  *)
LEMMA StopTakeKeeps ==
  ASSUME LifeInv, NEW t \in Token, NEW k \in DOMAIN Stages, StopTake(t, Stages[k])
  PROVE  LifeInv'
<1> USE TokensAre DEF Step, Going, Unpublished, Holding
<1> DEFINE s == Stages[k]
           n == IF cancelFn = 0 THEN s[4] ELSE s[2]
<1>1. /\ task[t] = s[1] /\ Goto(t, n) /\ cancelFn' = 0 /\ stdoutPump' = 0
      /\ took' = [took EXCEPT ![t] = [cancel |-> cancelFn, pump |-> stdoutPump]]
      /\ client' = IF cancelFn = 0 THEN client
                   ELSE [client EXCEPT ![cancelFn] = Cancelled(client[cancelFn])]
      /\ logWriter' = IF cancelFn = 0 THEN FALSE ELSE logWriter
      /\ crossed' = crossed \cup (IF Late(t) THEN {"late"} ELSE {})
      /\ UNCHANGED ui /\ UNCHANGED pump /\ UNCHANGED overwritten
  BY DEF StopTake, Crosses
<1>2. /\ s[1] \in {"failed/take", "undo/take", "stop/take"}
      /\ s[2] \in Holding /\ s[4] \in {"threw", "undone", "stopped"}
      /\ n \in Going <=> s[1] = "failed/take"
      /\ n \in Unpublished <=> s[1] = "failed/take"
  BY <1>1, StagesApart
<1> HIDE DEF s
<1>3. /\ task' \in [Token -> Step] /\ task'[t] = n
      /\ \A u \in Token : u # t => task'[u] = task[u]
      /\ Fresh'
  BY <1>1, <1>2, TaskGoes DEF ui
<1>4. /\ client' \in [Token -> ClientState]
      /\ \A u \in Token : /\ client'[u] \in {"created", "running"} => u \in overwritten
                          /\ client'[u] \in {"created", "doomed"} <=>
                               client[u] \in {"created", "doomed"}
  BY <1>1 DEF LifeInv, TypeOK, ClientState, ClientHeld, Cancelled
<1>5. TypeOK'
  <2>1. took' \in [Token -> [cancel : Token0, pump : Token0]] /\ crossed' \subseteq Crossing
    BY <1>1 DEF LifeInv, TypeOK, Crossing
  <2> QED
    BY <1>1, <1>3, <1>4, <2>1 DEF LifeInv, TypeOK, ui, pump
<1>6. StatusTells' /\ TokenTells'
  BY <1>1, <1>2, <1>3 DEF LifeInv, TypeOK, StatusTells, TokenTells, ui
<1>7. ClientHeld'
  BY <1>1, <1>2, <1>3, <1>4 DEF LifeInv, TypeOK, ClientHeld
<1>8. StdoutHeld'
  <2>1. took'[t].pump = cancelFn /\ \A u \in Token : u # t => took'[u] = took[u]
    BY <1>1 DEF LifeInv, TypeOK, StdoutHeld
  <2> QED
    BY <1>1, <1>2, <1>3, <2>1 DEF LifeInv, TypeOK, StdoutHeld, pump
<1>9. CancelHeld' /\ Served'
  <2>1. CancelHeld'
    BY <1>1 DEF CancelHeld
  <2>2. ASSUME Late(t) PROVE Served'
    BY <1>1, <2>2 DEF Served
  <2>3. ASSUME ~Late(t) PROVE Served'
    <3>1. status # "ready" /\ (status = "starting" => lifecycleToken = t)
      BY <1>1, <1>2, <2>3 DEF LifeInv, StatusTells, Late
    <3> QED
      BY <1>1, <1>2, <1>3, <3>1 DEF Served, ui
  <2> QED
    BY <2>1, <2>2, <2>3
<1> QED
  BY <1>3, <1>5, <1>6, <1>7, <1>8, <1>9 DEF LifeInv

(* runningWG.Wait and what follows it. *)
LEMMA StopRestKeeps ==
  ASSUME LifeInv, NEW t \in Token, NEW k \in DOMAIN Stages,
         StopWait(t, Stages[k]) \/ StopUnpump(t, Stages[k])
  PROVE  LifeInv'
<1> USE TokensAre DEF Step, Going, Unpublished, Holding
<1> DEFINE s == Stages[k]
<1>1. /\ s[1] \in {"failed/take", "undo/take", "stop/take"}
      /\ s[2] \in Holding /\ s[3] \in Holding /\ s[4] \in {"threw", "undone", "stopped"}
      /\ \A i \in 2 .. 4 : /\ s[i] \in Step
                           /\ s[i] \in Going <=> s[1] = "failed/take"
                           /\ s[i] \in Unpublished <=> s[1] = "failed/take"
  BY StagesApart
<1> HIDE DEF s
<1>2. PICK i \in 2 .. 3 :
        /\ task[t] = s[i] /\ Goto(t, s[i + 1])
        /\ \/ UNCHANGED pump /\ UNCHANGED logWriter /\ UNCHANGED crossed /\ i = 2
           \/ /\ stdout' = origStdout[took[t].pump] /\ UNCHANGED origStdout /\ logWriter' = FALSE
              /\ crossed' = crossed \cup (IF Late(t) THEN {"late"} ELSE {}) /\ i = 3
        /\ UNCHANGED ui /\ UNCHANGED took /\ UNCHANGED mobile /\ UNCHANGED overwritten
  <2>1. CASE StopWait(t, s)
    <3>1. 2 \in 2 .. 3 /\ 2 + 1 = 3
      OBVIOUS
    <3> QED
      BY <2>1, <3>1 DEF StopWait, past
  <2>2. CASE StopUnpump(t, s)
    <3>1. 3 \in 2 .. 3 /\ 3 + 1 = 4
      OBVIOUS
    <3> QED
      BY <2>2, <3>1 DEF StopUnpump, Crosses
  <2> QED
    BY <2>1, <2>2 DEF s
<1> DEFINE m == s[i]
           n == s[i + 1]
<1>3. /\ m \in Holding /\ n \in Step
      /\ IF i = 2 THEN n \in Holding ELSE n \in {"threw", "undone", "stopped"}
      /\ n \in Going <=> m \in Going
      /\ n \in Unpublished <=> m \in Unpublished
  BY <1>1
<1>4. task[t] = m /\ Goto(t, n)
  BY <1>2
<1> HIDE DEF m, n
<1>5. /\ task' \in [Token -> Step] /\ task'[t] = n
      /\ \A u \in Token : u # t => task'[u] = task[u]
      /\ Fresh'
  BY <1>2, <1>3, <1>4, TaskGoes DEF ui
<1>6. /\ stdout' = IF i = 2 THEN stdout ELSE origStdout[took[t].pump]
      /\ took[t].pump \in Token
      /\ "nested" \in crossed' <=> "nested" \in crossed
      /\ "ignored" \in crossed' <=> "ignored" \in crossed
      /\ "late" \in crossed => "late" \in crossed'
  BY <1>2, <1>3, <1>4 DEF LifeInv, StdoutHeld, pump
<1>7. TypeOK'
  <2>1. crossed' \subseteq Crossing /\ stdout' \in Token0
    BY <1>2, <1>6 DEF LifeInv, TypeOK, Crossing
  <2> QED
    BY <1>2, <1>5, <2>1 DEF LifeInv, TypeOK, ui, mobile, pump
<1>8. StatusTells' /\ TokenTells'
  BY <1>2, <1>3, <1>4, <1>5, <1>6 DEF LifeInv, TypeOK, StatusTells, TokenTells, ui
<1>9. ClientHeld'
  BY <1>2, <1>3, <1>4, <1>5 DEF LifeInv, ClientHeld, mobile
<1>10. StdoutHeld'
  BY <1>2, <1>3, <1>4, <1>5, <1>6 DEF LifeInv, TypeOK, StdoutHeld, mobile, pump
<1>11. CancelHeld'
  BY <1>2, <1>3, <1>4, <1>5, <1>6 DEF LifeInv, TypeOK, CancelHeld, ui, mobile
<1>12. Served'
  <2>1. CASE Late(t) /\ i = 3
    BY <1>2, <2>1 DEF Served
  <2>2. CASE ~Late(t) \/ i = 2
    <3>1. \/ i = 2
          \/ status # "ready" /\ (status = "starting" => lifecycleToken = t)
      BY <1>3, <1>4, <2>2 DEF LifeInv, StatusTells, Late
    <3> QED
      BY <1>2, <1>3, <1>4, <1>5, <1>6, <3>1 DEF LifeInv, TypeOK, StatusTells, Served, ui, mobile
  <2> QED
    BY <1>2, <2>1, <2>2
<1> QED
  BY <1>5, <1>7, <1>8, <1>9, <1>10, <1>11, <1>12 DEF LifeInv

-----------------------------------------------------------------------------
LEMMA LifeInit == ASSUME Init PROVE LifeInv
<1> USE TokensAre DEF Step, Going, Unpublished, Holding
<1>1. TypeOK
  BY DEF Init, TypeOK, ClientState
<1>2. Fresh /\ StatusTells /\ TokenTells /\ ClientHeld
  BY DEF Init, Fresh, StatusTells, TokenTells, ClientHeld
<1>3. StdoutHeld /\ CancelHeld /\ Served
  BY DEF Init, StdoutHeld, CancelHeld, Served
<1> QED
  BY <1>1, <1>2, <1>3 DEF LifeInv

LEMMA LifeNext == ASSUME LifeInv, [Next]_vars PROVE LifeInv'
<1>1. CASE UserStart
  BY <1>1, UserStartKeeps
<1>2. CASE UserStop
  BY <1>2, UserStopKeeps
<1>3. ASSUME NEW t \in Token, TaskStep(t) PROVE LifeInv'
  <2>1. CASE Stop(t)
    BY <2>1, StopTakeKeeps, StopRestKeeps DEF Stop
  <2> QED
    BY <1>3, <2>1, EngineStartKeeps, StartCheckKeeps, StartPumpKeeps, StartBootstrapKeeps,
       StartPublishKeeps, StartGoKeeps, StartReturnedKeeps, MarkReadyKeeps, UndoneKeeps,
       StartThrewKeeps, StopReturnedKeeps DEF TaskStep
<1>4. ASSUME NEW t \in Token, ClientEnds(t) PROVE LifeInv'
  BY <1>4, ClientEndsKeeps
<1>5. CASE UNCHANGED vars
  <2>1. /\ UNCHANGED ui /\ UNCHANGED pump /\ UNCHANGED mobile /\ UNCHANGED past
        /\ UNCHANGED task /\ UNCHANGED took /\ UNCHANGED logWriter
    BY <1>5 DEF vars, ui, pump, mobile, past
  <2> QED
    BY <2>1 DEF LifeInv, TypeOK, Fresh, StatusTells, TokenTells,
                ClientHeld, StdoutHeld, CancelHeld, Served, ui, pump, mobile, past
<1> QED
  BY <1>1, <1>2, <1>3, <1>4, <1>5 DEF Next

(* However starts and stops overlap, an app that shows "off" has ended the  *)
(* keeper, and when its tasks are done no client is out of reach but an     *)
(* overwritten one; what may be left besides, an ignored start or nested    *)
(* interceptors left it.                                                    *)
THEOREM NothingLeftOn == Spec => []OffIsOff
<1>1. LifeInv => OffIsOff
  BY TokensAre DEF LifeInv, TypeOK, OffIsOff, Idle, StatusTells, ClientHeld, StdoutHeld, CancelHeld,
         Holding, ClientState
<1> QED
  BY <1>1, LifeInit, LifeNext, PTL DEF Spec

(* However starts and stops overlap, an app that shows "connected" is       *)
(* served by the client of that start, until a task of an earlier tap stops *)
(* it late or an earlier start overwrites it.                               *)
THEOREM ConnectedIsServed == Spec => []ReadyIsServed
<1>1. LifeInv => ReadyIsServed
  BY DEF LifeInv, ReadyIsServed, StatusTells, Served
<1> QED
  BY <1>1, LifeInit, LifeNext, PTL DEF Spec

-----------------------------------------------------------------------------
(* The DNS cache: what a save counts, and what it covers. *)

Readies == {q \in Question : Ready(q)}
Behind  == {Shards[i] : i \in 1 .. saving.shard - 1}
Leading   == {Shards[i] : i \in saving.shard .. Len(Shards)}
Written == {saving.file[i] : i \in 1 .. Len(saving.file)}

CacheType ==
  /\ cache \in [Question -> {"absent", "pending", "late", "ready", "old"}]
  /\ IsFiniteSet(raced)
  /\ saving \in [pass : {"none", "count", "write"}, shard : 0 .. Len(Shards) + 1,
                  total : Nat, file : Seq(Question)]
  /\ saving.pass = "none" => saving = NotSaving
  /\ saving.pass # "none" => saving.shard >= 1

(* The entries that are written or will be if nothing changes. *)
Promised == IF saving.pass = "count" THEN Readies \cap Behind
            ELSE (Readies \cap Leading) \cup Written

(* The header's number covers them but for the answers that came after the *)
(* save had begun.                                                         *)
CountCovers ==
  saving.pass # "none" => Cardinality(Promised \ raced) <= saving.total

(* The file has each entry once, and in the second pass an answer is in a   *)
(* shard still to be written, or written, or came after the save had begun. *)
FileCovers ==
  /\ saving.pass = "count" => saving.file = <<>>
  /\ saving.pass = "write" =>
       /\ Written \subseteq Behind
       /\ Cardinality(Written) = Len(saving.file)
       /\ Readies \cap Behind \subseteq Written \cup raced

SaveInv == CacheType /\ CountCovers /\ FileCovers /\ SavedUnlessRaced

-----------------------------------------------------------------------------
(* The questions are finitely many, each in one shard. *)
LEMMA ShardsFact ==
  /\ Len(Shards) \in Nat /\ DOMAIN Shards = 1 .. Len(Shards)
  /\ Question = {Shards[i] : i \in 1 .. Len(Shards)}
  /\ \A i, j \in 1 .. Len(Shards) : Shards[i] = Shards[j] => i = j
  /\ IsFiniteSet(Question)
<1>1. Len(Shards) \in Nat /\ DOMAIN Shards = 1 .. Len(Shards)
  BY ShardsAssumption
<1>2. Question = {Shards[i] : i \in 1 .. Len(Shards)}
  BY <1>1 DEF Question, ToSet
<1>3. \A i, j \in 1 .. Len(Shards) : Shards[i] = Shards[j] => i = j
  BY <1>1, ShardsAssumption DEF IsInjective
<1>4. IsFiniteSet(Question)
  <2>1. [i \in 1 .. Len(Shards) |-> Shards[i]] \in Surjection(1 .. Len(Shards), Question)
    BY <1>2 DEF Surjection
  <2>2. IsFiniteSet(1 .. Len(Shards))
    BY <1>1, FS_Interval
  <2> QED BY <2>1, <2>2, FS_Surjection
<1> QED BY <1>1, <1>2, <1>3, <1>4

(* A subset of a finite set is finite and no larger. *)
LEMMA Smaller ==
  ASSUME NEW S, IsFiniteSet(S), NEW T, T \subseteq S
  PROVE  /\ IsFiniteSet(T) /\ Cardinality(T) \in Nat /\ Cardinality(S) \in Nat
         /\ Cardinality(T) <= Cardinality(S)
  BY FS_Subset, FS_CardinalityType

(* What the passes go over is finite. *)
LEMMA PromisedFinite == ASSUME CacheType PROVE Promised \subseteq Question
<1>1. Readies \subseteq Question
  BY DEF Readies
<1>2. Written \subseteq Question
  BY DEF CacheType, Written
<1> QED BY <1>1, <1>2 DEF Promised

(* A file of n entries F of which at most n - total are not loaded (L), and *)
(* whose number covers those that did not race (R), misses at most as many  *)
(* of the answers that it holds or that raced as raced.                     *)
LEMMA FileMisses ==
  ASSUME NEW n \in Nat, NEW total \in Nat, NEW R, IsFiniteSet(R), NEW A,
         NEW F, IsFiniteSet(F), Cardinality(F) = n, NEW L,
         n <= total => F \subseteq L,
         n > total => Cardinality(F \ L) <= n - total,
         A \subseteq F \cup R, Cardinality(F \ R) <= total
  PROVE  Cardinality(A \ L) <= Cardinality(R)
<1>0. Cardinality(R) \in Nat
  BY FS_CardinalityType
<1>1. CASE n <= total
  <2>1. A \ L \subseteq R
    BY <1>1
  <2> QED BY <2>1, Smaller
<1>2. CASE n > total
  <2> DEFINE X == F \ L
  <2>1. IsFiniteSet(X) /\ Cardinality(X) \in Nat /\ Cardinality(X) <= n - total
    BY <1>2, Smaller
  <2>2. n - total <= Cardinality(F \cap R) /\ Cardinality(F \cap R) \in Nat
    <3>1. Cardinality(F \ R) = Cardinality(F) - Cardinality(F \cap R)
      BY FS_Difference
    <3>2. Cardinality(F \cap R) \in Nat
      BY Smaller
    <3> QED BY <3>1, <3>2
  <2>3. /\ Cardinality(R \ F) = Cardinality(R) - Cardinality(F \cap R)
        /\ IsFiniteSet(R \ F) /\ Cardinality(R \ F) \in Nat
    <3>1. R \cap F = F \cap R
      OBVIOUS
    <3>2. Cardinality(R \ F) = Cardinality(R) - Cardinality(R \cap F)
      BY FS_Difference
    <3>3. IsFiniteSet(R \ F) /\ Cardinality(R \ F) \in Nat
      BY Smaller
    <3> QED BY <3>1, <3>2, <3>3
  <2> HIDE DEF X
  <2>4. /\ IsFiniteSet(X \cup (R \ F))
        /\ Cardinality(X \cup (R \ F)) <= Cardinality(X) + Cardinality(R \ F)
    <3>1. /\ IsFiniteSet(X \cup (R \ F))
          /\ Cardinality(X \cup (R \ F)) =
                Cardinality(X) + Cardinality(R \ F) - Cardinality(X \cap (R \ F))
      BY <2>1, <2>3, FS_Union
    <3>2. Cardinality(X \cap (R \ F)) \in Nat
      BY <2>1, Smaller
    <3> QED BY <2>1, <2>3, <3>1, <3>2
  <2>5. A \ L \subseteq X \cup (R \ F)
    BY DEF X
  <2>6. /\ Cardinality(A \ L) \in Nat /\ Cardinality(X \cup (R \ F)) \in Nat
        /\ Cardinality(A \ L) <= Cardinality(X \cup (R \ F))
    BY <2>4, <2>5, Smaller
  <2> QED BY <1>0, <2>1, <2>2, <2>3, <2>4, <2>6
<1> QED BY <1>1, <1>2

-----------------------------------------------------------------------------
(* A step that makes no answer ready, leaves the save and the file alone   *)
(* and does not clean the cache keeps the invariant.                       *)
LEMMA QuietKeeps ==
  ASSUME SaveInv, CacheType', UNCHANGED <<saving, disk, raced>>, dirty => dirty',
         \A q \in Question : Ready(q)' => Ready(q)
  PROVE  SaveInv'
<1>1. Readies' \subseteq Readies /\ Loaded' = Loaded /\ Behind' = Behind /\ Leading' = Leading
      /\ Written' = Written
  BY DEF Readies, Loaded, Behind, Leading, Written
<1>2. CountCovers'
  <2>1. Promised' \ raced' \subseteq Promised \ raced
    BY <1>1 DEF Promised
  <2>2. IsFiniteSet(Promised \ raced)
    BY PromisedFinite, ShardsFact, Smaller DEF SaveInv
  <2>3. /\ Cardinality(Promised' \ raced') \in Nat /\ Cardinality(Promised \ raced) \in Nat
        /\ Cardinality(Promised' \ raced') <= Cardinality(Promised \ raced)
    BY <2>1, <2>2, Smaller
  <2> QED BY <2>3 DEF SaveInv, CountCovers, CacheType
<1>3. FileCovers'
  BY <1>1 DEF SaveInv, FileCovers
<1>4. SavedUnlessRaced'
  <2>1. Readies' \ Loaded' \subseteq Readies \ Loaded
    BY <1>1
  <2>2. IsFiniteSet(Readies \ Loaded)
    BY ShardsFact, Smaller DEF Readies
  <2>3. /\ Cardinality(Readies' \ Loaded') \in Nat /\ Cardinality(Readies \ Loaded) \in Nat
        /\ Cardinality(Readies' \ Loaded') <= Cardinality(Readies \ Loaded)
    BY <2>1, <2>2, Smaller
  <2>4. Cardinality(raced) \in Nat
    BY FS_CardinalityType DEF SaveInv, CacheType
  <2> QED BY <2>3, <2>4 DEF SaveInv, SavedUnlessRaced, Readies
<1> QED BY <1>2, <1>3, <1>4 DEF SaveInv

(* What the applications do makes no answer ready. *)
LEMMA AskKeeps == ASSUME SaveInv, NEW q \in Question, Ask(q) PROVE SaveInv'
<1>1. UNCHANGED <<saving, disk, raced>>
  BY DEF Ask
<1>2. CASE Hit(q) \/ StillPending(q)
  <2>1. UNCHANGED <<cache, dirty>>
    BY <1>2 DEF Hit, StillPending
  <2>2. QED
    BY <1>1, <2>1, QuietKeeps DEF SaveInv, CacheType, Ready
<1>3. CASE Miss(q)
  <2>1. cache' = [cache EXCEPT ![q] = "pending"] /\ dirty' = TRUE
    BY <1>3 DEF Miss
  <2>2. QED
    BY <1>1, <2>1, QuietKeeps DEF SaveInv, CacheType, Ready
<1>4. QED
  BY <1>2, <1>3 DEF Ask

(* Neither do the timers. *)
LEMMA TimersKeep == ASSUME SaveInv, NEW q \in Question, PendingTimeout(q) \/ Expire(q)
                    PROVE  SaveInv'
<1>1. UNCHANGED <<saving, disk, raced>> /\ (dirty => dirty')
  BY DEF PendingTimeout, Expire, fileVars
<1>2. \E c \in {"late", "old", "absent"} : cache' = [cache EXCEPT ![q] = c]
  BY DEF PendingTimeout, Expire
<1>3. QED
  BY <1>1, <1>2, QuietKeeps DEF SaveInv, CacheType, Ready

(* An answer makes the cache dirty, and counts as raced during a save. *)
LEMMA AnswerKeeps == ASSUME SaveInv, NEW n, NEW f, ReceiveAnswer(n, f) PROVE SaveInv'
<1>1. UNCHANGED <<saving, disk>>
  BY DEF ReceiveAnswer
<1>2. CASE UNCHANGED <<cache, dirty, raced>>
  BY <1>1, <1>2, QuietKeeps DEF SaveInv, CacheType, Ready
<1>3. CASE SetReady(asked[n])
  <2> DEFINE a == asked[n]
  <2>1. /\ cache' = [cache EXCEPT ![a] = "ready"] /\ dirty' = TRUE
        /\ raced' = raced \/ raced' = raced \cup {a}
        /\ saving.pass # "none" => raced' = raced \cup {a}
    BY <1>3 DEF SetReady, NotSaving
  <2> HIDE DEF a
  <2>2. CacheType'
    <3>1. IsFiniteSet(raced')
      BY <2>1, FS_AddElement DEF SaveInv, CacheType
    <3>2. cache' \in [Question -> {"absent", "pending", "late", "ready", "old"}]
      BY <2>1 DEF SaveInv, CacheType
    <3> QED BY <1>1, <3>1, <3>2 DEF SaveInv, CacheType
  <2>3. /\ Readies' \subseteq Readies \cup {a}
        /\ Behind' = Behind /\ Leading' = Leading /\ Written' = Written
    BY <1>1, <2>1 DEF SaveInv, CacheType, Ready, Readies, Behind, Leading, Written
  <2>4. CountCovers'
    <3> SUFFICES ASSUME saving.pass # "none" PROVE Cardinality(Promised' \ raced') <= saving.total
      BY <1>1 DEF CountCovers
    <3>1. Promised' \ raced' \subseteq Promised \ raced
      BY <1>1, <2>1, <2>3 DEF Promised
    <3>2. IsFiniteSet(Promised \ raced)
      BY PromisedFinite, ShardsFact, Smaller DEF SaveInv
    <3>3. /\ Cardinality(Promised' \ raced') \in Nat /\ Cardinality(Promised \ raced) \in Nat
          /\ Cardinality(Promised' \ raced') <= Cardinality(Promised \ raced)
      BY <3>1, <3>2, Smaller
    <3> QED BY <3>3 DEF SaveInv, CountCovers, CacheType
  <2>5. FileCovers'
    BY <1>1, <2>1, <2>3 DEF SaveInv, FileCovers
  <2>6. QED
    BY <2>1, <2>2, <2>4, <2>5 DEF SaveInv, SavedUnlessRaced
<1>4. QED
  BY <1>2, <1>3 DEF ReceiveAnswer

(* Nothing is promised before the first pass. *)
LEMMA SaveBeginKeeps == ASSUME SaveInv, SaveBegin PROVE SaveInv'
<1>1. /\ saving' = [NotSaving EXCEPT !.pass = "count", !.shard = 1]
      /\ raced' = {} /\ dirty /\ UNCHANGED <<cache, dirty, disk>>
  BY DEF SaveBegin
<1>2. /\ saving' \in [pass : {"none", "count", "write"}, shard : 0 .. Len(Shards) + 1,
                       total : Nat, file : Seq(Question)]
      /\ saving'.pass = "count" /\ saving'.shard = 1 /\ saving'.total = 0 /\ saving'.file = <<>>
  <2>1. saving' = [pass |-> "count", shard |-> 1, total |-> 0, file |-> <<>>]
    BY <1>1 DEF NotSaving
  <2>2. 1 \in 0 .. Len(Shards) + 1 /\ <<>> \in Seq(Question)
    BY ShardsFact
  <2> QED BY <2>1, <2>2
<1>3. CacheType'
  BY <1>1, <1>2, FS_EmptySet DEF SaveInv, CacheType
<1>4. Promised' \ raced' = {}
  BY <1>2 DEF Promised, Behind
<1>5. CountCovers' /\ FileCovers'
  <2>1. Cardinality(Promised' \ raced') = 0
    BY <1>4, FS_EmptySet
  <2> QED BY <1>2, <2>1 DEF CountCovers, FileCovers
<1> QED BY <1>1, <1>3, <1>5 DEF SaveInv, SavedUnlessRaced

(* The number grows with the entries it has to cover. *)
LEMMA CountShardKeeps == ASSUME SaveInv, CountShard PROVE SaveInv'
<1> DEFINE q == Shards[saving.shard]
           k == IF Ready(q) THEN saving.total + 1 ELSE saving.total
<1>1. /\ saving.pass = "count" /\ saving.shard \in 1 .. Len(Shards)
      /\ saving' = [saving EXCEPT !.shard = saving.shard + 1, !.total = k]
      /\ UNCHANGED <<cache, dirty, disk, raced>>
  BY ShardsFact DEF CountShard
<1>2. /\ saving.total \in Nat /\ saving.file \in Seq(Question) /\ saving.shard \in Nat
      /\ Len(Shards) \in Nat /\ saving.file = <<>>
  BY <1>1, ShardsFact DEF SaveInv, CacheType, FileCovers
<1>3. /\ saving'.pass = "count" /\ saving'.shard = saving.shard + 1
      /\ saving'.total = k /\ saving'.file = saving.file
      /\ saving' \in [pass : {"none", "count", "write"}, shard : 0 .. Len(Shards) + 1,
                       total : Nat, file : Seq(Question)]
  <2>1. saving' = [pass |-> "count", shard |-> saving.shard + 1, total |-> k, file |-> saving.file]
    BY <1>1 DEF SaveInv, CacheType
  <2>2. saving.shard + 1 \in 0 .. Len(Shards) + 1 /\ k \in Nat
    BY <1>1, <1>2
  <2> HIDE DEF k
  <2> QED BY <1>2, <2>1, <2>2
<1>4. CacheType'
  BY <1>1, <1>3 DEF SaveInv, CacheType
<1>5. Behind' = Behind \cup {q} /\ Readies' = Readies
  BY <1>1, <1>2, <1>3 DEF Behind, Readies, Ready
<1>6. CountCovers'
  <2>1. Promised' = Readies \cap (Behind \cup {q}) /\ Promised = Readies \cap Behind
    BY <1>1, <1>3, <1>5 DEF Promised
  <2>2. IsFiniteSet(Promised \ raced) /\ Cardinality(Promised \ raced) \in Nat
    BY PromisedFinite, ShardsFact, Smaller DEF SaveInv
  <2>3. Cardinality(Promised \ raced) <= saving.total
    BY <1>1 DEF SaveInv, CountCovers
  <2>4. CASE ~Ready(q)
    <3>1. Promised' \ raced' = Promised \ raced
      BY <1>1, <2>1, <2>4 DEF Readies
    <3> QED BY <1>3, <2>3, <2>4, <3>1 DEF CountCovers
  <2>5. CASE Ready(q)
    <3>1. Promised' \ raced' \subseteq (Promised \ raced) \cup {q}
      BY <1>1, <2>1
    <3>2. /\ IsFiniteSet((Promised \ raced) \cup {q})
          /\ Cardinality((Promised \ raced) \cup {q}) <= Cardinality(Promised \ raced) + 1
      BY <2>2, FS_AddElement
    <3>3. /\ Cardinality(Promised' \ raced') \in Nat
          /\ Cardinality((Promised \ raced) \cup {q}) \in Nat
          /\ Cardinality(Promised' \ raced') <= Cardinality((Promised \ raced) \cup {q})
      BY <3>1, <3>2, Smaller
    <3> QED BY <1>2, <1>3, <2>2, <2>3, <2>5, <3>2, <3>3 DEF CountCovers
  <2> QED BY <2>4, <2>5
<1>7. FileCovers'
  BY <1>1, <1>2, <1>3 DEF FileCovers
<1>8. SavedUnlessRaced'
  BY <1>3 DEF SavedUnlessRaced, NotSaving
<1> QED BY <1>4, <1>6, <1>7, <1>8 DEF SaveInv

(* The second pass starts with everything counted and nothing written. *)
LEMMA WriteHeaderKeeps == ASSUME SaveInv, WriteHeader PROVE SaveInv'
<1>1. /\ saving.pass = "count" /\ saving.shard \notin 1 .. Len(Shards)
      /\ saving' = [saving EXCEPT !.pass = "write", !.shard = 1]
      /\ UNCHANGED <<cache, dirty, disk, raced>>
  BY ShardsFact DEF WriteHeader
<1>2. /\ saving.file = <<>> /\ saving.shard = Len(Shards) + 1 /\ Len(Shards) \in Nat
  BY <1>1, ShardsFact DEF SaveInv, CacheType, FileCovers
<1>3. /\ saving'.pass = "write" /\ saving'.shard = 1
      /\ saving'.total = saving.total /\ saving'.file = <<>>
      /\ saving' \in [pass : {"none", "count", "write"}, shard : 0 .. Len(Shards) + 1,
                       total : Nat, file : Seq(Question)]
  <2>1. saving' = [pass |-> "write", shard |-> 1, total |-> saving.total, file |-> <<>>]
    BY <1>1, <1>2 DEF SaveInv, CacheType
  <2>2. 1 \in 0 .. Len(Shards) + 1 /\ <<>> \in Seq(Question) /\ saving.total \in Nat
    BY <1>2 DEF SaveInv, CacheType
  <2> QED BY <2>1, <2>2
<1>4. CacheType'
  BY <1>1, <1>3 DEF SaveInv, CacheType
<1>5. Written' = {} /\ Behind' = {} /\ Leading' = Question /\ Readies' = Readies
      /\ Behind = Question
  BY <1>1, <1>2, <1>3, ShardsFact DEF Written, Behind, Leading, Readies, Ready
<1>6. Promised' \ raced' = Promised \ raced
  BY <1>1, <1>3, <1>5 DEF Promised, Readies
<1>7. CountCovers'
  BY <1>1, <1>3, <1>6 DEF SaveInv, CountCovers
<1>8. FileCovers'
  BY <1>3, <1>5, FS_EmptySet DEF FileCovers
<1>9. SavedUnlessRaced'
  BY <1>3 DEF SavedUnlessRaced, NotSaving
<1> QED BY <1>4, <1>7, <1>8, <1>9 DEF SaveInv

(* An entry that is written was promised. *)
LEMMA SaveShardKeeps == ASSUME SaveInv, SaveShard PROVE SaveInv'
<1> DEFINE q == Shards[saving.shard]
           f == IF Ready(q) THEN Append(saving.file, q) ELSE saving.file
<1>1. /\ saving.pass = "write" /\ saving.shard \in 1 .. Len(Shards)
      /\ saving' = [saving EXCEPT !.shard = saving.shard + 1, !.file = f]
      /\ UNCHANGED <<cache, dirty, disk, raced>>
  BY ShardsFact DEF SaveShard
<1>2. /\ saving.total \in Nat /\ saving.file \in Seq(Question) /\ saving.shard \in Nat
      /\ Len(Shards) \in Nat /\ Len(saving.file) \in Nat /\ q \in Question
  BY <1>1, ShardsFact DEF SaveInv, CacheType
<1>3. /\ saving'.pass = "write" /\ saving'.shard = saving.shard + 1
      /\ saving'.total = saving.total /\ saving'.file = f
      /\ saving' \in [pass : {"none", "count", "write"}, shard : 0 .. Len(Shards) + 1,
                       total : Nat, file : Seq(Question)]
  <2>1. saving' = [pass |-> "write", shard |-> saving.shard + 1, total |-> saving.total, file |-> f]
    BY <1>1 DEF SaveInv, CacheType
  <2>2. saving.shard + 1 \in 0 .. Len(Shards) + 1 /\ f \in Seq(Question)
    BY <1>1, <1>2
  <2> HIDE DEF f
  <2> QED BY <1>2, <2>1, <2>2
<1>4. CacheType'
  BY <1>1, <1>3 DEF SaveInv, CacheType
<1>5. /\ Behind' = Behind \cup {q} /\ Readies' = Readies
      /\ Leading \subseteq Leading' \cup {q} /\ Leading' \subseteq Leading /\ q \in Leading
  <2>1. Behind' = Behind \cup {q} /\ Readies' = Readies
    BY <1>1, <1>2, <1>3 DEF Behind, Readies, Ready
  <2>2. Leading \subseteq Leading' \cup {q} /\ Leading' \subseteq Leading /\ q \in Leading
    BY <1>1, <1>2, <1>3 DEF Leading
  <2> QED BY <2>1, <2>2
<1>6. q \notin Behind
  BY <1>1, <1>2, ShardsFact DEF Behind
<1>7. Written \subseteq Behind /\ Cardinality(Written) = Len(saving.file)
      /\ Readies \cap Behind \subseteq Written \cup raced
      /\ Cardinality(Promised \ raced) <= saving.total
  BY <1>1 DEF SaveInv, FileCovers, CountCovers
<1>8. IsFiniteSet(Written)
  BY ShardsFact, Smaller DEF SaveInv, CacheType, Written
<1>9. /\ Ready(q) => Written' = Written \cup {q} /\ Len(saving'.file) = Len(saving.file) + 1
      /\ ~Ready(q) => Written' = Written /\ saving'.file = saving.file
  <2>1. ASSUME Ready(q) PROVE Written' = Written \cup {q} /\ Len(saving'.file) = Len(saving.file) + 1
    <3>1. saving'.file = Append(saving.file, q)
      BY <1>3, <2>1
    <3> HIDE DEF q
    <3>2. /\ Len(Append(saving.file, q)) = Len(saving.file) + 1
          /\ \A i \in 1 .. Len(saving.file) : Append(saving.file, q)[i] = saving.file[i]
          /\ Append(saving.file, q)[Len(saving.file) + 1] = q
      BY <1>2
    <3> QED BY <1>2, <3>1, <3>2 DEF Written
  <2>2. ASSUME ~Ready(q) PROVE Written' = Written /\ saving'.file = saving.file
    BY <1>3, <2>2 DEF Written
  <2> QED BY <2>1, <2>2
<1>10. CountCovers'
  <2>1. Promised' \subseteq Promised
    <3>1. /\ Promised' = (Readies \cap Leading') \cup Written'
          /\ Promised = (Readies \cap Leading) \cup Written
      BY <1>1, <1>3, <1>5 DEF Promised
    <3>2. Written' \subseteq Written \cup (Readies \cap {q})
      BY <1>2, <1>9 DEF Readies
    <3> HIDE DEF q
    <3> QED BY <1>5, <3>1, <3>2
  <2>2. IsFiniteSet(Promised \ raced)
    BY PromisedFinite, ShardsFact, Smaller DEF SaveInv
  <2>3. /\ Cardinality(Promised' \ raced') \in Nat /\ Cardinality(Promised \ raced) \in Nat
        /\ Cardinality(Promised' \ raced') <= Cardinality(Promised \ raced)
    <3>1. Promised' \ raced' \subseteq Promised \ raced
      BY <1>1, <2>1
    <3> QED BY <2>2, <3>1, Smaller
  <2> QED BY <1>2, <1>3, <1>7, <2>3 DEF CountCovers
<1>11. FileCovers'
  <2>1. Written' \subseteq Behind' /\ Readies' \cap Behind' \subseteq Written' \cup raced'
    BY <1>1, <1>5, <1>7, <1>9 DEF Readies
  <2>2. Cardinality(Written') = Len(saving'.file)
    <3>1. CASE Ready(q)
      <4>1. q \notin Written
        BY <1>6, <1>7
      <4>2. Written' = Written \cup {q} /\ Len(saving'.file) = Len(saving.file) + 1
        BY <1>9, <3>1
      <4>3. Cardinality(Written \cup {q}) = Cardinality(Written) + 1
        BY <1>8, <4>1, FS_AddElement
      <4> QED BY <1>7, <4>2, <4>3
    <3>2. CASE ~Ready(q)
      BY <1>7, <1>9, <3>2
    <3> QED BY <3>1, <3>2
  <2> QED BY <1>3, <2>1, <2>2 DEF FileCovers
<1>12. SavedUnlessRaced'
  BY <1>3 DEF SavedUnlessRaced, NotSaving
<1> QED BY <1>4, <1>10, <1>11, <1>12 DEF SaveInv

(* The finished file misses at most as many answers as raced. *)
LEMMA SaveEndKeeps == ASSUME SaveInv, SaveEnd PROVE SaveInv'
<1>1. /\ saving.pass = "write" /\ saving.shard \notin 1 .. Len(Shards)
      /\ saving' = NotSaving /\ disk' = [total |-> saving.total, file |-> saving.file]
      /\ UNCHANGED <<cache, raced>>
  BY ShardsFact DEF SaveEnd
<1>2. /\ saving.shard = Len(Shards) + 1 /\ saving.total \in Nat /\ Len(saving.file) \in Nat
      /\ DOMAIN saving.file = 1 .. Len(saving.file) /\ IsFiniteSet(raced)
  BY <1>1, ShardsFact DEF SaveInv, CacheType
<1>3. Behind = Question /\ Leading = {}
  BY <1>2, ShardsFact DEF Behind, Leading
<1>4. /\ Readies \subseteq Written \cup raced
      /\ Cardinality(Written) = Len(saving.file)
      /\ Cardinality(Written \ raced) <= saving.total
  <2>1. Promised = Written
    BY <1>1, <1>3 DEF Promised
  <2> QED BY <1>1, <1>3, <2>1 DEF SaveInv, FileCovers, CountCovers, Readies
<1>5. Loaded' = {saving.file[i] : i \in {j \in 1 .. Len(saving.file) : j <= saving.total}}
  BY <1>1, <1>2 DEF Loaded
<1>6. Cardinality(Readies \ Loaded') <= Cardinality(raced)
  <2> DEFINE n     == Len(saving.file)
             total == saving.total
             rest  == {saving.file[i] : i \in total + 1 .. n}
  <2>1. n <= total => Written \subseteq Loaded'
    BY <1>2, <1>5 DEF Written
  <2>2. IsFiniteSet(Written)
    BY ShardsFact, Smaller DEF SaveInv, CacheType, Written
  <2>3. ASSUME n > total PROVE Cardinality(Written \ Loaded') <= n - total
    <3>1. [i \in total + 1 .. n |-> saving.file[i]] \in Surjection(total + 1 .. n, rest)
      BY DEF Surjection
    <3>2. IsFiniteSet(total + 1 .. n) /\ Cardinality(total + 1 .. n) = n - total
      <4>1. n \in Int /\ total \in Int
        BY <1>2
      <4> HIDE DEF n, total
      <4>2. /\ IsFiniteSet(total + 1 .. n)
            /\ Cardinality(total + 1 .. n) = IF total + 1 > n THEN 0 ELSE n - (total + 1) + 1
        BY <4>1, FS_Interval
      <4> QED BY <2>3, <4>1, <4>2
    <3>3. IsFiniteSet(rest) /\ Cardinality(rest) <= n - total
      BY <3>1, <3>2, FS_Surjection
    <3>4. Written \ Loaded' \subseteq rest
      <4> SUFFICES ASSUME NEW i \in 1 .. n, ~(i <= total) PROVE saving.file[i] \in rest
        BY <1>5 DEF Written
      <4>1. i \in total + 1 .. n
        BY <1>2
      <4> QED BY <4>1
    <3> HIDE DEF rest
    <3>5. /\ Cardinality(Written \ Loaded') \in Nat /\ Cardinality(rest) \in Nat
          /\ Cardinality(Written \ Loaded') <= Cardinality(rest)
      BY <3>3, <3>4, Smaller
    <3> QED BY <1>2, <3>3, <3>5
  <2> HIDE DEF n, total
  <2>4. n \in Nat /\ total \in Nat /\ Cardinality(Written) = n /\ Cardinality(Written \ raced) <= total
    BY <1>2, <1>4 DEF n, total
  <2> DEFINE L == Loaded'
             A == Readies
             F == Written
  <2>5. /\ n <= total => F \subseteq L
        /\ n > total => Cardinality(F \ L) <= n - total
        /\ IsFiniteSet(F) /\ IsFiniteSet(raced) /\ A \subseteq F \cup raced
        /\ Cardinality(F) = n /\ Cardinality(F \ raced) <= total
    BY <1>2, <1>4, <2>1, <2>2, <2>3, <2>4
  <2> HIDE DEF L, A, F
  <2>6. Cardinality(A \ L) <= Cardinality(raced)
    BY <2>4, <2>5, FileMisses
  <2> QED BY <2>6 DEF A, L
<1>7. SavedUnlessRaced'
  BY <1>1, <1>6 DEF SavedUnlessRaced, Readies, Ready
<1>8. CacheType' /\ CountCovers' /\ FileCovers'
  BY <1>1, ShardsFact DEF SaveInv, CacheType, CountCovers, FileCovers, NotSaving
<1> QED BY <1>7, <1>8 DEF SaveInv

(* A crash leaves what a load brings back, a restart what is not pending. *)
LEMMA RestartKeeps == ASSUME SaveInv, Crash \/ Restart PROVE SaveInv'
<1>1. CASE Crash
  <2>1. /\ cache' = [q \in Question |-> IF q \in Loaded THEN "ready" ELSE "absent"]
        /\ saving' = NotSaving /\ UNCHANGED disk /\ raced' = {}
    BY <1>1 DEF Crash
  <2>2. {q \in Question : Ready(q)'} \ Loaded' = {}
    BY <2>1 DEF Ready, Loaded
  <2>3. SavedUnlessRaced'
    BY <2>1, <2>2, FS_EmptySet DEF SavedUnlessRaced
  <2>4. CacheType' /\ CountCovers' /\ FileCovers'
    BY <2>1, ShardsFact, FS_EmptySet DEF CacheType, CountCovers, FileCovers, NotSaving
  <2>5. QED
    BY <2>3, <2>4 DEF SaveInv
<1>2. CASE Restart
  <2>1. /\ cache' = [q \in Question |-> IF cache[q] \in {"pending", "late"} THEN "absent" ELSE cache[q]]
        /\ UNCHANGED <<saving, disk, raced>> /\ (dirty => dirty')
    BY <1>2 DEF Restart
  <2>2. QED
    BY <2>1, QuietKeeps DEF SaveInv, CacheType, Ready
<1>3. QED
  BY <1>1, <1>2

(* One step of the cache keeps the invariant. *)
LEMMA CacheStepKeeps == ASSUME SaveInv, [CacheNext]_cacheVars PROVE SaveInv'
<1>1. ASSUME NEW q \in Question, Poll(q) \/ WantAgain(q) PROVE SaveInv'
  <2>1. UNCHANGED <<cache, dirty, saving, disk, raced>>
    BY <1>1 DEF Poll, WantAgain, fileVars
  <2>2. QED
    BY <2>1, QuietKeeps DEF SaveInv, CacheType, Ready
<1>2. ASSUME NEW n, NEW f, LoseAnswer(n, f) PROVE SaveInv'
  <2>1. UNCHANGED <<cache, dirty, saving, disk, raced>>
    BY <1>2 DEF LoseAnswer, fileVars
  <2>2. QED
    BY <2>1, QuietKeeps DEF SaveInv, CacheType, Ready
<1>3. CASE UNCHANGED cacheVars
  <2>1. UNCHANGED <<cache, dirty, saving, disk, raced>>
    BY <1>3 DEF cacheVars, fileVars
  <2>2. QED
    BY <2>1, QuietKeeps DEF SaveInv, CacheType, Ready
<1>4. QED
  BY <1>1, <1>2, <1>3, AskKeeps, TimersKeep, AnswerKeeps, SaveBeginKeeps, CountShardKeeps,
     WriteHeaderKeeps, SaveShardKeeps, SaveEndKeeps, RestartKeeps DEF CacheNext

(* A load of the file of a clean cache misses at most as many answers as    *)
(* came while the file was written, in two passes (SaveToFile,              *)
(* LoadFromFile), whatever fails in between.                                *)
THEOREM CleanIsSaved == CacheSpec => []SavedUnlessRaced
<1>1. CacheInit => SaveInv
  <2> SUFFICES ASSUME CacheInit PROVE SaveInv
    OBVIOUS
  <2>1. {q \in Question : Ready(q)} = {}
    BY DEF CacheInit, Ready
  <2>2. {q \in Question : Ready(q)} \ Loaded = {}
    BY <2>1
  <2>3. SavedUnlessRaced
    <3>1. raced = {} /\ Cardinality({}) = 0
      BY FS_EmptySet DEF CacheInit
    <3> QED BY <2>2, <3>1 DEF SavedUnlessRaced
  <2>4. CacheType /\ CountCovers /\ FileCovers
    BY ShardsFact, FS_EmptySet DEF CacheInit, CacheType, CountCovers, FileCovers, NotSaving
  <2> QED BY <2>3, <2>4 DEF SaveInv
<1>2. SaveInv /\ [CacheNext]_cacheVars => SaveInv'
  BY CacheStepKeeps
<1>3. SaveInv => SavedUnlessRaced
  BY DEF SaveInv
<1>4. QED
  BY <1>1, <1>2, <1>3, PTL DEF CacheSpec
=============================================================================
