---- MODULE ToolCallsProofs ----
(***************************************************************************)
(* What the calls of tools that outlive a turn or a process leave behind:  *)
(* the processes and files of skill scripts (SkillExecutions), the ledger  *)
(* of browser commands (BrowserCommands), the outcomes of background calls *)
(* (BackgroundResults) and the host calls of workflows (WorkflowRuns).     *)
(***************************************************************************)
EXTENDS SkillExecutions, BrowserCommands, BackgroundResults, WorkflowRuns, SubsequencesProofs, TLAPS

----------------------------------------------------------------------------
(* SkillExecutions.                                                        *)

\* One request. A process is launched once, from a request that is pending
\* and open and whose row, if a person was asked, is accepted; what the row
\* says until then is nothing, or that it is unknown after a restart.
Accounted(e) ==
    /\ e.launches <= 1
    /\ e.live \/ e.active => e.files = "launched"
    /\ e.says = "notRun" => e.launches = 0
    /\ e.entry = "pending" => e.files = "none" /\ e.launches = 0
    /\ e.applying => e.launches = 0
    /\ e.action = "pending" =>
         e.says = "nothing" /\ (e.applying => e.accepted) /\ (~e.accepted => e.launches = 0)
    /\ e.entry = "pending" /\ e.applying /\ e.open => e.says # "notRun"

Sound(e) == e \in Executions /\ Accounted(e)

SkillInv ==
    /\ \A r \in Requests : Sound(executions[r])
    /\ executions \in [Requests -> Executions]
    /\ policy \in Policies /\ shuttingDown \in BOOLEAN /\ recoveryDue \in BOOLEAN

LEMMA SkillStep ==
    ASSUME SkillInv, policy' \in Policies, shuttingDown' \in BOOLEAN, recoveryDue' \in BOOLEAN,
           NEW f, executions' = [r \in Requests |-> f[r]], \A r \in Requests : Sound(f[r])
    PROVE  SkillInv'
  BY DEF SkillInv, Sound

\* Only(r, e) with a sound e.
LEMMA OneIsSound ==
    ASSUME SkillInv, NEW r \in Requests, NEW e, Sound(e), Only(r, e)
    PROVE  SkillInv'
  BY DEF SkillInv, Sound, Only

LEMMA UnusedIsSound == Sound(Unused)
  BY DEF Unused, Sound, Executions, Accounted

\* What a settled row leaves alone.
Settles(e, x) ==
    /\ x.launches = e.launches /\ x.live = e.live /\ x.active = e.active /\ x.files = e.files
    /\ x.entry = e.entry /\ x.applying = e.applying /\ x.open = e.open

\* settledAction: nothing was launched where it says so.
LEMMA SettledIsSound ==
    ASSUME NEW e, Sound(e), NEW status \in {"approved", "denied", "failed"},
           NEW says \in {"result", "unknown", "notRun"},
           says = "notRun" /\ e.action = "pending" =>
              e.launches = 0 /\ ~(e.entry = "pending" /\ e.applying /\ e.open)
    PROVE  Sound(settledAction(e, status, says))
<1>1. CASE e.action # "pending"
  BY <1>1 DEF settledAction
<1>2. CASE e.action = "pending"
  <2>1. settledAction(e, status, says) = [e EXCEPT !.action = status, !.says = says, !.accepted = FALSE]
    BY <1>2 DEF settledAction
  <2>2. e \in Executions /\ Accounted(e)
    BY DEF Sound
  <2> DEFINE x == [e EXCEPT !.action = status, !.says = says, !.accepted = FALSE]
  <2>3. /\ x \in Executions /\ x.action = status /\ x.says = says /\ Settles(e, x)
    <3>1. x \in Executions
      BY <2>2 DEF Executions
    <3>2. x.action = status /\ x.says = says
      BY <2>2 DEF Executions
    <3>3. Settles(e, x)
      BY <2>2 DEF Executions, Settles
    <3> QED  BY <3>1, <3>2, <3>3
  <2> HIDE DEF x
  <2>4. Accounted(x)
    BY <1>2, <2>2, <2>3 DEF Accounted, Settles
  <2> QED  BY <2>1, <2>3, <2>4 DEF Sound, x
<1> QED  BY <1>1, <1>2

\* controller.abort() and consent.close(), and an entry that is no longer
\* pending, launch nothing.
LEMMA StoppedIsSound ==
    ASSUME NEW e, Sound(e)
    PROVE  Sound(stopped(e)) /\ ~stopped(e).open /\ stopped(e).entry = e.entry
           /\ stopped(e).launches = e.launches /\ stopped(e).action = e.action
<1> DEFINE s == stopped(e)
<1>1. e \in Executions /\ Accounted(e)
  BY DEF Sound
<1>2. s \in Executions /\ ~s.open
  BY <1>1 DEF stopped, Executions
<1>3. /\ s.entry = e.entry /\ s.launches = e.launches /\ s.action = e.action
      /\ s.live = e.live /\ s.active = e.active /\ s.files = e.files
      /\ s.says = e.says /\ s.applying = e.applying /\ s.accepted = e.accepted
  BY <1>1 DEF stopped, Executions
<1> HIDE DEF s
<1>4. Sound(s)
  BY <1>1, <1>2, <1>3 DEF Sound, Accounted
<1> QED  BY <1>2, <1>3, <1>4 DEF s

LEMMA ExpiredIsSound ==
    ASSUME NEW e, Sound(e), e.entry = "pending", ~e.open
    PROVE  Sound(expired(e))
<1>1. e.launches = 0
  BY DEF Sound, Accounted
<1> QED  BY <1>1, SettledIsSound DEF expired

LEMMA EndedIsSound ==
    ASSUME NEW e, Sound(e), NEW entry \in {"finished", "gone"}
    PROVE  Sound([e EXCEPT !.entry = entry])
  BY DEF Sound, Executions, Accounted

\* The row and the route that applies it are the same.
Same(x, e) ==
    x.says = e.says /\ x.action = e.action /\ x.accepted = e.accepted /\ x.applying = e.applying

LEMMA SpawnedOnce ==
    ASSUME NEW e \in Executions, e.launches = 0
    PROVE  /\ spawned(e) \in Executions /\ spawned(e).launches = 1 /\ spawned(e).files = "launched"
           /\ spawned(e).entry = e.entry /\ Same(spawned(e), e)
<1>1. PICK n \in 0..2 : n = 1 /\ n = IF e.launches < 2 THEN e.launches + 1 ELSE 2
  OBVIOUS
<1>2. spawned(e) = [e EXCEPT !.files = "launched", !.live = TRUE, !.launches = n]
  BY <1>1 DEF spawned
<1>3. /\ spawned(e) \in Executions /\ spawned(e).launches = n /\ spawned(e).files = "launched"
      /\ spawned(e).entry = e.entry
  BY <1>2 DEF Executions
<1>4. Same(spawned(e), e)
  BY <1>2 DEF Executions, Same
<1> QED  BY <1>1, <1>3, <1>4

\* approve(): a request that is refused was not launched, one that is launched
\* is launched once, and a launch that throws is not called back.
LEMMA ApproveIsSound ==
    ASSUME NEW e, Sound(e), e.entry = "pending", ~e.applying,
           e.says # "notRun" \/ ~e.open,
           e.action = "pending" => e.accepted,
           NEW by \in {"person", "revision", "plan"}, NEW x \in approve(e, by)
    PROVE  Sound(x)
<1>1. e \in Executions /\ e.launches = 0 /\ e.files = "none"
  BY DEF Sound, Accounted
<1> DEFINE ended(y, says) == IF by = "person" THEN settledAction(y, "failed", says) ELSE y
<1>2. ASSUME NEW y, Sound(y), y.entry = "finished", NEW says \in {"result", "notRun"},
             says = "notRun" => y.launches = 0
      PROVE  Sound(ended(y, says))
  BY <1>2, SettledIsSound
<1>3. /\ Sound(refused(e)) /\ refused(e).entry = "finished" /\ refused(e).launches = 0
  BY <1>1 DEF refused, Sound, Executions, Accounted
<1>4. ASSUME e.open
      PROVE  Sound(launched(e))
  <2>1. /\ spawned(e) \in Executions /\ spawned(e).launches = 1 /\ spawned(e).files = "launched"
        /\ Same(spawned(e), e)
    BY <1>1, SpawnedOnce
  <2>2. /\ launched(e) \in Executions /\ Same(launched(e), e) /\ launched(e).entry = "running"
        /\ launched(e).launches = 1 /\ launched(e).files = "launched"
    BY <2>1 DEF launched, Executions, Same
  <2> QED  BY <1>4, <2>2 DEF Sound, Accounted, Same
<1>5. ASSUME e.open, NEW y \in unowned(e)
      PROVE  Sound(y) /\ y.entry = "finished"
  <2>1. /\ refused(e) \in Executions /\ Same(refused(e), e) /\ refused(e).launches = 0
        /\ refused(e).entry = "finished"
    BY <1>1 DEF refused, Executions, Same
  <2>2. /\ y \in Executions /\ y.launches \in {0, 1} /\ y.files = "launched" /\ y.entry = "finished"
        /\ Same(y, e)
    <3>1. CASE y = spawned(refused(e))
      BY <2>1, <3>1, SpawnedOnce DEF Same
    <3>2. CASE y = [refused(e) EXCEPT !.files = "launched"]
      BY <2>1, <3>2 DEF Executions, Same
    <3> QED  BY <1>5, <3>1, <3>2 DEF unowned
  <2> QED  BY <1>5, <2>2 DEF Sound, Accounted, Same
<1>6. \/ x = ended(refused(e), "notRun")
      \/ e.open /\ x = launched(e)
      \/ e.open /\ \E y \in unowned(e) : x = ended(y, "result")
  BY DEF approve
<1> HIDE DEF ended
<1> QED  BY <1>2, <1>3, <1>4, <1>5, <1>6

LEMMA RequestKeepsInv ==
    ASSUME SkillInv, NEW r \in Requests, NEW workflow \in BOOLEAN, Request(r, workflow)
    PROVE  SkillInv'
<1> DEFINE e == [Unused EXCEPT !.entry = "pending", !.open = TRUE]
<1>0. /\ Unused \in Executions /\ Unused.launches = 0 /\ Unused.files = "none"
      /\ ~Unused.live /\ ~Unused.active /\ ~Unused.applying
      /\ Unused.says = "nothing" /\ Unused.action = "none"
  BY DEF Unused, Executions
<1>1. /\ Sound(e) /\ e.entry = "pending" /\ ~e.applying /\ e.says = "nothing" /\ e.action = "none"
  <2>1. e \in Executions
    BY <1>0 DEF Executions
  <2>2. /\ e.entry = "pending" /\ ~e.applying /\ e.says = "nothing" /\ e.action = "none"
        /\ e.launches = 0 /\ e.files = "none" /\ ~e.live /\ ~e.active
    BY <1>0 DEF Executions
  <2> HIDE DEF e
  <2> QED  BY <2>1, <2>2 DEF Sound, Accounted
<1> HIDE DEF e
<1>2. Sound([e EXCEPT !.action = "pending"])
  BY <1>1 DEF Sound, Executions, Accounted
<1>3. Sound([stopped(e) EXCEPT !.entry = "gone"])
  BY <1>1, StoppedIsSound, EndedIsSound
<1>4. \/ \E by \in {"plan", "revision"} : \E x \in approve(e, by) : Only(r, x)
      \/ Only(r, [e EXCEPT !.action = "pending"])
      \/ Only(r, [stopped(e) EXCEPT !.entry = "gone"])
  BY DEF Request, e
<1>5. ASSUME NEW by \in {"plan", "revision"}, NEW x \in approve(e, by), Only(r, x)
      PROVE  SkillInv'
  <2>1. Sound(x)
    BY <1>1, <1>5, ApproveIsSound
  <2> QED  BY <1>5, <2>1, OneIsSound
<1> QED  BY <1>2, <1>3, <1>4, <1>5, OneIsSound

LEMMA ReserveKeepsInv ==
    ASSUME SkillInv, NEW r \in Requests, Reserve(r)
    PROVE  SkillInv'
<1> DEFINE e == executions[r]
           x == [e EXCEPT !.accepted = TRUE, !.applying = TRUE]
<1>1. Sound(e) /\ e.action = "pending" /\ ~e.accepted /\ Only(r, x)
  BY DEF Reserve, SkillInv
<1> HIDE DEF e
<1>2. Sound(x)
  BY <1>1 DEF Sound, Executions, Accounted
<1> QED  BY <1>1, <1>2, OneIsSound

LEMMA ApplyKeepsInv ==
    ASSUME SkillInv, NEW r \in Requests, Apply(r)
    PROVE  SkillInv'
<1> DEFINE f == executions[r]
           e == [f EXCEPT !.applying = FALSE]
<1>1. Sound(f) /\ f.applying
  BY DEF Apply, SkillInv
<1>2. \/ e.entry = "pending" /\ \E x \in approve(e, "person") : Only(r, x)
      \/ Only(r, settledAction(e, "failed", "notRun"))
  BY DEF Apply
<1> HIDE DEF f
<1>3. /\ Sound(e) /\ ~e.applying /\ e.launches = 0 /\ e.entry = f.entry
      /\ e.entry = "pending" => e.says # "notRun" \/ ~e.open
      /\ e.action = "pending" => e.accepted
  <2>1. /\ e \in Executions /\ e.applying = FALSE
        /\ e.says = f.says /\ e.action = f.action /\ e.accepted = f.accepted
    BY <1>1 DEF Sound, Executions
  <2>2. /\ e.launches = f.launches /\ e.live = f.live /\ e.active = f.active /\ e.files = f.files
        /\ e.entry = f.entry /\ e.open = f.open
    BY <1>1 DEF Sound, Executions
  <2> HIDE DEF e
  <2>3. Accounted(f)
    BY <1>1 DEF Sound
  <2> QED  BY <1>1, <2>1, <2>2, <2>3 DEF Sound, Accounted
<1> HIDE DEF e
<1>4. ASSUME e.entry = "pending", NEW x \in approve(e, "person"), Only(r, x)
      PROVE  SkillInv'
  <2>1. Sound(x)
    BY <1>3, <1>4, ApproveIsSound
  <2> QED  BY <1>4, <2>1, OneIsSound
<1>5. ASSUME Only(r, settledAction(e, "failed", "notRun"))
      PROVE  SkillInv'
  <2>1. Sound(settledAction(e, "failed", "notRun"))
    BY <1>3, SettledIsSound
  <2> QED  BY <1>5, <2>1, OneIsSound
<1> QED  BY <1>2, <1>4, <1>5

\* Only files that are verified to be nobody's go with a process that may be
\* alive.
LEMMA RunEndsKeepsInv ==
    ASSUME SkillInv, NEW r \in Requests, NEW exitedWell \in BOOLEAN, NEW verified \in BOOLEAN,
           NEW removed \in BOOLEAN, RunEnds(r, exitedWell, verified, removed)
    PROVE  SkillInv'
<1> DEFINE e == executions[r]
           succeeded == verified /\ removed /\ ~e.aborted /\ exitedWell
           status == IF succeeded THEN "approved" ELSE "failed"
           entry == IF e.entry = "gone" THEN "gone" ELSE "finished"
           files == IF ~verified THEN e.files ELSE IF removed THEN "none" ELSE "verified"
           ended == [e EXCEPT !.active = FALSE, !.open = FALSE, !.entry = entry, !.files = files]
<1>1. Sound(e) /\ e.active
  BY DEF RunEnds, SkillInv
<1>2. PICK alive \in IF verified THEN {FALSE} ELSE BOOLEAN :
         Only(r, settledAction([ended EXCEPT !.live = alive], status, "result"))
  BY DEF RunEnds
<1>3. status \in {"approved", "failed"} /\ entry \in {"gone", "finished"}
  OBVIOUS
<1>4. files \in {"none", "prepared", "launched", "verified"} /\ (alive => files = "launched")
  BY <1>1, <1>2 DEF Sound, Executions, Accounted
<1>5. alive \in BOOLEAN
  BY <1>2
<1> HIDE DEF e, status, entry, files
<1>6. ended \in Executions /\ ended.active = FALSE /\ ended.entry = entry /\ ended.files = files
      /\ ended.launches = e.launches /\ Same(ended, e)
  <2>1. e \in Executions
    BY <1>1 DEF Sound
  <2>2. ended \in Executions
    BY <1>3, <1>4, <2>1 DEF Executions
  <2>3. ended.active = FALSE /\ ended.entry = entry /\ ended.files = files
    BY <2>1 DEF Executions
  <2>4. ended.launches = e.launches /\ Same(ended, e)
    BY <2>1 DEF Executions, Same
  <2> QED  BY <2>2, <2>3, <2>4
<1> HIDE DEF ended
<1>7. Sound([ended EXCEPT !.live = alive])
  BY <1>1, <1>3, <1>4, <1>5, <1>6 DEF Sound, Executions, Accounted, Same
<1>8. Sound(settledAction([ended EXCEPT !.live = alive], status, "result"))
  BY <1>3, <1>7, SettledIsSound
<1> QED  BY <1>2, <1>8, OneIsSound

LEMMA CancelRequestKeepsInv ==
    ASSUME SkillInv, NEW r \in Requests, CancelRequest(r)
    PROVE  SkillInv'
<1> DEFINE e == stopped(executions[r])
<1>1. /\ Sound(e) /\ ~e.open /\ e.entry = executions[r].entry
  BY StoppedIsSound DEF SkillInv
<1>2. CASE e.entry = "pending" /\ Only(r, [expired(e) EXCEPT !.entry = "gone"])
  BY <1>1, <1>2, ExpiredIsSound, EndedIsSound, OneIsSound
<1>3. CASE Only(r, e)
  BY <1>1, <1>3, OneIsSound
<1> QED  BY <1>1, <1>2, <1>3 DEF CancelRequest

LEMMA DenyKeepsInv ==
    ASSUME SkillInv, NEW r \in Requests, Deny(r)
    PROVE  SkillInv'
<1>1. /\ Sound(executions[r]) /\ executions[r].action = "pending" /\ ~executions[r].accepted
      /\ Only(r, settledAction(executions[r], "denied", "notRun"))
  BY DEF Deny, SkillInv
<1>2. executions[r].launches = 0 /\ ~executions[r].applying
  BY <1>1 DEF Sound, Executions, Accounted
<1>3. Sound(settledAction(executions[r], "denied", "notRun"))
  BY <1>1, <1>2, SettledIsSound
<1> QED  BY <1>1, <1>3, OneIsSound

LEMMA ExpireKeepsInv ==
    ASSUME SkillInv, NEW r \in Requests, Expire(r)
    PROVE  SkillInv'
<1> DEFINE e == executions[r]
<1>1. Sound(e) /\ Only(r, [e EXCEPT !.late = TRUE])
  BY DEF Expire, SkillInv
<1> HIDE DEF e
<1> DEFINE x == [e EXCEPT !.late = TRUE]
<1>2. /\ x \in Executions /\ Settles(e, x)
      /\ x.says = e.says /\ x.action = e.action /\ x.accepted = e.accepted
  BY <1>1 DEF Sound, Executions, Settles
<1> HIDE DEF x
<1>3. Sound(x)
  BY <1>1, <1>2 DEF Sound, Accounted, Settles
<1> QED  BY <1>1, <1>3, OneIsSound DEF x

LEMMA TimerFiresKeepsInv ==
    ASSUME SkillInv, NEW r \in Requests, TimerFires(r)
    PROVE  SkillInv'
<1> DEFINE e == stopped(executions[r])
           x == IF e.entry = "pending" THEN expired(e) ELSE e
<1>1. Sound(e) /\ ~e.open
  BY StoppedIsSound DEF SkillInv
<1>2. Only(r, [x EXCEPT !.entry = "gone"])
  BY DEF TimerFires
<1>3. Sound(x)
  BY <1>1, ExpiredIsSound
<1> QED  BY <1>2, <1>3, EndedIsSound, OneIsSound

\* What close() and recovery write of each request.
LEMMA ShutDownKeepsInv == SkillInv /\ ShutDown => SkillInv'
<1> SUFFICES ASSUME SkillInv, ShutDown PROVE SkillInv'
  OBVIOUS
<1> DEFINE f == [r \in Requests |->
                   CASE executions[r].entry = "pending" -> expired(stopped(executions[r]))
                     [] executions[r].entry = "running" -> stopped(executions[r])
                     [] OTHER -> executions[r]]
<1>1. executions' = f /\ shuttingDown' = TRUE /\ UNCHANGED <<policy, recoveryDue>>
  BY DEF ShutDown
<1>2. ASSUME NEW r \in Requests
      PROVE  Sound(f[r])
  <2>1. Sound(executions[r])
    BY DEF SkillInv
  <2>2. /\ Sound(stopped(executions[r])) /\ ~stopped(executions[r]).open
        /\ stopped(executions[r]).entry = executions[r].entry
    BY <2>1, StoppedIsSound
  <2>3. CASE executions[r].entry = "pending"
    BY <2>2, <2>3, ExpiredIsSound
  <2>4. CASE executions[r].entry = "running"
    BY <2>2, <2>4
  <2>5. CASE executions[r].entry \notin {"pending", "running"}
    BY <2>1, <2>5
  <2> QED  BY <2>3, <2>4, <2>5
<1>3. executions' = [r \in Requests |-> f[r]]
  BY <1>1
<1> HIDE DEF f
<1> QED  BY <1>1, <1>2, <1>3, SkillStep DEF SkillInv

LEMMA RecoverApprovalsKeepsInv == SkillInv /\ RecoverApprovals => SkillInv'
<1> SUFFICES ASSUME SkillInv, RecoverApprovals PROVE SkillInv'
  OBVIOUS
<1> DEFINE f == [r \in Requests |->
                   settledAction(executions[r], "failed", recoveredSays(executions[r]))]
<1>1. executions' = f /\ recoveryDue' = FALSE /\ UNCHANGED <<policy, shuttingDown>>
  BY DEF RecoverApprovals
<1>2. ASSUME NEW r \in Requests
      PROVE  Sound(f[r])
  <2> DEFINE e == executions[r]
  <2>1. Sound(e)
    BY DEF SkillInv
  <2> HIDE DEF e
  <2>2. /\ recoveredSays(e) \in {"unknown", "notRun"}
        /\ recoveredSays(e) = "notRun" /\ e.action = "pending" => e.launches = 0 /\ ~e.applying
    BY <2>1 DEF recoveredSays, Sound, Executions, Accounted
  <2> QED  BY <2>1, <2>2, SettledIsSound DEF e
<1>3. executions' = [r \in Requests |-> f[r]]
  BY <1>1
<1> HIDE DEF f
<1> QED  BY <1>1, <1>2, <1>3, SkillStep DEF SkillInv

\* A process that outlives the app keeps its files.
LEMMA RestartKeepsInv == SkillInv /\ Restart => SkillInv'
<1> SUFFICES ASSUME SkillInv, Restart PROVE SkillInv'
  OBVIOUS
<1> DEFINE lost(e) == [e EXCEPT !.entry = IF @ = "none" THEN "none" ELSE "gone",
                             !.open = FALSE, !.active = FALSE, !.applying = FALSE,
                             !.orphan = e.files # "none"]
           staged(e) == IF e.applying /\ e.entry = "pending" /\ e.open
                     THEN {[lost(e) EXCEPT !.files = "prepared", !.orphan = TRUE]} ELSE {}
           left(e) == {[lost(e) EXCEPT !.live = alive] : alive \in {FALSE, e.live}} \cup staged(e)
<1>1. PICK after \in [Requests -> UNION {left(executions[r]) : r \in Requests}] :
         (\A r \in Requests : after[r] \in left(executions[r])) /\ executions' = after
  BY DEF Restart
<1>2. ASSUME NEW r \in Requests
      PROVE  Sound(after[r])
  <2> DEFINE e == executions[r]
             entry == IF e.entry = "none" THEN "none" ELSE "gone"
             orphan == e.files # "none"
  <2>1. e \in Executions /\ Accounted(e) /\ orphan \in BOOLEAN /\ entry \in {"none", "gone"}
    BY DEF SkillInv, Sound
  <2>2. lost(e) = [e EXCEPT !.entry = entry, !.open = FALSE, !.active = FALSE, !.applying = FALSE,
                            !.orphan = orphan]
    OBVIOUS
  <2>3. after[r] \in left(e)
    BY <1>1
  <2>4. \/ \E alive \in {FALSE, e.live} : after[r] = [lost(e) EXCEPT !.live = alive]
        \/ e.entry = "pending" /\ after[r] = [lost(e) EXCEPT !.files = "prepared", !.orphan = TRUE]
    BY <2>3
  <2> HIDE DEF e, entry, orphan, lost
  <2> DEFINE x == lost(e)
  <2>5. /\ x \in Executions /\ Accounted(x) /\ ~x.active /\ ~x.applying
        /\ x.live = e.live /\ x.files = e.files /\ x.entry # "pending"
    <3>1. /\ x \in Executions /\ ~x.active /\ ~x.applying /\ x.entry = entry
      BY <2>1, <2>2 DEF Executions
    <3>2. /\ x.live = e.live /\ x.files = e.files /\ x.launches = e.launches
          /\ x.says = e.says /\ x.action = e.action /\ x.accepted = e.accepted
      BY <2>1, <2>2 DEF Executions
    <3> HIDE DEF x
    <3> QED  BY <2>1, <3>1, <3>2 DEF Accounted
  <2> HIDE DEF x
  <2>6. ASSUME NEW alive \in {FALSE, e.live}, after[r] = [lost(e) EXCEPT !.live = alive]
        PROVE  Sound(after[r])
    <3> DEFINE y == [x EXCEPT !.live = alive]
    <3>1. alive \in BOOLEAN /\ (alive => e.live)
      BY <2>1, <2>6 DEF Executions
    <3>2. y \in Executions /\ ~y.active /\ ~y.applying /\ y.live = alive /\ y.files = x.files
      BY <2>5, <3>1 DEF Executions
    <3>3. /\ y.entry = x.entry /\ y.launches = x.launches
          /\ y.says = x.says /\ y.action = x.action /\ y.accepted = x.accepted
      BY <2>5 DEF Executions
    <3> HIDE DEF y
    <3>4. Accounted(y)
      BY <2>5, <3>1, <3>2, <3>3 DEF Accounted
    <3> QED  BY <2>6, <3>2, <3>4 DEF Sound, x, y
  <2>7. ASSUME e.entry = "pending", after[r] = [lost(e) EXCEPT !.files = "prepared", !.orphan = TRUE]
        PROVE  Sound(after[r])
    <3> DEFINE y == [x EXCEPT !.files = "prepared", !.orphan = TRUE]
    <3>1. ~e.live
      BY <2>1, <2>7 DEF Accounted
    <3>2. y \in Executions /\ ~y.active /\ ~y.applying /\ y.live = x.live
      BY <2>5 DEF Executions
    <3>3. /\ y.entry = x.entry /\ y.launches = x.launches
          /\ y.says = x.says /\ y.action = x.action /\ y.accepted = x.accepted
      BY <2>5 DEF Executions
    <3> HIDE DEF y
    <3>4. Accounted(y)
      BY <2>5, <3>1, <3>2, <3>3 DEF Accounted
    <3> QED  BY <2>7, <3>2, <3>4 DEF Sound, x, y
  <2> QED  BY <2>4, <2>6, <2>7
<1>3. /\ executions' = [r \in Requests |-> after[r]]
      /\ shuttingDown' \in BOOLEAN /\ recoveryDue' \in BOOLEAN /\ policy' = policy
  BY <1>1 DEF Restart
<1> HIDE DEF left
<1> QED  BY <1>2, <1>3, SkillStep DEF SkillInv

LEMMA CleanStagingKeepsInv == SkillInv /\ CleanStaging => SkillInv'
<1> SUFFICES ASSUME SkillInv, CleanStaging PROVE SkillInv'
  OBVIOUS
<1> DEFINE f == [r \in Requests |->
         IF executions[r].orphan /\ executions[r].files \in {"prepared", "verified"}
         THEN [executions[r] EXCEPT !.files = "none", !.orphan = FALSE] ELSE executions[r]]
<1>1. executions' = f /\ UNCHANGED <<policy, shuttingDown, recoveryDue>>
  BY DEF CleanStaging
<1>2. ASSUME NEW r \in Requests
      PROVE  Sound(f[r])
  <2> DEFINE e == executions[r]
  <2>1. Sound(e)
    BY DEF SkillInv
  <2>2. f[r] \in {e} \/ (e.files # "launched" /\ f[r] = [e EXCEPT !.files = "none", !.orphan = FALSE])
    OBVIOUS
  <2> HIDE DEF e, f
  <2>3. CASE e.files # "launched" /\ f[r] = [e EXCEPT !.files = "none", !.orphan = FALSE]
    <3> DEFINE x == [e EXCEPT !.files = "none", !.orphan = FALSE]
    <3>1. e \in Executions /\ Accounted(e)
      BY <2>1 DEF Sound
    <3>2. /\ x \in Executions /\ x.files = "none" /\ x.launches = e.launches /\ x.live = e.live
          /\ x.active = e.active /\ x.entry = e.entry /\ x.applying = e.applying /\ x.open = e.open
      BY <3>1 DEF Executions
    <3>3. x.says = e.says /\ x.action = e.action /\ x.accepted = e.accepted
      BY <3>1 DEF Executions
    <3> HIDE DEF x
    <3>4. Accounted(x)
      BY <2>3, <3>1, <3>2, <3>3 DEF Accounted
    <3> QED  BY <2>3, <3>2, <3>4 DEF Sound, x
  <2> QED  BY <2>1, <2>2, <2>3
<1>3. executions' = [r \in Requests |-> f[r]]
  BY <1>1
<1> HIDE DEF f
<1> QED  BY <1>1, <1>2, <1>3, SkillStep DEF SkillInv

LEMMA SkillInvHolds == SkillSpec => []SkillInv
<1>1. SkillInit => SkillInv
  BY UnusedIsSound DEF SkillInit, SkillInv, Sound
<1>2. SkillInv /\ [SkillNext]_skillVars => SkillInv'
  <2> SUFFICES ASSUME SkillInv, [SkillNext]_skillVars PROVE SkillInv'
    OBVIOUS
  <2>1. CASE UNCHANGED skillVars
    BY <2>1 DEF skillVars, SkillInv
  <2>2. ASSUME NEW r \in Requests, NEW workflow \in BOOLEAN, Request(r, workflow)
        PROVE  SkillInv'
    BY <2>2, RequestKeepsInv
  <2>3. ASSUME NEW r \in Requests,
               \/ Reserve(r) \/ Apply(r) \/ CancelRequest(r) \/ Deny(r) \/ Expire(r) \/ TimerFires(r)
        PROVE  SkillInv'
    BY <2>3, ReserveKeepsInv, ApplyKeepsInv, CancelRequestKeepsInv, DenyKeepsInv, ExpireKeepsInv,
       TimerFiresKeepsInv
  <2>4. ASSUME NEW r \in Requests, \E w, v, d \in BOOLEAN : RunEnds(r, w, v, d)
        PROVE  SkillInv'
    BY <2>4, RunEndsKeepsInv
  <2>5. ASSUME NEW p \in Policies, SetPolicy(p)
        PROVE  SkillInv'
    BY <2>5 DEF SetPolicy, SkillInv
  <2> QED  BY <2>1, <2>2, <2>3, <2>4, <2>5, ShutDownKeepsInv, RestartKeepsInv,
              RecoverApprovalsKeepsInv, CleanStagingKeepsInv DEF SkillNext
<1> QED  BY <1>1, <1>2, PTL DEF SkillSpec

\* Requests, policy and the rows that a restart must recover have their types.
THEOREM SkillIsTyped == SkillSpec => []SkillTypeOK
<1>1. SkillInv => SkillTypeOK
  BY DEF SkillInv, SkillTypeOK
<1> QED  BY <1>1, SkillInvHolds, PTL

\* Every process of a skill script that may exist is accounted for, whatever
\* the number of requests: a row that says a script was not run is right, one
\* approval starts one process, and its files outlive it
\* (execution-service.ts, execution-runner.ts, skill-run-staging.ts).
THEOREM SkillProcessesAccountedFor == SkillSpec => []ProcessesAccountedFor
<1>1. SkillInv => ProcessesAccountedFor
  BY DEF SkillInv, Sound, Accounted, Executions, ProcessesAccountedFor, DisownedNeverRan, FilesOutliveProcess
<1> QED  BY <1>1, SkillInvHolds, PTL

----------------------------------------------------------------------------
(* BrowserCommands.                                                        *)

Works == {Off, Polling} \cup {Working(c) : c \in Commands}

\* A command that a worker or a post knows was enqueued, and handed out if it
\* is still queued.
Taken(c) == told[c] # "none" /\ (c \in entries => c \in picked)

HandedOut ==
    /\ picked \subseteq entries
    /\ \A x \in Extensions : \A c \in Commands : workers[x] = Working(c) => Taken(c)
    /\ \A m \in posts : Taken(m.cmd)

CommandAgrees(c) ==
    /\ told[c] \in {"succeeded", "failed"} => ledger[c] = told[c]
    /\ told[c] = "waiting" <=> c \in entries
    /\ c \in entries => ledger[c] = IF c \in picked THEN "running" ELSE "queued"

OneWorkerEach == \A x, y \in Extensions : \A c \in Commands : workers[x] = Working(c) /\ workers[y] = Working(c) => x = y

BrowserInv ==
    /\ BrowserTypeOK /\ HandedOut /\ OneWorkerEach
    /\ \A c \in Commands : CommandAgrees(c)
    /\ waiters # <<>> => entries \subseteq picked

LEMMA BrowserFacts ==
    ASSUME BrowserTypeOK
    PROVE  /\ queue \in Seq(Commands) /\ Len(queue) <= MAX_QUEUE_DEPTH /\ MAX_QUEUE_DEPTH \in Nat
           /\ picked \subseteq Commands /\ waiters \in Seq(Extensions \cup {"gone"})
           /\ workers \in [Extensions -> Works] /\ posts \subseteq Posts
           /\ ledger \in [Commands -> Statuses]
           /\ told \in [Commands -> {"none", "waiting", "succeeded", "failed", "refused", "lost"}]
           /\ entries = Range(queue) /\ entries \subseteq Commands /\ Len(queue) \in Nat
<1>1. queue \in Seq(Commands)
  BY DEF BrowserTypeOK
<1>2. DOMAIN queue = 1..Len(queue) /\ Len(queue) \in Nat /\ \A i \in 1..Len(queue) : queue[i] \in Commands
  BY <1>1
<1>3. entries = Range(queue) /\ entries \subseteq Commands
  BY <1>2 DEF entries, Range
<1> QED  BY <1>1, <1>2, <1>3, BrowserAssumption DEF BrowserTypeOK, Works

LEMMA BrowserTypes ==
    ASSUME queue' \in Seq(Commands), Len(queue') <= MAX_QUEUE_DEPTH,
           picked' \subseteq Commands, waiters' \in Seq(Extensions \cup {"gone"}),
           workers' \in [Extensions -> Works], posts' \subseteq Posts,
           ledger' \in [Commands -> Statuses],
           told' \in [Commands -> {"none", "waiting", "succeeded", "failed", "refused", "lost"}]
    PROVE  BrowserTypeOK' /\ entries' = Range(queue')
<1>1. DOMAIN queue' = 1..Len(queue')
  OBVIOUS
<1>2. entries' = Range(queue')
  BY <1>1 DEF entries, Range
<1> QED  BY <1>2 DEF BrowserTypeOK, Works

\* The three things a worker does are told apart by their phase.
LEMMA WorksApart ==
    /\ Off \in Works /\ Polling \in Works
    /\ \A c \in Commands : /\ Working(c) \in Works /\ Working(c) # Off /\ Working(c) # Polling
                           /\ Working(c).phase = "working" /\ Working(c).cmd = c
    /\ \A w \in Works : w.phase = "working" => \E c \in Commands : w = Working(c)
<1>1. Off.phase = "off" /\ Polling.phase = "polling"
  BY DEF Off, Polling
<1>2. \A c \in Commands : Working(c).phase = "working" /\ Working(c).cmd = c
  BY DEF Working
<1> QED  BY <1>1, <1>2 DEF Works

LEMMA NoneLeft ==
    ASSUME NEW q \in Seq(Commands), NEW p
    PROVE  /\ kept(q, Commands \ p) \in Seq(Commands)
           /\ kept(q, Commands \ p) = <<>> <=> Range(q) \subseteq p
           /\ kept(q, Commands \ p) # <<>> => Head(kept(q, Commands \ p)) \in Range(q) \ p
<1> DEFINE u == kept(q, Commands \ p)
<1>1. u \in Seq(Commands) /\ Range(u) = Range(q) \cap (Commands \ p)
  BY KeptRange
<1>2. Range(q) \subseteq Commands
  BY DEF Range
<1> HIDE DEF u
<1>3. u = <<>> => Range(u) = {}
  BY DEF Range
<1>4. u # <<>> => Head(u) \in Range(u)
  <2>1. u # <<>> => 1 \in DOMAIN u /\ Head(u) = u[1]
    BY <1>1
  <2> QED  BY <2>1 DEF Range
<1> QED  BY <1>1, <1>2, <1>3, <1>4 DEF u

\* The extension x becomes the one worker of the command e.
HandsOver(e, x) ==
    /\ e \notin picked /\ e \in entries' /\ (e \notin entries => told[e] = "none")
    /\ told' \in [Commands -> {"none", "waiting", "succeeded", "failed", "refused", "lost"}]
    /\ \A c \in Commands : told'[c] = "none" => told[c] = "none"
    /\ entries' \subseteq entries \cup {e} /\ entries \subseteq entries'
    /\ picked' = picked \cup {e} /\ told'[e] # "none" /\ posts' = posts
    /\ workers' = [y \in Extensions |-> IF y = x THEN Working(e) ELSE workers[y]]

\* A command that nobody has is handed to worker x, or to a poll that is gone.
LEMMA HandOverKeeps ==
    ASSUME BrowserInv, NEW e \in Commands, NEW x, HandsOver(e, x)
    PROVE  HandedOut' /\ OneWorkerEach'
<1>0. /\ e \notin picked /\ e \in entries' /\ (e \notin entries => told[e] = "none")
      /\ told' \in [Commands -> {"none", "waiting", "succeeded", "failed", "refused", "lost"}]
      /\ \A c \in Commands : told'[c] = "none" => told[c] = "none"
      /\ entries' \subseteq entries \cup {e} /\ entries \subseteq entries'
      /\ picked' = picked \cup {e} /\ told'[e] # "none" /\ posts' = posts
      /\ workers' = [y \in Extensions |-> IF y = x THEN Working(e) ELSE workers[y]]
  BY DEF HandsOver
<1>1. \A y \in Extensions : workers[y] # Working(e)
  BY <1>0 DEF BrowserInv, HandedOut, Taken
<1>2. picked' \subseteq entries'
  BY <1>0 DEF BrowserInv, HandedOut
<1>3. ASSUME NEW y \in Extensions, NEW c \in Commands, workers'[y] = Working(c)
      PROVE  Taken(c)' /\ (c = e <=> y = x)
  <2>1. CASE y = x
    <3>1. c = e
      BY <1>0, <1>3, <2>1, WorksApart
    <3> QED  BY <1>0, <2>1, <3>1 DEF Taken
  <2>2. CASE y # x
    <3>1. workers[y] = Working(c) /\ c # e
      BY <1>0, <1>1, <1>3, <2>2
    <3>2. Taken(c)
      BY <3>1 DEF BrowserInv, HandedOut
    <3> QED  BY <1>0, <2>2, <3>1, <3>2 DEF Taken
  <2> QED  BY <2>1, <2>2
<1>4. ASSUME NEW m \in posts'
      PROVE  Taken(m.cmd)'
  <2>1. m.cmd \in Commands /\ Taken(m.cmd)
    BY <1>0, <1>4, BrowserFacts DEF BrowserInv, HandedOut, Posts
  <2> QED  BY <1>0, <2>1 DEF Taken
<1>5. OneWorkerEach'
  <2> SUFFICES ASSUME NEW y \in Extensions, NEW z \in Extensions, NEW c \in Commands,
                      workers'[y] = Working(c), workers'[z] = Working(c)
               PROVE  y = z
    BY DEF OneWorkerEach
  <2>1. CASE c = e
    BY <1>3, <2>1
  <2>2. CASE c # e
    <3>1. workers[y] = Working(c) /\ workers[z] = Working(c)
      BY <1>0, <1>3, <2>2
    <3> QED  BY <3>1 DEF BrowserInv, OneWorkerEach
  <2> QED  BY <2>1, <2>2
<1> QED  BY <1>2, <1>3, <1>4, <1>5 DEF HandedOut

\* Fewer workers and fewer posts know no command they did not know.
LEMMA FewerKnow ==
    ASSUME BrowserInv, entries' \subseteq entries, entries' \cap picked \subseteq picked', picked' \subseteq entries',
           \A c \in Commands : told'[c] = "none" => told[c] = "none",
           \A x \in Extensions : \A c \in Commands : workers'[x] = Working(c) => workers[x] = Working(c),
           \A m \in posts' : m.cmd \in Commands /\ Taken(m.cmd)
    PROVE  HandedOut' /\ OneWorkerEach'
<1>1. ASSUME NEW c \in Commands, Taken(c)
      PROVE  Taken(c)'
  BY <1>1 DEF Taken
<1>2. HandedOut'
  BY <1>1 DEF BrowserInv, HandedOut
<1>3. OneWorkerEach'
  BY DEF BrowserInv, OneWorkerEach
<1> QED  BY <1>2, <1>3

LEMMA EnqueueKeepsBrowser ==
    ASSUME BrowserInv, NEW c \in Commands, Enqueue(c)
    PROVE  BrowserInv'
<1>1. /\ BrowserTypeOK /\ told[c] = "none" /\ c \notin entries /\ c \notin picked
  BY DEF Enqueue, BrowserInv, CommandAgrees, HandedOut
<1>2. CASE /\ told' = [told EXCEPT ![c] = "refused"]
           /\ UNCHANGED <<queue, picked, waiters, workers, posts, ledger>>
  <2>1. BrowserTypeOK' /\ entries' = entries
    BY <1>1, <1>2, BrowserFacts, BrowserTypes
  <2>2. HandedOut' /\ OneWorkerEach'
    <3>1. \A m \in posts : m.cmd \in Commands /\ Taken(m.cmd)
      BY <1>1, BrowserFacts DEF BrowserInv, HandedOut, Posts
    <3>2. \A d \in Commands : told'[d] = "none" => told[d] = "none"
      BY <1>1, <1>2, BrowserFacts
    <3>3. picked \subseteq entries
      BY DEF BrowserInv, HandedOut
    <3> QED  BY <1>2, <2>1, <3>1, <3>2, <3>3, FewerKnow
  <2>3. \A d \in Commands : CommandAgrees(d)'
    BY <1>1, <1>2, <2>1, BrowserFacts DEF BrowserInv, CommandAgrees
  <2> QED  BY <1>2, <2>1, <2>2, <2>3 DEF BrowserInv
<1>3. ASSUME Len(queue) < MAX_QUEUE_DEPTH, told' = [told EXCEPT ![c] = "waiting"],
             queue' = Append(queue, c), UNCHANGED posts
      PROVE  BrowserInv'
  <2>1. /\ queue' \in Seq(Commands) /\ Len(queue') <= MAX_QUEUE_DEPTH
        /\ Range(queue') = entries \cup {c}
        /\ told' \in [Commands -> {"none", "waiting", "succeeded", "failed", "refused", "lost"}]
        /\ \A d \in Commands : told'[d] = "none" => told[d] = "none"
        /\ posts' \subseteq Posts
    BY <1>1, <1>3, BrowserFacts, AppendRange
  <2>2. CASE /\ waiters = <<>> /\ ledger' = [ledger EXCEPT ![c] = "queued"]
             /\ UNCHANGED <<picked, waiters, workers>>
    <3>1. BrowserTypeOK' /\ entries' = entries \cup {c}
      BY <1>1, <2>1, <2>2, BrowserFacts, BrowserTypes DEF Statuses
    <3>2. /\ \A x \in Extensions : workers[x] # Working(c)
          /\ \A m \in posts : m.cmd # c /\ m.cmd \in Commands
      BY <1>1, BrowserFacts DEF BrowserInv, HandedOut, Taken, Posts
    <3>3. HandedOut' /\ OneWorkerEach'
      BY <1>3, <2>1, <2>2, <3>1, <3>2 DEF BrowserInv, HandedOut, Taken, OneWorkerEach
    <3>4. \A d \in Commands : CommandAgrees(d)'
      BY <1>1, <1>3, <2>2, <3>1, BrowserFacts DEF BrowserInv, CommandAgrees
    <3> QED  BY <2>2, <3>1, <3>3, <3>4 DEF BrowserInv
  <2>3. ASSUME waiters # <<>>,
               LET e == Head(Append(unpicked, c)) IN
                 /\ picked' = picked \cup {e}
                 /\ ledger' = [[ledger EXCEPT ![c] = "queued"] EXCEPT ![e] = "running"]
                 /\ waiters' = Tail(waiters)
                 /\ workers' = [x \in Extensions |-> IF x = Head(waiters) THEN Working(e) ELSE workers[x]]
        PROVE  BrowserInv'
    <3>1. entries \subseteq picked /\ unpicked = <<>>
      BY <1>1, <2>3, BrowserFacts, NoneLeft DEF BrowserInv, unpicked
    <3>2. Head(Append(unpicked, c)) = c
      BY <3>1
    <3>3. /\ picked' = picked \cup {c} /\ ledger' = [ledger EXCEPT ![c] = "running"]
          /\ waiters' = Tail(waiters)
          /\ workers' = [x \in Extensions |-> IF x = Head(waiters) THEN Working(c) ELSE workers[x]]
      BY <2>3, <3>2
    <3>4. workers' \in [Extensions -> Works] /\ waiters' \in Seq(Extensions \cup {"gone"})
      BY <1>1, <2>3, <3>3, BrowserFacts, WorksApart
    <3>5. BrowserTypeOK' /\ entries' = entries \cup {c}
      BY <1>1, <2>1, <3>3, <3>4, BrowserFacts, BrowserTypes DEF Statuses
    <3>6. told'[c] # "none"
      BY <1>1, <1>3, BrowserFacts
    <3> DEFINE x == Head(waiters)
    <3>7. workers' = [y \in Extensions |-> IF y = x THEN Working(c) ELSE workers[y]]
      BY <3>3
    <3> HIDE DEF x
    <3>8. /\ told' \in [Commands -> {"none", "waiting", "succeeded", "failed", "refused", "lost"}]
           /\ \A d \in Commands : told'[d] = "none" => told[d] = "none"
      BY <1>1, <1>3, BrowserFacts
    <3>9. /\ c \notin picked /\ c \in entries' /\ (c \notin entries => told[c] = "none")
           /\ entries' \subseteq entries \cup {c} /\ entries \subseteq entries'
      BY <1>1, <3>5
    <3>10. picked' = picked \cup {c} /\ posts' = posts
      BY <1>3, <3>3
    <3>11. HandedOut' /\ OneWorkerEach'
      <4>1. HandsOver(c, x)
        BY <3>6, <3>7, <3>8, <3>9, <3>10 DEF HandsOver
      <4> QED  BY <4>1, HandOverKeeps
    <3>12. \A d \in Commands : CommandAgrees(d)'
      BY <1>1, <1>3, <3>3, <3>5, BrowserFacts DEF BrowserInv, CommandAgrees
    <3> QED  BY <3>1, <3>3, <3>5, <3>11, <3>12 DEF BrowserInv
  <2> QED  BY <1>3, <2>2, <2>3 DEF Enqueue
<1> QED  BY <1>2, <1>3 DEF Enqueue

LEMMA PollKeepsBrowser ==
    ASSUME BrowserInv, NEW x \in Extensions, Poll(x)
    PROVE  BrowserInv'
<1>1. BrowserTypeOK /\ UNCHANGED <<queue, posts, told>>
  BY DEF BrowserInv, Poll
<1>2. CASE unpicked # <<>>
  <2> DEFINE e == Head(unpicked)
  <2>1. e \in entries /\ e \in Commands /\ e \notin picked
    BY <1>1, <1>2, BrowserFacts, NoneLeft DEF unpicked
  <2>2. /\ picked' = picked \cup {e} /\ ledger' = [ledger EXCEPT ![e] = "running"]
        /\ workers' = [workers EXCEPT ![x] = Working(e)] /\ waiters' = waiters
    BY <1>2 DEF Poll
  <2> HIDE DEF e
  <2>3. workers' = [y \in Extensions |-> IF y = x THEN Working(e) ELSE workers[y]]
    BY <1>1, <2>2, BrowserFacts
  <2>4. workers' \in [Extensions -> Works] /\ ledger' \in [Commands -> Statuses]
    BY <1>1, <2>1, <2>2, BrowserFacts, WorksApart DEF Statuses
  <2>5. BrowserTypeOK' /\ entries' = entries
    BY <1>1, <2>1, <2>2, <2>4, BrowserFacts, BrowserTypes
  <2>6. told[e] = "waiting"
    BY <2>1 DEF BrowserInv, CommandAgrees
  <2>7. HandedOut' /\ OneWorkerEach'
    <3>1. /\ told' \in [Commands -> {"none", "waiting", "succeeded", "failed", "refused", "lost"}]
          /\ told' = told /\ posts' = posts /\ entries' = entries
      BY <1>1, <2>5, BrowserFacts
    <3>2. HandsOver(e, x)
      BY <2>1, <2>2, <2>3, <2>6, <3>1 DEF HandsOver
    <3> QED  BY <2>1, <3>2, HandOverKeeps
  <2>8. \A d \in Commands : CommandAgrees(d)'
    BY <1>1, <2>1, <2>2, <2>5, <2>6, BrowserFacts DEF BrowserInv, CommandAgrees
  <2>9. waiters' # <<>> => entries' \subseteq picked'
    BY <2>2, <2>5 DEF BrowserInv
  <2> QED  BY <2>5, <2>7, <2>8, <2>9 DEF BrowserInv
<1>3. CASE unpicked = <<>>
  <2>1. /\ waiters' = Append(waiters, x) /\ workers' = [workers EXCEPT ![x] = Polling]
        /\ UNCHANGED <<picked, ledger>>
    BY <1>3 DEF Poll
  <2>2. waiters' \in Seq(Extensions \cup {"gone"}) /\ workers' \in [Extensions -> Works]
    BY <1>1, <2>1, BrowserFacts, WorksApart
  <2>3. BrowserTypeOK' /\ entries' = entries
    BY <1>1, <2>1, <2>2, BrowserFacts, BrowserTypes
  <2>4. entries \subseteq picked
    <3>1. queue \in Seq(Commands) /\ entries = Range(queue)
      BY <1>1, BrowserFacts
    <3> QED  BY <1>3, <3>1, NoneLeft DEF unpicked
  <2>5. \A y \in Extensions : \A c \in Commands : workers'[y] = Working(c) => workers[y] = Working(c)
    BY <1>1, <2>1, BrowserFacts, WorksApart
  <2>6. \A m \in posts : m.cmd \in Commands /\ Taken(m.cmd)
    BY <1>1, BrowserFacts DEF BrowserInv, HandedOut, Posts
  <2>7. picked \subseteq entries
    BY DEF BrowserInv, HandedOut
  <2>8. HandedOut' /\ OneWorkerEach'
    BY <1>1, <2>1, <2>3, <2>5, <2>6, <2>7, FewerKnow
  <2>9. \A d \in Commands : CommandAgrees(d)'
    BY <1>1, <2>1, <2>3 DEF BrowserInv, CommandAgrees
  <2> QED  BY <2>1, <2>3, <2>4, <2>8, <2>9 DEF BrowserInv
<1> QED  BY <1>2, <1>3

\* Steps that change no command: waits that end, workers that stop, posts that
\* are made or lost.
LEMMA NoCommandMoves ==
    ASSUME BrowserInv, UNCHANGED <<queue, picked, ledger, told>>,
           waiters' \in Seq(Extensions \cup {"gone"}), waiters' # <<>> => waiters # <<>>,
           workers' \in [Extensions -> Works],
           \A y \in Extensions : \A c \in Commands : workers'[y] = Working(c) => workers[y] = Working(c),
           posts' \subseteq Posts, \A m \in posts' : Taken(m.cmd)
    PROVE  BrowserInv'
<1>1. BrowserTypeOK' /\ entries' = entries
  BY BrowserFacts, BrowserTypes DEF BrowserInv
<1>2. /\ picked \subseteq entries
      /\ \A m \in posts' : m.cmd \in Commands /\ Taken(m.cmd)
  BY DEF BrowserInv, HandedOut, Posts
<1>3. HandedOut' /\ OneWorkerEach'
  BY <1>1, <1>2, FewerKnow
<1>4. \A d \in Commands : CommandAgrees(d)'
  BY <1>1 DEF BrowserInv, CommandAgrees
<1> QED  BY <1>1, <1>3, <1>4 DEF BrowserInv

LEMMA WaitEndsKeepsBrowser ==
    ASSUME BrowserInv, NEW i \in 1..Len(waiters), WaitEnds(i)
    PROVE  BrowserInv'
<1>1. /\ waiters' = removeAt(waiters, i) /\ UNCHANGED <<queue, picked, posts, ledger, told>>
      /\ workers' = [x \in Extensions |-> IF x = waiters[i] THEN Off ELSE workers[x]]
      /\ BrowserTypeOK
  BY DEF WaitEnds, BrowserInv
<1>2. waiters \in Seq(Extensions \cup {"gone"})
  BY <1>1, BrowserFacts
<1>3. waiters' \in Seq(Extensions \cup {"gone"})
  BY <1>1, <1>2 DEF removeAt
<1>4. workers' \in [Extensions -> Works]
  BY <1>1, BrowserFacts, WorksApart
<1>5. \A y \in Extensions : \A c \in Commands : workers'[y] = Working(c) => workers[y] = Working(c)
  BY <1>1, WorksApart
<1>6. waiters # <<>>
  BY <1>2
<1>7. posts' \subseteq Posts /\ \A m \in posts' : Taken(m.cmd)
  BY <1>1, BrowserFacts DEF BrowserInv, HandedOut
<1> QED  BY <1>1, <1>3, <1>4, <1>5, <1>6, <1>7, NoCommandMoves

LEMMA WorkerStopsKeepsBrowser ==
    ASSUME BrowserInv, NEW x \in Extensions, WorkerStops(x)
    PROVE  BrowserInv'
<1>1. /\ workers' = [workers EXCEPT ![x] = Off] /\ UNCHANGED <<queue, picked, posts, ledger, told>>
      /\ waiters' = [i \in 1..Len(waiters) |-> IF waiters[i] = x THEN "gone" ELSE waiters[i]]
      /\ BrowserTypeOK
  BY DEF WorkerStops, BrowserInv
<1>2. waiters \in Seq(Extensions \cup {"gone"})
  BY <1>1, BrowserFacts
<1>3. waiters' \in Seq(Extensions \cup {"gone"}) /\ Len(waiters') = Len(waiters)
  BY <1>1, <1>2
<1>4. waiters' # <<>> => waiters # <<>>
  BY <1>2, <1>3
<1>5. workers' \in [Extensions -> Works]
  BY <1>1, BrowserFacts, WorksApart
<1>6. \A y \in Extensions : \A c \in Commands : workers'[y] = Working(c) => workers[y] = Working(c)
  BY <1>1, BrowserFacts, WorksApart
<1>7. posts' \subseteq Posts /\ \A m \in posts' : Taken(m.cmd)
  BY <1>1, BrowserFacts DEF BrowserInv, HandedOut
<1> QED  BY <1>1, <1>3, <1>4, <1>5, <1>6, <1>7, NoCommandMoves

LEMMA PostedKeepsBrowser ==
    ASSUME BrowserInv, NEW x \in Extensions, NEW kind \in {"progress", "succeeded", "failed"}, Posted(x, kind)
    PROVE  BrowserInv'
<1> DEFINE m == [kind |-> kind, cmd |-> workers[x].cmd]
<1>1. /\ workers[x].phase = "working" /\ posts' = posts \cup {m}
      /\ UNCHANGED <<queue, picked, waiters, ledger, told>>
      /\ workers' = workers \/ workers' = [workers EXCEPT ![x] = Off]
      /\ BrowserTypeOK
  BY DEF Posted, BrowserInv
<1>2. PICK c \in Commands : workers[x] = Working(c)
  BY <1>1, BrowserFacts, WorksApart
<1>3. m \in Posts /\ m.cmd = c /\ Taken(c)
  BY <1>2, WorksApart DEF Posts, BrowserInv, HandedOut
<1> HIDE DEF m
<1>4. workers' \in [Extensions -> Works]
  BY <1>1, BrowserFacts, WorksApart
<1>5. \A y \in Extensions : \A d \in Commands : workers'[y] = Working(d) => workers[y] = Working(d)
  BY <1>1, BrowserFacts, WorksApart
<1>6. posts' \subseteq Posts /\ \A n \in posts' : Taken(n.cmd)
  BY <1>1, <1>3, BrowserFacts DEF BrowserInv, HandedOut
<1>7. waiters \in Seq(Extensions \cup {"gone"})
  BY <1>1, BrowserFacts
<1> QED  BY <1>1, <1>4, <1>5, <1>6, <1>7, NoCommandMoves

LEMMA IsLostKeepsBrowser ==
    ASSUME BrowserInv, NEW m \in posts, IsLost(m)
    PROVE  BrowserInv'
<1>1. /\ posts' \subseteq posts /\ UNCHANGED <<queue, picked, waiters, workers, ledger, told>>
      /\ BrowserTypeOK
  BY DEF IsLost, BrowserInv
<1>2. posts' \subseteq Posts /\ \A n \in posts' : Taken(n.cmd)
  BY <1>1, BrowserFacts DEF BrowserInv, HandedOut
<1> QED  BY <1>1, <1>2, BrowserFacts, NoCommandMoves

\* The entry goes and the ledger says what the tool is told.
LEMMA SettleKeepsBrowser ==
    ASSUME BrowserInv, NEW c \in entries, NEW status \in {"succeeded", "failed"}, settleCommand(c, status),
           UNCHANGED <<waiters, workers>>, posts' \subseteq posts
    PROVE  BrowserInv'
<1>1. /\ queue' = kept(queue, Commands \ {c}) /\ picked' = picked \ {c}
      /\ ledger' = [ledger EXCEPT ![c] = status] /\ told' = [told EXCEPT ![c] = status]
      /\ BrowserTypeOK
  BY DEF settleCommand, BrowserInv
<1>2. c \in Commands
  BY <1>1, BrowserFacts
<1>3. /\ queue' \in Seq(Commands) /\ Range(queue') = entries \cap (Commands \ {c})
      /\ Len(queue') <= Len(queue)
  BY <1>1, BrowserFacts, KeptRange
<1>4. Len(queue') <= MAX_QUEUE_DEPTH
  BY <1>1, <1>3, BrowserFacts
<1>5. BrowserTypeOK'
  BY <1>1, <1>2, <1>3, <1>4, BrowserFacts, BrowserTypes DEF Statuses
<1>6. entries' = entries \ {c}
  <2>1. entries' = Range(queue')
    BY <1>1, <1>2, <1>3, <1>4, BrowserFacts, BrowserTypes DEF Statuses
  <2> QED  BY <1>1, <1>3, <2>1, BrowserFacts
<1>7. /\ \A m \in posts' : m.cmd \in Commands /\ Taken(m.cmd)
      /\ picked' \subseteq entries'
  BY <1>1, <1>6, BrowserFacts DEF BrowserInv, HandedOut, Posts
<1>8. \A d \in Commands : told'[d] = "none" => told[d] = "none"
  BY <1>1, <1>2, BrowserFacts
<1>9. HandedOut' /\ OneWorkerEach'
  BY <1>1, <1>6, <1>7, <1>8, FewerKnow
<1>10. \A d \in Commands : CommandAgrees(d)'
  BY <1>1, <1>2, <1>6, BrowserFacts DEF BrowserInv, CommandAgrees
<1>11. waiters' # <<>> => entries' \subseteq picked'
  BY <1>1, <1>6 DEF BrowserInv
<1> QED  BY <1>5, <1>9, <1>10, <1>11 DEF BrowserInv

LEMMA ArrivesKeepsBrowser ==
    ASSUME BrowserInv, NEW m \in posts, Arrives(m)
    PROVE  BrowserInv'
<1>1. /\ posts' \subseteq posts /\ UNCHANGED <<waiters, workers>> /\ BrowserTypeOK
      /\ m.cmd \in Commands /\ m.kind \in {"progress", "succeeded", "failed"} /\ Taken(m.cmd)
  BY BrowserFacts DEF Arrives, BrowserInv, HandedOut, Posts
<1>2. CASE /\ ledger' = [ledger EXCEPT ![m.cmd] = progressed(ledger[m.cmd])]
           /\ UNCHANGED <<queue, picked, told>>
  <2> DEFINE c == m.cmd
  <2>1. ledger' \in [Commands -> Statuses]
    BY <1>1, <1>2, BrowserFacts DEF progressed, Statuses
  <2>2. BrowserTypeOK' /\ entries' = entries
    BY <1>1, <1>2, <2>1, BrowserFacts, BrowserTypes
  <2>3. /\ \A n \in posts' : n.cmd \in Commands /\ Taken(n.cmd)
        /\ picked \subseteq entries
    BY <1>1, BrowserFacts DEF BrowserInv, HandedOut, Posts
  <2>4. HandedOut' /\ OneWorkerEach'
    BY <1>1, <1>2, <2>2, <2>3, FewerKnow
  <2>5. c \in entries => ledger[c] = "running"
    BY <1>1 DEF Taken, BrowserInv, CommandAgrees
  <2>6. \A d \in Commands : CommandAgrees(d)'
    BY <1>1, <1>2, <2>2, <2>5, BrowserFacts DEF BrowserInv, CommandAgrees, progressed
  <2> QED  BY <1>1, <1>2, <2>2, <2>4, <2>6 DEF BrowserInv
<1>3. ASSUME m.cmd \in entries, m.kind # "progress", settleCommand(m.cmd, m.kind)
      PROVE  BrowserInv'
  BY <1>1, <1>3, SettleKeepsBrowser
<1>4. CASE UNCHANGED <<queue, picked, ledger, told>>
  <2>1. posts' \subseteq Posts /\ \A n \in posts' : Taken(n.cmd)
    BY <1>1, BrowserFacts DEF BrowserInv, HandedOut
  <2> QED  BY <1>1, <1>4, <2>1, BrowserFacts, NoCommandMoves
<1> QED  BY <1>2, <1>3, <1>4 DEF Arrives

LEMMA ServerRestartsKeepsBrowser ==
    ASSUME BrowserInv, ServerRestarts
    PROVE  BrowserInv'
<1>1. /\ queue' = <<>> /\ picked' = {} /\ waiters' = <<>> /\ UNCHANGED <<posts, ledger>>
      /\ workers' = [x \in Extensions |-> IF workers[x] = Polling THEN Off ELSE workers[x]]
      /\ told' = [c \in Commands |-> IF told[c] = "waiting" THEN "lost" ELSE told[c]]
      /\ BrowserTypeOK
  BY DEF ServerRestarts, BrowserInv
<1>2. /\ queue' \in Seq(Commands) /\ Len(queue') <= MAX_QUEUE_DEPTH /\ Range(queue') = {}
      /\ waiters' \in Seq(Extensions \cup {"gone"})
  BY <1>1, BrowserFacts DEF Range
<1>3. workers' \in [Extensions -> Works]
  BY <1>1, BrowserFacts, WorksApart
<1>4. /\ told' \in [Commands -> {"none", "waiting", "succeeded", "failed", "refused", "lost"}]
      /\ \A c \in Commands : told'[c] # "waiting" /\ (told'[c] \in {"none", "succeeded", "failed"} => told'[c] = told[c])
  BY <1>1, BrowserFacts
<1>5. BrowserTypeOK' /\ entries' = {}
  BY <1>1, <1>2, <1>3, <1>4, BrowserFacts, BrowserTypes
<1>6. \A y \in Extensions : \A c \in Commands : workers'[y] = Working(c) => workers[y] = Working(c)
  BY <1>1, WorksApart
<1>7. \A m \in posts : m.cmd \in Commands /\ Taken(m.cmd)
  BY <1>1, BrowserFacts DEF BrowserInv, HandedOut, Posts
<1>8. HandedOut' /\ OneWorkerEach'
  BY <1>1, <1>4, <1>5, <1>6, <1>7, FewerKnow
<1>9. \A d \in Commands : CommandAgrees(d)'
  BY <1>1, <1>4, <1>5 DEF BrowserInv, CommandAgrees
<1> QED  BY <1>1, <1>5, <1>8, <1>9 DEF BrowserInv

LEMMA BrowserInvHolds == BrowserSpec => []BrowserInv
<1>1. BrowserInit => BrowserInv
  <2> SUFFICES ASSUME BrowserInit PROVE BrowserInv
    OBVIOUS
  <2>1. /\ queue = <<>> /\ picked = {} /\ waiters = <<>> /\ posts = {}
        /\ workers = [x \in Extensions |-> Off]
        /\ ledger = [c \in Commands |-> "none"] /\ told = [c \in Commands |-> "none"]
        /\ MAX_QUEUE_DEPTH \in Nat
    BY BrowserAssumption DEF BrowserInit
  <2>2. BrowserTypeOK /\ entries = {}
    BY <2>1 DEF BrowserTypeOK, entries, Statuses
  <2>3. HandedOut /\ OneWorkerEach
    BY <2>1, WorksApart DEF HandedOut, OneWorkerEach
  <2>4. \A c \in Commands : CommandAgrees(c)
    BY <2>1, <2>2 DEF CommandAgrees
  <2> QED  BY <2>1, <2>2, <2>3, <2>4 DEF BrowserInv
<1>2. BrowserInv /\ [BrowserNext]_browserVars => BrowserInv'
  <2> SUFFICES ASSUME BrowserInv, [BrowserNext]_browserVars PROVE BrowserInv'
    OBVIOUS
  <2>1. CASE UNCHANGED browserVars
    <3>1. UNCHANGED <<queue, picked, waiters, workers, posts, ledger, told>> /\ BrowserTypeOK
      BY <2>1 DEF browserVars, BrowserInv
    <3>2. posts' \subseteq Posts /\ \A n \in posts' : Taken(n.cmd)
      BY <3>1, BrowserFacts DEF BrowserInv, HandedOut
    <3> QED  BY <3>1, <3>2, BrowserFacts, NoCommandMoves
  <2>2. ASSUME NEW c \in Commands, Enqueue(c) \/ TimesOut(c)
        PROVE  BrowserInv'
    BY <2>2, EnqueueKeepsBrowser, SettleKeepsBrowser DEF TimesOut
  <2>3. ASSUME NEW x \in Extensions, Poll(x) \/ WorkerStops(x)
        PROVE  BrowserInv'
    BY <2>3, PollKeepsBrowser, WorkerStopsKeepsBrowser
  <2>4. ASSUME NEW x \in Extensions, NEW kind \in {"progress", "succeeded", "failed"}, Posted(x, kind)
        PROVE  BrowserInv'
    BY <2>4, PostedKeepsBrowser
  <2>5. ASSUME NEW i \in 1..Len(waiters), WaitEnds(i)
        PROVE  BrowserInv'
    BY <2>5, WaitEndsKeepsBrowser
  <2>6. ASSUME NEW m \in posts, Arrives(m) \/ IsLost(m)
        PROVE  BrowserInv'
    BY <2>6, ArrivesKeepsBrowser, IsLostKeepsBrowser
  <2> QED  BY <2>1, <2>2, <2>3, <2>4, <2>5, <2>6, ServerRestartsKeepsBrowser DEF BrowserNext
<1> QED  BY <1>1, <1>2, PTL DEF BrowserSpec

\* Ledger, queue, parked polls and workers of the browser bridge have their types.
THEOREM BrowserIsTyped == BrowserSpec => []BrowserTypeOK
<1>1. BrowserInv => BrowserTypeOK
  BY DEF BrowserInv
<1> QED  BY <1>1, BrowserInvHolds, PTL

\* The ledger and the tool are told the same of every command, whatever the
\* number of commands, extensions and parked polls
\* (completeBrowserCommandLog, markBrowserCommandProgress, pollNextCommand).
THEOREM BrowserLedgerAgrees == BrowserSpec => []LedgerAgrees
<1>1. BrowserInv => LedgerAgrees
  <2> SUFFICES ASSUME BrowserInv PROVE LedgerAgrees
    OBVIOUS
  <2>1. BrowserTypeOK
    BY DEF BrowserInv
  <2>2. waiters # <<>> => unpicked = <<>>
    BY <2>1, BrowserFacts, NoneLeft DEF BrowserInv, unpicked
  <2>3. \A x, y \in Extensions : workers[x] = workers[y] /\ workers[x].phase = "working" => x = y
    BY <2>1, BrowserFacts, WorksApart DEF BrowserInv, OneWorkerEach
  <2> QED  BY <2>2, <2>3 DEF BrowserInv, LedgerAgrees, CommandAgrees
<1> QED  BY <1>1, BrowserInvHolds, PTL

----------------------------------------------------------------------------
(* BackgroundResults.                                                      *)

\* A call of a thread and what its owner was told. As long as the closure or
\* a deferred settlement is to settle it, the record, the row and the
\* operation wait; and once the owner was told, no copy says anything else.
Agreed(b, h) ==
    /\ b.runs \/ b.deferred # "none" => b.record = "pending"
    /\ b.record = "pending" => b.row = "pending" /\ b.operation = "accepted" /\ b.mine /\ ~b.expired
    /\ b.record \in Outcomes => b.row \in {b.record, "none"}
    /\ b.operation = "none" => h = "nothing" /\ b.row = "none"
    /\ h # "nothing" => b.row \in {h, "none"} /\ b.record \in {h, "none"}

\* And a record that waits is waited for by one of the two, so nothing
\* expires before its time and nothing is settled twice.
OutcomeKept(b, h) ==
    /\ Agreed(b, h)
    /\ b.record = "pending" => b.runs \/ b.deferred # "none"
    /\ ~(b.runs /\ b.deferred # "none")

Heard == {"nothing", "interrupted"} \cup Outcomes

BackgroundInv ==
    /\ BackgroundTypeOK
    /\ \A c \in Owned : OutcomeKept(background[c], heard[c])

LEMMA BackgroundFacts ==
    ASSUME BackgroundInv
    PROVE  /\ background \in [Calls -> BackgroundCalls] /\ store \in Seq(Calls)
           /\ processes \in 1..MaxProcesses /\ reconcileDue \in BOOLEAN
           /\ heard \in [Calls -> Heard]
           /\ Owned \subseteq Calls
           /\ \A c \in Owned : OutcomeKept(background[c], heard[c])
  BY BackgroundAssumption DEF BackgroundInv, BackgroundTypeOK, Heard

LEMMA NotCalledIsKept == NotCalled \in BackgroundCalls
  <1>1. 0 \in 0..MaxTries
    BY BackgroundAssumption
  <1> QED  BY <1>1 DEF NotCalled, BackgroundCalls

\* A step of the calls that leaves the owners' knowledge alone.
LEMMA BackgroundStep ==
    ASSUME BackgroundInv, NEW f, background' = [c \in Calls |-> f[c]], store' \in Seq(Calls),
           processes' \in 1..MaxProcesses, reconcileDue' \in BOOLEAN, heard' = heard,
           \A c \in Calls : f[c] \in BackgroundCalls,
           \A c \in Owned : OutcomeKept(f[c], heard[c])
    PROVE  BackgroundInv'
<1>1. BackgroundTypeOK'
  BY BackgroundFacts DEF BackgroundTypeOK, Heard
<1>2. \A c \in Owned : background'[c] = f[c] /\ heard'[c] = heard[c]
  BY BackgroundFacts
<1> QED  BY <1>1, <1>2 DEF BackgroundInv

\* A record that is finished is given up to a sweep or an eviction.
LEMMA ForgottenIsKept ==
    ASSUME NEW b \in BackgroundCalls
    PROVE  /\ forgotten(b) \in BackgroundCalls
           /\ \A h \in Heard : OutcomeKept(b, h) /\ b.record # "pending" => OutcomeKept(forgotten(b), h)
  BY DEF BackgroundCalls, OutcomeKept, Agreed, forgotten, Outcomes, Heard

\* A settlement, of the closure or of the sweeper.
LEMMA SettledIsKept ==
    ASSUME NEW b \in BackgroundCalls, NEW outcome \in Outcomes, NEW saved \in BOOLEAN
    PROVE  /\ settledOwned(b, outcome, saved) \in BackgroundCalls
           /\ \A h \in Heard : Agreed(b, h) /\ ~b.runs /\ b.record = "pending"
                               => OutcomeKept(settledOwned(b, outcome, saved), h)
<1>0. b.tries \in Nat /\ MaxTries \in Nat /\ b.tries \in 0..MaxTries /\ 0 \in 0..MaxTries
  BY BackgroundAssumption DEF BackgroundCalls
<1>1. CASE saved
  <2>1. settledOwned(b, outcome, saved) = concluded(b, outcome)
    BY <1>1 DEF settledOwned
  <2>2. concluded(b, outcome) \in BackgroundCalls
    <3>1. PICK row \in {"none", "pending", "interrupted"} \cup Outcomes :
             row = IF b.operation = "accepted" /\ b.row = "pending" THEN outcome ELSE b.row
      BY DEF BackgroundCalls
    <3>2. concluded(b, outcome) =
             [b EXCEPT !.operation = "concluded", !.row = row, !.record = outcome,
                       !.deferred = "none", !.tries = 0]
      BY <3>1 DEF concluded
    <3> QED  BY <1>0, <3>2 DEF BackgroundCalls, Outcomes
  <2>3. \A h \in Heard : Agreed(b, h) /\ ~b.runs /\ b.record = "pending"
                         => OutcomeKept(concluded(b, outcome), h)
    BY DEF concluded, BackgroundCalls, OutcomeKept, Agreed, Outcomes, Heard
  <2> QED  BY <2>1, <2>2, <2>3
<1>2. CASE ~saved /\ b.tries + 1 < MaxTries
  <2>1. PICK n \in 0..MaxTries : n = b.tries + 1
    BY <1>0, <1>2
  <2>2. settledOwned(b, outcome, saved) = [b EXCEPT !.tries = n, !.deferred = outcome]
    BY <1>2, <2>1 DEF settledOwned
  <2> QED  BY <2>2 DEF BackgroundCalls, OutcomeKept, Agreed, Outcomes, Heard
<1>3. CASE ~saved /\ ~(b.tries + 1 < MaxTries)
  <2>1. settledOwned(b, outcome, saved) = [b EXCEPT !.record = "exhausted", !.deferred = "none", !.tries = 0]
    BY <1>3 DEF settledOwned
  <2> QED  BY <1>0, <2>1 DEF BackgroundCalls, OutcomeKept, Agreed, Outcomes, Heard
<1> QED  BY <1>1, <1>2, <1>3

LEMMA SettledCallIsKept ==
    ASSUME NEW c, NEW b \in BackgroundCalls, NEW outcome \in Outcomes, NEW saved \in BOOLEAN
    PROVE  /\ settledCall(c, b, outcome, saved) \in BackgroundCalls
           /\ \A h \in Heard : c \in Owned /\ Agreed(b, h) /\ ~b.runs /\ b.record = "pending"
                               => OutcomeKept(settledCall(c, b, outcome, saved), h)
<1>1. [b EXCEPT !.record = outcome] \in BackgroundCalls
  BY DEF BackgroundCalls, Outcomes
<1> QED  BY <1>1, SettledIsKept DEF settledCall

\* enforceCap takes a key of the store: the oldest of those that may go.
LEMMA OldestMayGo ==
    ASSUME store \in Seq(Calls), NEW S, S \cap ToSet(store) # {}
    PROVE  oldestOf(S) \in S
<1> DEFINE I == {i \in 1..Len(store) : store[i] \in S}
<1>1. Len(store) \in Nat /\ DOMAIN store = 1..Len(store)
  OBVIOUS
<1>2. I \in SUBSET Nat /\ I # {}
  BY <1>1 DEF ToSet
<1>3. \A j : j \in I <=> j \in 1..Len(store) /\ store[j] \in S
  OBVIOUS
<1> HIDE DEF I
<1>4. PICK i \in I : \A j \in I : <<j, i>> \notin OpToRel(<, Nat)
  BY <1>2, WFMin, NatLessThanWellFounded
<1>5. i \in 1..Len(store) /\ store[i] \in S
  BY <1>3, <1>4
<1>6. ASSUME NEW j \in 1..i - 1
      PROVE  store[j] \notin S
  <2>1. j \in 1..Len(store) /\ i \in Nat /\ j \in Nat /\ j < i
    BY <1>1, <1>5
  <2>2. <<j, i>> \in OpToRel(<, Nat)
    BY <2>1 DEF OpToRel
  <2> QED  BY <1>3, <1>4, <2>1, <2>2
<1>7. \E k \in 1..Len(store) : store[k] \in S /\ \A j \in 1..k - 1 : store[j] \notin S
  BY <1>5, <1>6
<1> QED  BY <1>7 DEF oldestOf

\* A thread's call is evicted only when it has finished.
LEMMA VictimsHaveFinished ==
    ASSUME BackgroundInv, Len(store) < MAX_ENTRIES \/ evictable(ToSet(store)) # {}
    PROVE  \A d \in victims : d \notin Owned \/ background[d].record # "pending"
<1>1. store \in Seq(Calls) /\ evictable(ToSet(store)) \subseteq ToSet(store)
  BY BackgroundFacts DEF evictable
<1>2. ASSUME Len(store) >= MAX_ENTRIES
      PROVE  victims = {oldestOf(evictable(ToSet(store)))}
  <2>1. Len(store) \in Nat /\ MAX_ENTRIES \in Nat
    BY <1>1, BackgroundAssumption
  <2> QED  BY <1>2, <2>1 DEF victims
<1>3. ASSUME NEW d \in victims
      PROVE  d \in evictable(ToSet(store))
  <2>1. Len(store) >= MAX_ENTRIES
    <3>1. Len(store) \in Nat /\ MAX_ENTRIES \in Nat
      BY <1>1, BackgroundAssumption
    <3> QED  BY <1>3, <3>1 DEF victims
  <2>2. d = oldestOf(evictable(ToSet(store))) /\ evictable(ToSet(store)) # {}
    <3>1. Len(store) \in Nat /\ MAX_ENTRIES \in Nat
      BY <1>1, BackgroundAssumption
    <3> QED  BY <1>2, <1>3, <2>1, <3>1
  <2>3. evictable(ToSet(store)) \cap ToSet(store) # {}
    BY <1>1, <2>2
  <2> QED  BY <1>1, <2>2, <2>3, OldestMayGo
<1> QED  BY <1>3 DEF evictable, finishedRecord

LEMMA StartCallKeepsBackground ==
    ASSUME BackgroundInv, NEW c \in Calls, NEW begins \in BOOLEAN, StartCall(c, begins)
    PROVE  BackgroundInv'
<1> DEFINE swept == [d \in Calls |-> IF d \in victims THEN forgotten(background[d]) ELSE background[d]]
           started == [NotCalled EXCEPT !.runs = TRUE, !.record = "pending"]
           owned == [started EXCEPT !.operation = "accepted", !.mine = TRUE, !.row = "pending"]
           new == IF c \in Owned THEN owned ELSE started
           f == [d \in Calls |-> IF begins /\ d = c THEN new ELSE swept[d]]
           left == without(store, victims)
<1>1. /\ background[c] = NotCalled
      /\ Len(store) < MAX_ENTRIES \/ evictable(ToSet(store)) # {}
      /\ background' = IF ~begins THEN swept ELSE [swept EXCEPT ![c] = new]
      /\ store' = IF begins THEN Append(left, c) ELSE left
      /\ UNCHANGED <<processes, reconcileDue, heard>>
  BY DEF StartCall
<1>2. background' = f
  BY <1>1
<1>3. store' \in Seq(Calls)
  <2>1. left \in Seq(Calls)
    BY BackgroundFacts, KeptRange DEF without
  <2> HIDE DEF left
  <2> QED  BY <1>1, <2>1
<1>4. /\ started \in BackgroundCalls /\ owned \in BackgroundCalls
      /\ OutcomeKept(owned, "nothing")
  BY NotCalledIsKept DEF BackgroundCalls, OutcomeKept, Agreed, Outcomes, NotCalled
<1> HIDE DEF started, owned
<1>5. c \in Owned => heard[c] = "nothing"
  <2>1. NotCalled.operation = "none"
    BY DEF NotCalled
  <2> QED  BY <1>1, <2>1, BackgroundFacts DEF OutcomeKept, Agreed
<1>6. ASSUME NEW d \in Calls
      PROVE  /\ swept[d] \in BackgroundCalls
             /\ d \in Owned => OutcomeKept(swept[d], heard[d])
  BY <1>1, <1>6, BackgroundFacts, VictimsHaveFinished, ForgottenIsKept
<1>7. \A d \in Calls : f[d] \in BackgroundCalls
  BY <1>4, <1>6
<1>8. \A d \in Owned : OutcomeKept(f[d], heard[d])
  <2>1. Owned \subseteq Calls
    BY BackgroundFacts
  <2> QED  BY <1>4, <1>5, <1>6, <2>1
<1>9. background' = [d \in Calls |-> f[d]]
  BY <1>2
<1> HIDE DEF f
<1> QED  BY <1>1, <1>3, <1>7, <1>8, <1>9, BackgroundFacts, BackgroundStep

LEMMA SettleCallKeepsBackground ==
    ASSUME BackgroundInv, NEW c \in Calls, NEW outcome \in Outcomes, NEW saved \in BOOLEAN,
           SettleCall(c, outcome, saved)
    PROVE  BackgroundInv'
<1> DEFINE b == [background[c] EXCEPT !.runs = FALSE]
           f == [d \in Calls |-> IF d = c THEN settledCall(c, b, outcome, saved) ELSE background[d]]
<1>1. background[c].runs /\ background' = f /\ UNCHANGED <<store, processes, reconcileDue, heard>>
  BY BackgroundFacts DEF SettleCall, settlesOnce
<1>2. /\ b \in BackgroundCalls /\ ~b.runs
      /\ c \in Owned => Agreed(b, heard[c]) /\ b.record = "pending"
  <2>1. background[c] \in BackgroundCalls /\ (c \in Owned => OutcomeKept(background[c], heard[c]))
    BY BackgroundFacts
  <2> QED  BY <1>1, <2>1 DEF BackgroundCalls, OutcomeKept, Agreed
<1>3. background' = [d \in Calls |-> f[d]]
  BY <1>1
<1> HIDE DEF b
<1>4. heard \in [Calls -> Heard]
  BY BackgroundFacts
<1>5. /\ settledCall(c, b, outcome, saved) \in BackgroundCalls
      /\ c \in Owned => OutcomeKept(settledCall(c, b, outcome, saved), heard[c])
  BY <1>2, <1>4, SettledCallIsKept
<1>6. /\ \A d \in Calls : f[d] \in BackgroundCalls
      /\ \A d \in Owned : OutcomeKept(f[d], heard[d])
  BY <1>5, BackgroundFacts
<1> HIDE DEF f
<1> QED  BY <1>1, <1>3, <1>6, BackgroundFacts, BackgroundStep

LEMMA SweepKeepsBackground ==
    ASSUME BackgroundInv, NEW due \in SUBSET ToSet(store), NEW old \in SUBSET ToSet(store),
           NEW saved \in SUBSET due, Sweep(due, saved, old)
    PROVE  BackgroundInv'
<1> DEFINE f == [c \in Calls |->
          IF c \in due THEN settledCall(c, background[c], background[c].deferred, c \in saved)
          ELSE IF c \in old THEN forgotten(background[c]) ELSE background[c]]
<1>1. /\ \A c \in due : background[c].deferred # "none"
      /\ \A c \in old : background[c].record # "pending"
      /\ background' = [c \in Calls |-> f[c]] /\ store' = without(store, old)
      /\ UNCHANGED <<processes, reconcileDue, heard>>
  BY DEF Sweep, finishedRecord
<1>2. store' \in Seq(Calls)
  BY <1>1, BackgroundFacts, KeptRange DEF without
<1>3. ASSUME NEW c \in Calls
      PROVE  f[c] \in BackgroundCalls /\ (c \in Owned => OutcomeKept(f[c], heard[c]))
  <2>1. /\ background[c] \in BackgroundCalls /\ heard[c] \in Heard
        /\ c \in Owned => OutcomeKept(background[c], heard[c])
    BY BackgroundFacts
  <2>2. CASE c \in due
    <3>1. background[c].deferred \in Outcomes /\ background[c].runs \in BOOLEAN
      BY <1>1, <2>1, <2>2 DEF BackgroundCalls
    <3>2. c \in Owned => background[c].record = "pending"
      BY <1>1, <2>1, <2>2 DEF OutcomeKept, Agreed
    <3> DEFINE sure == c \in saved
               b == background[c]
    <3>3. sure \in BOOLEAN /\ f[c] = settledCall(c, b, b.deferred, sure)
      BY <2>2
    <3>4. b \in BackgroundCalls /\ b.deferred \in Outcomes
      BY <2>1, <3>1
    <3>5. c \in Owned => Agreed(b, heard[c]) /\ ~b.runs /\ b.record = "pending"
      BY <1>1, <2>1, <2>2, <3>2 DEF OutcomeKept
    <3> HIDE DEF sure, b, f
    <3> QED  BY <2>1, <3>3, <3>4, <3>5, SettledCallIsKept
  <2>3. CASE c \notin due
    BY <1>1, <2>1, <2>3, ForgottenIsKept
  <2> QED  BY <2>2, <2>3
<1>4. /\ \A c \in Calls : f[c] \in BackgroundCalls
      /\ \A c \in Owned : OutcomeKept(f[c], heard[c])
  BY <1>3, BackgroundFacts
<1> HIDE DEF f
<1> QED  BY <1>1, <1>2, <1>4, BackgroundFacts, BackgroundStep

\* What the owner is told is what the row says, and what is left of it says
\* nothing else.
LEMMA ReadResultKeepsBackground ==
    ASSUME BackgroundInv, NEW c \in Calls, NEW consume \in BOOLEAN, ReadResult(c, consume)
    PROVE  BackgroundInv'
<1> DEFINE b == background[c]
           read == IF c \in Owned /\ ~exists(b) THEN [forgotten(b) EXCEPT !.deferred = "none", !.tries = 0]
                   ELSE IF ~consume \/ readable(c) \in {"none", "pending"} THEN b
                   ELSE [forgotten(b) EXCEPT !.row = IF @ = "pending" THEN @ ELSE "none"]
           told2 == IF readable(c) \in {"done", "error", "interrupted"} THEN readable(c) ELSE heard[c]
<1>1. /\ background' = [background EXCEPT ![c] = read]
      /\ store' = IF read.record = "none" THEN without(store, {c}) ELSE store
      /\ heard' = [heard EXCEPT ![c] = told2]
      /\ UNCHANGED <<processes, reconcileDue>>
  BY BackgroundFacts DEF ReadResult
<1>2. b \in BackgroundCalls /\ heard[c] \in Heard /\ (c \in Owned => OutcomeKept(b, heard[c]))
  BY BackgroundFacts
<1>3. store' \in Seq(Calls)
  BY <1>1, BackgroundFacts, KeptRange DEF without
<1>4. told2 \in Heard
  BY <1>2 DEF Heard, Outcomes
<1>5. readable(c) = IF c \notin Owned THEN b.record
                    ELSE IF ~exists(b) THEN "none"
                    ELSE IF b.record # "none" THEN b.record ELSE b.row
  BY DEF readable
<1> HIDE DEF b
<1>6. read \in BackgroundCalls
  <2>1. [forgotten(b) EXCEPT !.deferred = "none", !.tries = 0] \in BackgroundCalls
    <3>1. 0 \in 0..MaxTries
      BY BackgroundAssumption
    <3> QED  BY <1>2, <3>1, ForgottenIsKept DEF BackgroundCalls
  <2>2. [forgotten(b) EXCEPT !.row = IF @ = "pending" THEN @ ELSE "none"] \in BackgroundCalls
    <3>1. PICK row \in {"none", "pending"} : row = IF forgotten(b).row = "pending" THEN "pending" ELSE "none"
      OBVIOUS
    <3>2. [forgotten(b) EXCEPT !.row = IF @ = "pending" THEN @ ELSE "none"]
             = [forgotten(b) EXCEPT !.row = row]
      BY <3>1
    <3> QED  BY <1>2, <3>2, ForgottenIsKept DEF BackgroundCalls
  <2> QED  BY <1>2, <2>1, <2>2
<1>7. ASSUME c \in Owned
      PROVE  OutcomeKept(read, told2)
  <2>1. CASE ~exists(b)
    <3>1. told2 = heard[c] /\ read = [forgotten(b) EXCEPT !.deferred = "none", !.tries = 0]
      BY <1>5, <1>7, <2>1
    <3>2. b.runs = FALSE /\ b.record # "pending"
      BY <1>2, <1>7, <2>1 DEF exists, OutcomeKept, Agreed, BackgroundCalls
    <3> QED  BY <1>2, <1>7, <3>1, <3>2 DEF OutcomeKept, Agreed, forgotten, BackgroundCalls, Outcomes, Heard
  <2>2. CASE exists(b)
    <3>1. readable(c) = IF b.record # "none" THEN b.record ELSE b.row
      BY <1>5, <1>7, <2>2
    <3>2. b.row # "none" /\ OutcomeKept(b, told2)
      <4>1. b.row # "none" /\ OutcomeKept(b, heard[c])
        BY <1>2, <1>7, <2>2 DEF exists
      <4>2. CASE told2 = heard[c]
        BY <4>1, <4>2
      <4>3. CASE told2 = readable(c) /\ readable(c) \in {"done", "error", "interrupted"}
        <5>1. b.record \in {"none"} \cup Outcomes /\ told2 # "nothing"
          BY <1>2, <3>1, <4>3 DEF BackgroundCalls, Outcomes
        <5>2. b.operation # "none"
          BY <4>1 DEF OutcomeKept, Agreed
        <5> QED  BY <4>1, <4>3, <5>1, <5>2, <3>1 DEF OutcomeKept, Agreed, Outcomes
      <4> QED  BY <4>2, <4>3
    <3>3. CASE read = b
      BY <3>2, <3>3
    <3>4. CASE /\ readable(c) \notin {"none", "pending"}
               /\ read = [forgotten(b) EXCEPT !.row = IF @ = "pending" THEN @ ELSE "none"]
      <4>1. b.record # "pending"
        BY <3>1, <3>4
      <4>2. OutcomeKept(forgotten(b), told2)
        BY <1>2, <1>4, <3>2, <4>1, ForgottenIsKept
      <4>3. forgotten(b) \in BackgroundCalls
        BY <1>2, ForgottenIsKept
      <4>4. read.runs = forgotten(b).runs /\ read.record = "none" /\ forgotten(b).record = "none" /\ read.deferred = forgotten(b).deferred
            /\ read.operation = forgotten(b).operation
            /\ read.row = IF forgotten(b).row = "pending" THEN "pending" ELSE "none"
        BY <1>2, <3>4 DEF forgotten, BackgroundCalls
      <4> QED  BY <4>2, <4>4 DEF OutcomeKept, Agreed, Outcomes
    <3> QED  BY <2>2, <3>3, <3>4
  <2> QED  BY <2>1, <2>2
<1> HIDE DEF read, told2
<1>8. BackgroundTypeOK'
  BY <1>1, <1>3, <1>4, <1>6, BackgroundFacts DEF BackgroundTypeOK, Heard
<1>9. \A d \in Owned : OutcomeKept(background'[d], heard'[d])
  BY <1>1, <1>7, BackgroundFacts
<1> QED  BY <1>8, <1>9 DEF BackgroundInv

LEMMA ResultExpiresKeepsBackground ==
    ASSUME BackgroundInv, NEW c \in Owned, ResultExpires(c)
    PROVE  BackgroundInv'
<1> DEFINE b == background[c]
           f == [d \in Calls |-> IF d = c THEN [b EXCEPT !.expired = TRUE] ELSE background[d]]
<1>1. /\ ~b.runs /\ b.deferred = "none" /\ background' = [d \in Calls |-> f[d]] /\ c \in Calls
      /\ UNCHANGED <<store, processes, reconcileDue, heard>>
  BY BackgroundFacts DEF ResultExpires
<1>2. b \in BackgroundCalls /\ OutcomeKept(b, heard[c])
  BY BackgroundFacts
<1> HIDE DEF b
<1>3. /\ [b EXCEPT !.expired = TRUE] \in BackgroundCalls
      /\ OutcomeKept([b EXCEPT !.expired = TRUE], heard[c])
  BY <1>1, <1>2 DEF BackgroundCalls, OutcomeKept, Agreed
<1>4. /\ \A d \in Calls : f[d] \in BackgroundCalls
      /\ \A d \in Owned : OutcomeKept(f[d], heard[d])
  BY <1>3, BackgroundFacts
<1> HIDE DEF f
<1> QED  BY <1>1, <1>4, BackgroundFacts, BackgroundStep

LEMMA EndProcessKeepsBackground ==
    ASSUME BackgroundInv, EndProcess
    PROVE  BackgroundInv'
<1> DEFINE f == [c \in Calls |->
          [background[c] EXCEPT !.runs = FALSE, !.record = "none", !.deferred = "none",
                                !.tries = 0, !.mine = FALSE]]
<1>1. /\ background' = [c \in Calls |-> f[c]] /\ store' = <<>> /\ reconcileDue' \in BOOLEAN
      /\ heard' = heard /\ processes' = processes + 1 /\ processes < MaxProcesses
  BY DEF EndProcess
<1>2. ASSUME NEW c \in Calls
      PROVE  f[c] \in BackgroundCalls /\ (c \in Owned => OutcomeKept(f[c], heard[c]))
  <2> DEFINE b == background[c]
  <2>1. b \in BackgroundCalls /\ (c \in Owned => OutcomeKept(b, heard[c])) /\ 0 \in 0..MaxTries
    BY BackgroundFacts, BackgroundAssumption
  <2> DEFINE x == [b EXCEPT !.runs = FALSE, !.record = "none", !.deferred = "none", !.tries = 0, !.mine = FALSE]
  <2>2. f[c] = x
    OBVIOUS
  <2> HIDE DEF b, f
  <2>3. /\ x \in BackgroundCalls /\ ~x.runs /\ x.record = "none" /\ x.deferred = "none"
        /\ x.tries = 0 /\ ~x.mine
    BY <2>1 DEF BackgroundCalls
  <2>4. x.operation = b.operation /\ x.row = b.row /\ x.expired = b.expired
    BY <2>1 DEF BackgroundCalls
  <2> HIDE DEF x
  <2>5. OutcomeKept(b, heard[c]) => OutcomeKept(x, heard[c])
    BY <2>3, <2>4 DEF OutcomeKept, Agreed, Outcomes
  <2> QED  BY <2>1, <2>2, <2>3, <2>5
<1>3. /\ \A c \in Calls : f[c] \in BackgroundCalls
      /\ \A c \in Owned : OutcomeKept(f[c], heard[c])
  BY <1>2, BackgroundFacts
<1>4. store' \in Seq(Calls)
  <2>1. <<>> \in Seq(Calls)
    OBVIOUS
  <2> QED  BY <1>1, <2>1, Zenon
<1>5. processes' \in 1..MaxProcesses
  <2>1. processes \in 1..MaxProcesses
    BY BackgroundFacts
  <2>2. MaxProcesses \in Nat
    BY BackgroundAssumption
  <2> HIDE DEF f
  <2>3. processes' = processes + 1 /\ processes < MaxProcesses
    BY <1>1
  <2> QED  BY <2>1, <2>2, <2>3
<1> HIDE DEF f
<1> QED  BY <1>1, <1>3, <1>4, <1>5, BackgroundStep

\* What another process left pending has nobody waiting for it.
LEMMA ReconcileResultsKeepsBackground ==
    ASSUME BackgroundInv, NEW through \in SUBSET Calls, NEW all \in BOOLEAN,
           ReconcileResults(through, all)
    PROVE  BackgroundInv'
<1> DEFINE close(c) == IF c \in through THEN [background[c] EXCEPT !.operation = "concluded"]
                       ELSE background[c]
           over(b) == IF b.mine THEN b ELSE interrupted(b)
           finish(b) == IF over(b).expired THEN [over(b) EXCEPT !.row = "none"] ELSE over(b)
           f == [c \in Calls |-> IF all THEN finish(close(c)) ELSE close(c)]
<1>1. /\ \A c \in through : background[c].operation = "accepted" /\ ~background[c].mine
      /\ background' = [c \in Calls |-> f[c]] /\ reconcileDue' = FALSE
      /\ UNCHANGED <<store, processes, heard>>
  BY DEF ReconcileResults, Abandoned
<1>2. ASSUME NEW b \in BackgroundCalls
      PROVE  /\ finish(b) \in BackgroundCalls
             /\ \A h \in Heard : OutcomeKept(b, h) => OutcomeKept(finish(b), h)
  <2>1. /\ over(b) \in BackgroundCalls
        /\ \A h \in Heard : OutcomeKept(b, h) => OutcomeKept(over(b), h)
    <3>1. CASE over(b) = b
      BY <3>1
    <3>2. CASE ~b.mine /\ b.row = "pending" /\ over(b) = [b EXCEPT !.row = "interrupted", !.expired = FALSE]
      <4> DEFINE x == [b EXCEPT !.row = "interrupted", !.expired = FALSE]
      <4>1. x \in BackgroundCalls
        BY DEF BackgroundCalls
      <4>2. \A h \in Heard : OutcomeKept(b, h) => OutcomeKept(x, h)
        BY <3>2 DEF BackgroundCalls, OutcomeKept, Agreed, Outcomes, Heard
      <4> QED  BY <3>2, <4>1, <4>2
    <3> QED  BY <3>1, <3>2 DEF interrupted
  <2> DEFINE g == over(b)
  <2> HIDE DEF over
  <2>2. [g EXCEPT !.row = "none"] \in BackgroundCalls
    BY <2>1 DEF BackgroundCalls
  <2>3. g.expired => \A h \in Heard : OutcomeKept(g, h) => OutcomeKept([g EXCEPT !.row = "none"], h)
    BY <2>1 DEF BackgroundCalls, OutcomeKept, Agreed
  <2> QED  BY <2>1, <2>2, <2>3
<1>3. ASSUME NEW c \in Calls
      PROVE  close(c) \in BackgroundCalls /\ (c \in Owned => OutcomeKept(close(c), heard[c]))
  <2> DEFINE b == background[c]
  <2>1. b \in BackgroundCalls /\ (c \in Owned => OutcomeKept(b, heard[c]))
    BY BackgroundFacts
  <2>2. c \in through => b.operation = "accepted" /\ ~b.mine
    BY <1>1
  <2>3. close(c) = IF c \in through THEN [b EXCEPT !.operation = "concluded"] ELSE b
    OBVIOUS
  <2> HIDE DEF b, close
  <2>4. CASE c \in through
    <3>1. [b EXCEPT !.operation = "concluded"] \in BackgroundCalls
      BY <2>1 DEF BackgroundCalls
    <3>2. c \in Owned => OutcomeKept([b EXCEPT !.operation = "concluded"], heard[c])
      BY <2>1, <2>2, <2>4 DEF BackgroundCalls, OutcomeKept, Agreed
    <3> QED  BY <2>3, <2>4, <3>1, <3>2
  <2> QED  BY <2>1, <2>3, <2>4
<1> HIDE DEF finish
<1>4. /\ \A c \in Calls : f[c] \in BackgroundCalls
      /\ \A c \in Owned : OutcomeKept(f[c], heard[c])
  BY <1>2, <1>3, BackgroundFacts
<1> HIDE DEF f
<1> QED  BY <1>1, <1>4, BackgroundFacts, BackgroundStep

LEMMA BackgroundInvHolds == BackgroundSpec => []BackgroundInv
<1>1. BackgroundInit => BackgroundInv
  <2> SUFFICES ASSUME BackgroundInit PROVE BackgroundInv
    OBVIOUS
  <2>1. /\ background = [c \in Calls |-> NotCalled] /\ store = <<>> /\ processes = 1
        /\ reconcileDue = FALSE /\ heard = [c \in Calls |-> "nothing"]
        /\ 1 \in 1..MaxProcesses /\ Owned \subseteq Calls
    BY BackgroundAssumption DEF BackgroundInit
  <2>2. NotCalled \in BackgroundCalls /\ OutcomeKept(NotCalled, "nothing")
    BY NotCalledIsKept DEF NotCalled, OutcomeKept, Agreed, Outcomes
  <2>3. <<>> \in Seq(Calls)
    OBVIOUS
  <2>4. store \in Seq(Calls)
    BY <2>1, <2>3, Zenon
  <2>5. BackgroundTypeOK
    BY <2>1, <2>2, <2>4 DEF BackgroundTypeOK
  <2>6. \A c \in Owned : OutcomeKept(background[c], heard[c])
    BY <2>1, <2>2
  <2> QED  BY <2>5, <2>6 DEF BackgroundInv
<1>2. BackgroundInv /\ [BackgroundNext]_backgroundVars => BackgroundInv'
  <2> SUFFICES ASSUME BackgroundInv, [BackgroundNext]_backgroundVars PROVE BackgroundInv'
    OBVIOUS
  <2>1. CASE UNCHANGED backgroundVars
    <3>1. UNCHANGED <<background, store, processes, reconcileDue, heard>>
      BY <2>1 DEF backgroundVars
    <3>2. BackgroundTypeOK'
      BY <3>1 DEF BackgroundInv, BackgroundTypeOK
    <3>3. \A c \in Owned : OutcomeKept(background'[c], heard'[c])
      BY <3>1, BackgroundFacts
    <3> QED  BY <3>2, <3>3 DEF BackgroundInv
  <2>2. ASSUME NEW c \in Calls, NEW begins \in BOOLEAN, StartCall(c, begins)
        PROVE  BackgroundInv'
    BY <2>2, StartCallKeepsBackground
  <2>3. ASSUME NEW c \in Calls, NEW outcome \in Outcomes, NEW saved \in BOOLEAN,
               SettleCall(c, outcome, saved)
        PROVE  BackgroundInv'
    BY <2>3, SettleCallKeepsBackground
  <2>4. ASSUME NEW due \in SUBSET ToSet(store), NEW old \in SUBSET ToSet(store),
               NEW saved \in SUBSET due, Sweep(due, saved, old)
        PROVE  BackgroundInv'
    BY <2>4, SweepKeepsBackground
  <2>5. ASSUME NEW c \in Calls, NEW consume \in BOOLEAN, ReadResult(c, consume)
        PROVE  BackgroundInv'
    BY <2>5, ReadResultKeepsBackground
  <2>6. ASSUME NEW c \in Owned, ResultExpires(c)
        PROVE  BackgroundInv'
    BY <2>6, ResultExpiresKeepsBackground
  <2>7. ASSUME NEW through \in SUBSET Calls, NEW all \in BOOLEAN, ReconcileResults(through, all)
        PROVE  BackgroundInv'
    BY <2>7, ReconcileResultsKeepsBackground
  <2> QED  BY <2>1, <2>2, <2>3, <2>4, <2>5, <2>6, <2>7, EndProcessKeepsBackground DEF BackgroundNext
<1> QED  BY <1>1, <1>2, PTL DEF BackgroundSpec

\* Background calls and the store of results have their types.
THEOREM BackgroundIsTyped == BackgroundSpec => []BackgroundTypeOK
<1>1. BackgroundInv => BackgroundTypeOK
  BY DEF BackgroundInv
<1> QED  BY <1>1, BackgroundInvHolds, PTL

\* What an owner was told of a background call stays so, whatever the number
\* of calls and owners, the limits of the store and of the attempts, and the
\* number of restarts (settleAsyncResult, enforceCap, sweepExpired,
\* interruptBackgroundResults).
THEOREM BackgroundOutcomesAreKept == BackgroundSpec => []OutcomesAreKept
<1>1. BackgroundInv => OutcomesAreKept
  <2> SUFFICES ASSUME BackgroundInv, NEW c \in Owned
               PROVE  /\ heard[c] # "nothing" => readable(c) \in {heard[c], "none"}
                      /\ background[c].deferred # "none" =>
                           /\ background[c].record = "pending" /\ background[c].row = "pending"
                           /\ background[c].operation = "accepted"
    BY DEF OutcomesAreKept
  <2>1. OutcomeKept(background[c], heard[c])
    BY BackgroundFacts
  <2> QED  BY <2>1 DEF OutcomeKept, Agreed, readable
<1> QED  BY <1>1, BackgroundInvHolds, PTL

----------------------------------------------------------------------------
(* WorkflowRuns. The strengthening says where a host call can be in flight *)
(* (only in the live owner of the row, at the row's step) and which writes *)
(* have not been called yet.                                               *)

\* A row of the table: only a completed run is past its last step.
RowOK(r) == r \in Rows /\ (r.phase # "completed" => r.next \in Indices)

\* A host call is in flight only in the live owner of the row, and for the row's
\* step; while its advance() waits, the row is running.
CallsAtRow ==
    \A p \in Procs :
        /\ advancing[p] => calling[p] # 0 /\ run.phase = "running"
        /\ calling[p] # 0 =>
            /\ live(p) /\ run.owner = p /\ calling[p] = run.next
            /\ run.phase \in {"running", "uncertain", "failed", "cancelled"}

\* s is a write, and the host has not been called for it.
uncalledIfWrite(s) == Plan[s] = "write" => calls[s] = 0

\* A write is called once at most, and not before the run is past "ready" there.
CallsOnce ==
    \A s \in Indices :
        /\ Plan[s] = "write" => calls[s] <= 1
        /\ s > run.next \/ (s = run.next /\ run.phase = "ready") => uncalledIfWrite(s)

\* An observation that is not outdated is of the row's step.
FreshAtRow == \A o \in observing : o.fresh => o.step = run.next

WorkflowInv ==
    /\ WorkflowTypeOK /\ RowOK(run)
    /\ CallsAtRow /\ CallsOnce /\ FreshAtRow /\ EvidenceIsOwn

----------------------------------------------------------------------------
(* The decisions of the coordinator.                                       *)

LEMMA PlanFacts ==
    /\ Len(Plan) \in Nat \ {0}
    /\ \A s \in Indices : Plan[s] \in {"write", "read", "choice"}
    /\ \A s \in Indices : maxAttempts(s) \in 1..3
    /\ \A s \in Indices : Plan[s] # "read" => maxAttempts(s) = 1
  BY WorkflowAssumption DEF WorkflowAssumption, Indices, maxAttempts

\* done() moves on by one step, and completes the run after the last.
LEMMA DoneRow ==
    ASSUME NEW r, RowOK(r), r.phase # "completed"
    PROVE  /\ RowOK(done(r))
           /\ done(r).next = r.next + 1 /\ done(r).owner = r.owner
           /\ done(r).phase \in {"ready", "completed"}
<1> DEFINE n == r.next + 1
           ph == IF r.next = Len(Plan) THEN "completed" ELSE "ready"
<1>1. r \in Rows /\ n \in 1..Len(Plan) + 1 /\ ph \in {"ready", "completed"}
      /\ (ph # "completed" => n \in Indices)
  BY PlanFacts DEF RowOK, Indices
<1>2. done(r) = [r EXCEPT !.next = n, !.attempts = 0, !.phase = ph]
  BY DEF done
<1> HIDE DEF n, ph
<1>3. done(r) \in Rows /\ done(r).next = n /\ done(r).owner = r.owner /\ done(r).phase = ph
  <2>1. ph \in Phases /\ 0 \in 0..3
    BY <1>1 DEF Phases
  <2>2. done(r) \in Rows
    BY <1>1, <1>2, <2>1 DEF Rows
  <2>3. done(r).next = n /\ done(r).owner = r.owner /\ done(r).phase = ph
    BY <1>1, <1>2 DEF Rows
  <2> QED  BY <2>2, <2>3
<1> QED  BY <1>1, <1>3 DEF RowOK, n

\* The loop of advance() never leaves a ready row and stays at its step.
LEMMA EnteredRow ==
    ASSUME NEW r, RowOK(r), r.phase = "ready", NEW s \in entered(r)
    PROVE  /\ RowOK(s)
           /\ s.next = r.next
           /\ s.phase \in {"failed", "waiting", "running"}
<1>1. r.next \in Indices /\ maxAttempts(r.next) \in 1..3 /\ r \in Rows
  BY PlanFacts DEF RowOK
<1>2. CASE s = [r EXCEPT !.phase = "failed"]
  BY <1>1, <1>2 DEF RowOK, Rows, Phases
<1>3. CASE s = [r EXCEPT !.phase = "waiting"]
  BY <1>1, <1>3 DEF RowOK, Rows, Phases
<1>4. CASE r.attempts < maxAttempts(r.next)
           /\ s = [r EXCEPT !.phase = "running", !.attempts = @ + 1]
  <2>1. r.attempts + 1 \in 0..3
    BY <1>1, <1>4 DEF Rows
  <2> QED  BY <1>1, <1>4, <2>1 DEF RowOK, Rows, Phases
<1>5. r.attempts \in 0..3
  BY <1>1 DEF Rows
<1> QED
  BY <1>1, <1>2, <1>3, <1>4, <1>5 DEF entered

\* A result moves on only when the host gave an output; otherwise the step stays,
\* and may be tried again only when it is a read.
LEMMA ResultRow ==
    ASSUME NEW r, RowOK(r), r.phase = "running", NEW result \in Results
    PROVE  LET n == resulting(r, result)
           IN  /\ RowOK(n)
               /\ n.phase \in {"ready", "completed", "failed", "uncertain"}
               /\ \/ n.next = r.next + 1
                  \/ n.next = r.next /\ (n.phase = "ready" => Plan[n.next] # "write")
<1>1. r.next \in Indices /\ r \in Rows /\ r.retries \in Nat /\ MaxRetries \in Nat
  BY WorkflowAssumption DEF RowOK, Rows, WorkflowAssumption
<1>2. CASE result = "output"
  BY <1>2, DoneRow DEF resulting
<1>3. CASE result = "denied"
  BY <1>1, <1>3 DEF resulting, RowOK, Rows, Phases
<1>4. CASE result = "unknown"
  BY <1>1, <1>4 DEF resulting, unsettledPhase, RowOK, Rows, Phases
<1>5. CASE result \in {"invalid", "retryable"}
  <2>1. CASE /\ Plan[r.next] = "read" /\ r.retries < MaxRetries
             /\ resulting(r, result) = [r EXCEPT !.phase = "ready", !.retries = @ + 1]
    <3>1. r.retries + 1 \in 0..MaxRetries
      BY <1>1, <2>1
    <3> QED  BY <1>1, <2>1, <3>1 DEF RowOK, Rows, Phases
  <2>2. CASE resulting(r, result) = unsettledPhase(r, "failed")
    BY <1>1, <2>2 DEF unsettledPhase, RowOK, Rows, Phases
  <2> QED  BY <1>5, <2>1, <2>2 DEF resulting
<1> QED  BY <1>2, <1>3, <1>4, <1>5 DEF Results

\* A row whose owner died is tried again only when its step is no write.
LEMMA RecoveredRow ==
    ASSUME NEW r, RowOK(r), r.phase = "running"
    PROVE  /\ RowOK(recovered(r))
           /\ recovered(r).next = r.next
           /\ recovered(r).phase \in {"ready", "failed", "uncertain"}
           /\ recovered(r).phase = "ready" => Plan[r.next] # "write"
<1>1. r.next \in Indices /\ r \in Rows /\ r.retries \in Nat /\ MaxRetries \in Nat
  BY WorkflowAssumption DEF RowOK, Rows, WorkflowAssumption
<1>2. CASE recovered(r) = [r EXCEPT !.phase = "uncertain"]
  BY <1>1, <1>2 DEF RowOK, Rows, Phases
<1>3. CASE /\ Plan[r.next] # "write" /\ r.retries < MaxRetries
           /\ recovered(r) = [r EXCEPT !.phase = "ready", !.retries = @ + 1]
  <2>1. r.retries + 1 \in 0..MaxRetries
    BY <1>1, <1>3
  <2> QED  BY <1>1, <1>3, <2>1 DEF RowOK, Rows, Phases
<1>4. CASE recovered(r) = [r EXCEPT !.phase = "failed"]
  BY <1>1, <1>4 DEF RowOK, Rows, Phases
<1> QED  BY <1>2, <1>3, <1>4 DEF recovered
----------------------------------------------------------------------------
(* Steps.                                                                  *)

\* Outdating keeps the observations of their type, and leaves none fresh.
LEMMA OutdatedObservations ==
    ASSUME WorkflowInv
    PROVE  outdated \subseteq Observations /\ \A o \in outdated : ~o.fresh
  BY DEF WorkflowInv, WorkflowTypeOK, outdated, Observations

\* A step that saves a row of no running step, with no call in flight anywhere
\* but in its owner, and does not touch the calls.
LEMMA SaveKeeps ==
    ASSUME WorkflowInv, NEW r, RowOK(r), run' = r,
           observing' \subseteq outdated, calls' = calls, crashed' = crashed,
           advancing' \in [Procs -> BOOLEAN],
           \A p \in Procs : advancing'[p] => advancing[p] /\ r.phase = "running",
           calling' = calling,
           \A p \in Procs : calling[p] # 0 =>
              /\ r.owner = run.owner /\ r.next = run.next
              /\ r.phase \in {"running", "uncertain", "failed", "cancelled"},
           \/ /\ r.next = run.next
              /\ r.phase = "ready" => run.phase = "ready" \/ Plan[r.next] # "write"
           \/ r.next = run.next + 1,
           evidence' \in [Indices -> 0..Len(Plan)], EvidenceIsOwn'
    PROVE  WorkflowInv'
<1>1. WorkflowTypeOK' /\ RowOK(run')
  BY OutdatedObservations DEF WorkflowInv, WorkflowTypeOK, RowOK
<1>2. CallsAtRow'
  BY DEF WorkflowInv, CallsAtRow, live
<1>3. CallsOnce'
  BY DEF WorkflowInv, CallsOnce, uncalledIfWrite, RowOK, Rows, Indices, WorkflowTypeOK
<1>4. FreshAtRow'
  BY OutdatedObservations DEF FreshAtRow
<1> QED  BY <1>1, <1>2, <1>3, <1>4 DEF WorkflowInv, RowOK, Rows, Indices, Phases

\* proceed(): the host is called only for the step of a row that was ready.
LEMMA ProceedKeeps ==
    ASSUME WorkflowInv, NEW p \in Procs, live(p), NEW r, RowOK(r),
           r.phase \in {"ready", "completed", "failed", "uncertain"},
           \A q \in Procs \ {p} : calling[q] = 0,
           \/ /\ r.next = run.next
              /\ r.phase = "ready" => run.phase = "ready" \/ Plan[r.next] # "write"
           \/ r.next = run.next + 1,
           proceed(p, r), crashed' = crashed,
           evidence' \in [Indices -> 0..Len(Plan)], EvidenceIsOwn'
    PROVE  WorkflowInv'
<1>1. PICK s \in (IF r.phase = "ready" THEN entered(r) ELSE {r}) :
          /\ run' = [s EXCEPT !.owner = p]
          /\ advancing' = [advancing EXCEPT ![p] = s.phase = "running"]
          /\ calling' = [calling EXCEPT ![p] = IF s.phase = "running" THEN s.next ELSE 0]
          /\ calls' = IF s.phase = "running"
                      THEN [calls EXCEPT ![s.next] = IF @ < 2 THEN @ + 1 ELSE 2]
                      ELSE calls
          /\ observing' = outdated
  BY DEF proceed
<1>2. /\ RowOK(s) /\ s.next = r.next /\ s.phase # "ready"
      /\ s.phase = "running" => r.phase = "ready"
  BY EnteredRow
<1>3. /\ RowOK(run') /\ run'.next = s.next /\ run'.phase = s.phase /\ run'.owner = p
  BY <1>1, <1>2 DEF RowOK, Rows
<1>4. WorkflowTypeOK'
  <2>1. s.phase = "running" => s.next \in Indices
    BY <1>2 DEF RowOK
  <2>2. calls' \in [Indices -> 0..2]
    <3>1. calls \in [Indices -> 0..2]
      BY DEF WorkflowInv, WorkflowTypeOK
    <3>2. CASE s.phase = "running"
      <4>1. calls[s.next] \in 0..2
        BY <2>1, <3>1, <3>2
      <4>2. (IF calls[s.next] < 2 THEN calls[s.next] + 1 ELSE 2) \in 0..2
        BY <4>1
      <4> QED  BY <1>1, <3>1, <3>2, <4>2
    <3> QED  BY <1>1, <3>1, <3>2
  <2>3. calling' \in [Procs -> 0..Len(Plan)] /\ advancing' \in [Procs -> BOOLEAN]
    BY <1>1, <2>1, PlanFacts DEF WorkflowInv, WorkflowTypeOK, Indices
  <2> QED
    BY <1>1, <1>3, <2>2, <2>3, OutdatedObservations DEF WorkflowInv, WorkflowTypeOK, RowOK
<1>5. CallsAtRow'
  <2> SUFFICES ASSUME NEW q \in Procs
               PROVE  /\ advancing'[q] => calling'[q] # 0 /\ run'.phase = "running"
                      /\ calling'[q] # 0 =>
                          /\ live(q)' /\ run'.owner = q /\ calling'[q] = run'.next
                          /\ run'.phase \in {"running", "uncertain", "failed", "cancelled"}
    BY DEF CallsAtRow
  <2>1. CASE q = p
    <3>1. advancing'[p] = (s.phase = "running")
          /\ calling'[p] = IF s.phase = "running" THEN s.next ELSE 0
      BY <1>1 DEF WorkflowInv, WorkflowTypeOK
    <3>2. s.phase = "running" => s.next # 0
      BY <1>2 DEF RowOK, Indices
    <3> QED  BY <1>3, <2>1, <3>1, <3>2 DEF live
  <2>2. CASE q # p
    BY <1>1, <2>2 DEF WorkflowInv, WorkflowTypeOK, CallsAtRow
  <2> QED  BY <2>1, <2>2
<1>6. CallsOnce'
  <2> SUFFICES ASSUME NEW t \in Indices, Plan[t] = "write"
               PROVE  calls'[t] <= 1 /\ (t > run'.next => calls'[t] = 0)
    BY <1>2, <1>3 DEF CallsOnce, uncalledIfWrite
  <2>1. /\ calls[t] \in 0..2 /\ calls[t] <= 1
        /\ t > run.next \/ (t = run.next /\ run.phase = "ready") => calls[t] = 0
    BY DEF WorkflowInv, WorkflowTypeOK, CallsOnce, uncalledIfWrite
  <2>2. run.next \in Nat /\ r.next \in Nat /\ t \in Nat
    BY DEF WorkflowInv, WorkflowTypeOK, RowOK, Rows, Indices
  <2>3. CASE s.phase = "running" /\ t = s.next
    <3>1. calls[t] = 0
      BY <1>2, <2>1, <2>2, <2>3
    <3> QED  BY <1>1, <1>3, <2>3, <3>1, <2>2, <1>2 DEF WorkflowInv, WorkflowTypeOK
  <2>4. CASE ~(s.phase = "running" /\ t = s.next)
    <3>1. calls'[t] = calls[t]
      BY <1>1, <2>4 DEF WorkflowInv, WorkflowTypeOK
    <3> QED  BY <1>2, <1>3, <2>1, <2>2, <3>1
  <2> QED  BY <2>3, <2>4
<1>7. FreshAtRow'
  BY <1>1, OutdatedObservations DEF FreshAtRow
<1> QED  BY <1>3, <1>4, <1>5, <1>6, <1>7 DEF WorkflowInv

LEMMA WorkflowInitOK == WorkflowInit => WorkflowInv
<1> SUFFICES ASSUME WorkflowInit
             PROVE  WorkflowInv
  OBVIOUS
<1>1. PICK p \in Procs :
        run = [phase |-> "ready", next |-> 1, attempts |-> 0, retries |-> 0, owner |-> p]
  BY DEF WorkflowInit
<1>2. 0 \in 0..MaxRetries /\ 0 \in 0..3 /\ 1 \in Indices /\ 1 \in 1..Len(Plan) + 1
      /\ 0 \in 0..Len(Plan)
  BY WorkflowAssumption, PlanFacts DEF WorkflowAssumption, Indices
<1>3. RowOK(run)
  BY <1>1, <1>2 DEF RowOK, Rows, Phases
<1>4. WorkflowTypeOK
  BY <1>2, <1>3 DEF WorkflowInit, WorkflowTypeOK, RowOK, Observations
<1> QED
  BY <1>3, <1>4
     DEF WorkflowInit, WorkflowInv, CallsAtRow, CallsOnce, uncalledIfWrite, FreshAtRow,
         EvidenceIsOwn

\* The host's result for the step of a waiting advance(): it is the row's.
LEMMA HostReturnsKeeps ==
    ASSUME WorkflowInv, NEW p \in Procs, NEW result \in Results, HostReturns(p, result)
    PROVE  WorkflowInv'
<1>1. /\ live(p) /\ calling[p] # 0 /\ crashed' = crashed
      /\ run.owner = p /\ calling[p] = run.next /\ RowOK(run)
      /\ WorkflowTypeOK /\ EvidenceIsOwn
  BY DEF HostReturns, WorkflowInv, CallsAtRow
<1>2. CASE advancing[p]
  <2>1. /\ proceed(p, resulting(run, result)) /\ run.phase = "running"
        /\ evidence' = IF result = "output" THEN [evidence EXCEPT ![run.next] = calling[p]]
                       ELSE evidence
    BY <1>2 DEF HostReturns, WorkflowInv, CallsAtRow
  <2>2. evidence' \in [Indices -> 0..Len(Plan)] /\ EvidenceIsOwn'
    BY <1>1, <2>1 DEF WorkflowTypeOK, EvidenceIsOwn
  <2>3. \A q \in Procs \ {p} : calling[q] = 0
    BY <1>1 DEF WorkflowInv, CallsAtRow
  <2>4. LET n == resulting(run, result)
        IN  /\ RowOK(n)
            /\ n.phase \in {"ready", "completed", "failed", "uncertain"}
            /\ \/ n.next = run.next + 1
               \/ n.next = run.next /\ (n.phase = "ready" => Plan[n.next] # "write")
    BY <1>1, <2>1, ResultRow
  <2> QED  BY <1>1, <2>1, <2>2, <2>3, <2>4, ProceedKeeps
<1>3. CASE ~advancing[p]
  <2>1. /\ calling' = [calling EXCEPT ![p] = 0]
        /\ UNCHANGED <<run, advancing, observing, calls, evidence>>
    BY <1>3 DEF HostReturns
  <2>2. WorkflowTypeOK'
    BY <1>1, <2>1, PlanFacts DEF WorkflowTypeOK
  <2>3. CallsAtRow'
    BY <1>1, <1>3, <2>1 DEF WorkflowInv, CallsAtRow, WorkflowTypeOK, live
  <2> QED
    BY <1>1, <2>1, <2>2, <2>3
       DEF WorkflowInv, RowOK, CallsOnce, uncalledIfWrite, FreshAtRow, EvidenceIsOwn
<1> QED  BY <1>2, <1>3

\* The abort and the timeout: the row settles, the call may go on.
LEMMA InterruptKeeps ==
    ASSUME WorkflowInv, NEW p \in Procs, NEW aborted \in BOOLEAN, Interrupt(p, aborted)
    PROVE  WorkflowInv'
<1>1. /\ RowOK(run) /\ run.phase = "running" /\ run.next \in Indices
      /\ WorkflowTypeOK /\ EvidenceIsOwn
  BY DEF Interrupt, WorkflowInv, CallsAtRow, RowOK
<1> DEFINE r == unsettledPhase(run, IF aborted THEN "cancelled" ELSE "failed")
<1>2. /\ RowOK(r) /\ r.owner = run.owner /\ r.next = run.next
      /\ r.phase \in {"uncertain", "failed", "cancelled"}
  <2>1. PICK phase \in {"uncertain", "failed", "cancelled"} : r = [run EXCEPT !.phase = phase]
    BY DEF unsettledPhase
  <2> QED  BY <1>1, <2>1 DEF RowOK, Rows, Phases
<1>3. /\ run' = r /\ advancing' = [advancing EXCEPT ![p] = FALSE]
      /\ observing' = outdated
      /\ UNCHANGED <<crashed, calling, calls, evidence>>
  BY DEF Interrupt
<1> HIDE DEF r
<1>4. /\ advancing' \in [Procs -> BOOLEAN]
      /\ \A q \in Procs : ~advancing'[q]
  BY <1>1, <1>3 DEF WorkflowInv, WorkflowTypeOK, CallsAtRow, Interrupt
<1>5. evidence' \in [Indices -> 0..Len(Plan)] /\ EvidenceIsOwn'
  BY <1>1, <1>3 DEF WorkflowTypeOK, EvidenceIsOwn
<1> QED  BY <1>2, <1>3, <1>4, <1>5, SaveKeeps

\* A cancelled run leaves the call of its step where it is.
LEMMA CancelKeeps ==
    ASSUME WorkflowInv, NEW p \in Procs, Cancel(p)
    PROVE  WorkflowInv'
<1>1. /\ RowOK(run) /\ run.phase \notin Terminal /\ run.owner = p /\ run.next \in Indices
      /\ WorkflowTypeOK /\ EvidenceIsOwn
  BY DEF Cancel, WorkflowInv, RowOK, Terminal
<1>2. PICK phase \in {"uncertain", "cancelled"} : run' = [run EXCEPT !.phase = phase]
  BY DEF Cancel
<1>3. RowOK(run') /\ run'.owner = p /\ run'.next = run.next /\ run'.phase = phase
  BY <1>1, <1>2 DEF RowOK, Rows, Phases
<1>4. /\ advancing' = [advancing EXCEPT ![p] = FALSE] /\ observing' = outdated
      /\ UNCHANGED <<crashed, calling, calls, evidence>>
  BY DEF Cancel
<1>5. advancing' \in [Procs -> BOOLEAN] /\ \A q \in Procs : ~advancing'[q]
  BY <1>1, <1>4 DEF WorkflowInv, WorkflowTypeOK, CallsAtRow
<1>6. evidence' \in [Indices -> 0..Len(Plan)] /\ EvidenceIsOwn'
  BY <1>1, <1>4 DEF WorkflowTypeOK, EvidenceIsOwn
<1> QED  BY <1>1, <1>3, <1>4, <1>5, <1>6, SaveKeeps

\* A takeover: the owner is dead, so no call is in flight anywhere.
LEMMA TakeoverKeeps ==
    ASSUME WorkflowInv, NEW p \in Procs, Claim(p) \/ Recover(p)
    PROVE  WorkflowInv'
<1>1. RowOK(run) /\ ~live(run.owner) /\ WorkflowTypeOK /\ EvidenceIsOwn
  BY DEF Claim, Recover, WorkflowInv
<1>2. \A q \in Procs : calling[q] = 0 /\ ~advancing[q]
  BY <1>1 DEF WorkflowInv, CallsAtRow
<1>3. /\ observing' = outdated
      /\ UNCHANGED <<crashed, advancing, calling, calls, evidence>>
  BY DEF Claim, Recover
<1>4. evidence' \in [Indices -> 0..Len(Plan)] /\ EvidenceIsOwn' /\ advancing' \in [Procs -> BOOLEAN]
  BY <1>1, <1>3 DEF WorkflowTypeOK, EvidenceIsOwn
<1>5. CASE Claim(p)
  <2>1. RowOK(run') /\ run'.next = run.next /\ run'.phase = run.phase
    BY <1>1, <1>5 DEF Claim, RowOK, Rows
  <2> QED  BY <1>2, <1>3, <1>4, <2>1, SaveKeeps
<1>6. CASE Recover(p)
  <2>1. run.phase = "running" /\ run' = [recovered(run) EXCEPT !.owner = p]
    BY <1>6 DEF Recover
  <2>2. RowOK(recovered(run)) /\ recovered(run).next = run.next
        /\ (recovered(run).phase = "ready" => Plan[run.next] # "write")
    BY <1>1, <2>1, RecoveredRow
  <2>3. RowOK(run') /\ run'.next = run.next /\ run'.phase = recovered(run).phase
    BY <2>1, <2>2 DEF RowOK, Rows
  <2> QED  BY <1>2, <1>3, <1>4, <2>2, <2>3, SaveKeeps
<1> QED  BY <1>5, <1>6

\* The outcome that is stored for the row's step is its own: a choice's answer,
\* and a fresh observation, which is of that step.
LEMMA OutcomeKeeps ==
    ASSUME WorkflowInv, run.phase \in {"waiting", "uncertain"}, run' = done(run),
           \A p \in Procs : calling[p] = 0,
           evidence' = [evidence EXCEPT ![run.next] = run.next], observing' \subseteq outdated,
           UNCHANGED <<crashed, advancing, calling, calls>>
    PROVE  WorkflowInv'
<1>1. /\ RowOK(run) /\ run.phase # "completed" /\ run.next \in Indices
      /\ WorkflowTypeOK /\ EvidenceIsOwn
  BY DEF WorkflowInv, RowOK
<1>2. RowOK(run') /\ run'.next = run.next + 1
  BY <1>1, DoneRow
<1>3. evidence' \in [Indices -> 0..Len(Plan)] /\ EvidenceIsOwn'
  BY <1>1 DEF WorkflowTypeOK, EvidenceIsOwn, Indices
<1>4. advancing' \in [Procs -> BOOLEAN] /\ \A p \in Procs : ~advancing[p]
  BY <1>1 DEF WorkflowInv, WorkflowTypeOK, CallsAtRow
<1> QED  BY <1>2, <1>3, <1>4, SaveKeeps

LEMMA ObservedKeeps ==
    ASSUME WorkflowInv, NEW o \in observing, Observed(o)
    PROVE  WorkflowInv'
<1>1. o \in Observations /\ UNCHANGED <<crashed, advancing, calling, calls>>
  BY DEF WorkflowInv, WorkflowTypeOK, Observed
<1>2. CASE /\ accepted(o) /\ run' = done(run)
           /\ evidence' = [evidence EXCEPT ![run.next] = o.step]
           /\ observing' \in {outdated, outdated \ {[o EXCEPT !.fresh = FALSE]}}
  <2>1. /\ run.phase = "uncertain" /\ run.owner = o.proc /\ calling[o.proc] = 0
        /\ o.step = run.next /\ o.proc \in Procs
    BY <1>1, <1>2 DEF accepted, reconcilable, executionSettled, WorkflowInv, FreshAtRow, Observations
  <2>2. \A p \in Procs : calling[p] = 0
    BY <2>1 DEF WorkflowInv, CallsAtRow
  <2> QED  BY <1>1, <1>2, <2>1, <2>2, OutcomeKeeps
<1>3. CASE observing' = observing \ {o} /\ UNCHANGED <<run, evidence>>
  BY <1>1, <1>3
     DEF WorkflowInv, WorkflowTypeOK, RowOK, CallsAtRow, CallsOnce, uncalledIfWrite, FreshAtRow,
         EvidenceIsOwn, live
<1> QED  BY <1>2, <1>3 DEF Observed

\* A crash takes the process's calls with it, and nothing else.
LEMMA CrashKeeps ==
    ASSUME WorkflowInv, NEW p \in Procs, Crash(p)
    PROVE  WorkflowInv'
<1>1. /\ crashed' = crashed \cup {p}
      /\ advancing' = [advancing EXCEPT ![p] = FALSE]
      /\ calling' = [calling EXCEPT ![p] = 0]
      /\ observing' \subseteq observing
      /\ UNCHANGED <<run, calls, evidence>>
  BY DEF Crash
<1>2. WorkflowTypeOK'
  BY <1>1, PlanFacts DEF WorkflowInv, WorkflowTypeOK
<1>3. CallsAtRow'
  BY <1>1 DEF WorkflowInv, WorkflowTypeOK, CallsAtRow, live
<1>4. RowOK(run') /\ CallsOnce' /\ FreshAtRow' /\ EvidenceIsOwn'
  BY <1>1 DEF WorkflowInv, RowOK, CallsOnce, uncalledIfWrite, FreshAtRow, EvidenceIsOwn
<1> QED  BY <1>2, <1>3, <1>4 DEF WorkflowInv, RowOK
----------------------------------------------------------------------------

LEMMA WorkflowNextOK == WorkflowInv /\ [WorkflowNext]_workflowVars => WorkflowInv'
<1> SUFFICES ASSUME WorkflowInv, [WorkflowNext]_workflowVars
             PROVE  WorkflowInv'
  OBVIOUS
<1>1. ASSUME NEW p \in Procs, Claim(p) \/ Recover(p)
      PROVE  WorkflowInv'
  BY <1>1, TakeoverKeeps
<1>2. ASSUME NEW p \in Procs, Advance(p)
      PROVE  WorkflowInv'
  <2>1. /\ live(p) /\ run.owner = p /\ run.phase = "ready" /\ calling[p] = 0
        /\ proceed(p, run) /\ UNCHANGED <<crashed, evidence>>
    BY <1>2 DEF Advance, executionSettled
  <2>2. \A q \in Procs \ {p} : calling[q] = 0
    BY <2>1 DEF WorkflowInv, CallsAtRow
  <2>3. RowOK(run) /\ evidence' \in [Indices -> 0..Len(Plan)] /\ EvidenceIsOwn'
    BY <2>1 DEF WorkflowInv, WorkflowTypeOK, EvidenceIsOwn
  <2> QED  BY <2>1, <2>2, <2>3, ProceedKeeps
<1>3. ASSUME NEW p \in Procs, Cancel(p)
      PROVE  WorkflowInv'
  BY <1>3, CancelKeeps
<1>4. ASSUME NEW p \in Procs, Answer(p)
      PROVE  WorkflowInv'
  <2>1. /\ run.phase = "waiting" /\ run' = done(run) /\ observing' = outdated
        /\ evidence' = [evidence EXCEPT ![run.next] = run.next]
        /\ UNCHANGED <<crashed, advancing, calling, calls>>
    BY <1>4 DEF Answer
  <2>2. \A q \in Procs : calling[q] = 0
    BY <2>1 DEF WorkflowInv, CallsAtRow
  <2> QED  BY <2>1, <2>2, OutcomeKeeps
<1>5. ASSUME NEW p \in Procs, Observe(p)
      PROVE  WorkflowInv'
  <2>1. /\ observing' = observing \cup {[proc |-> p, step |-> run.next, fresh |-> TRUE]}
        /\ UNCHANGED <<run, crashed, advancing, calling, calls, evidence>>
        /\ run.phase = "uncertain"
    BY <1>5 DEF Observe, reconcilable
  <2>2. run.next \in Indices
    BY <2>1 DEF WorkflowInv, RowOK
  <2>3. WorkflowTypeOK'
    <3>1. [proc |-> p, step |-> run.next, fresh |-> TRUE] \in Observations
      BY <2>2 DEF Observations
    <3> QED  BY <2>1, <3>1 DEF WorkflowInv, WorkflowTypeOK
  <2>4. FreshAtRow'
    BY <2>1 DEF WorkflowInv, FreshAtRow
  <2> QED
    BY <2>1, <2>3, <2>4
       DEF WorkflowInv, RowOK, CallsAtRow, CallsOnce, uncalledIfWrite, EvidenceIsOwn, live
<1>6. ASSUME NEW p \in Procs, Crash(p)
      PROVE  WorkflowInv'
  BY <1>6, CrashKeeps
<1>7. ASSUME NEW p \in Procs, NEW result \in Results, HostReturns(p, result)
      PROVE  WorkflowInv'
  BY <1>7, HostReturnsKeeps
<1>8. ASSUME NEW p \in Procs, NEW aborted \in BOOLEAN, Interrupt(p, aborted)
      PROVE  WorkflowInv'
  BY <1>8, InterruptKeeps
<1>9. ASSUME NEW o \in observing, Observed(o)
      PROVE  WorkflowInv'
  BY <1>9, ObservedKeeps
<1>10. CASE UNCHANGED workflowVars
  BY <1>10
     DEF workflowVars, WorkflowInv, WorkflowTypeOK, RowOK, CallsAtRow, CallsOnce,
         uncalledIfWrite, FreshAtRow, EvidenceIsOwn, live
<1> QED
  BY <1>1, <1>2, <1>3, <1>4, <1>5, <1>6, <1>7, <1>8, <1>9, <1>10 DEF WorkflowNext

\* The invariant says more than the property: where a call is in flight, its
\* step is the row's, and a write has been called once at most.
LEMMA WorkflowInvSafe == WorkflowInv => WorkflowSafety
  BY DEF WorkflowInv, CallsAtRow, CallsOnce, WorkflowSafety, WritesOnceAndInOrder

\* Through crashes, takeovers, timeouts, cancellations and reconciliations, a run
\* of any plan calls the host at most once for a write and stores for each step
\* only that step's own outcome.
THEOREM WorkflowIsSafe == WorkflowSpec => []WorkflowSafety
<1>1. WorkflowInit => WorkflowInv
  BY WorkflowInitOK
<1>2. WorkflowInv /\ [WorkflowNext]_workflowVars => WorkflowInv'
  BY WorkflowNextOK
<1>3. WorkflowInv => WorkflowSafety
  BY WorkflowInvSafe
<1> QED  BY <1>1, <1>2, <1>3, PTL DEF WorkflowSpec

\* The row, the calls in flight and the observations keep their types.
THEOREM WorkflowIsTyped == WorkflowSpec => []WorkflowTypeOK
<1>1. WorkflowInit => WorkflowInv
  BY WorkflowInitOK
<1>2. WorkflowInv /\ [WorkflowNext]_workflowVars => WorkflowInv'
  BY WorkflowNextOK
<1>3. WorkflowInv => WorkflowTypeOK
  BY DEF WorkflowInv
<1> QED  BY <1>1, <1>2, <1>3, PTL DEF WorkflowSpec

====
