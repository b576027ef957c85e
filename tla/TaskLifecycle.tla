------------------------------ MODULE TaskLifecycle ------------------------------
(***************************************************************************)
(* What the task store promises the readers of an evaluation: its status   *)
(* moves along the pipeline one stage at a time, each step's result        *)
(* appears with the stage that finishes it and never changes, and a closed *)
(* task never changes again.  A step may break off before the task is      *)
(* closed: the status then reads FAILED while the final outcome is open.   *)
(***************************************************************************)
CONSTANTS Task, Value, NoValue

VARIABLES
    status,    \* the status a reader is shown
    closed,    \* the tasks whose outcome is final
    result     \* the results a reader is shown, per step

view == <<status, closed, result>>

Step == {"audio", "transcription", "moderation"}

Before == [audio         |-> "PENDING",
           transcription |-> "AUDIO_PROCESSING_FINISHED",
           moderation    |-> "ASR_FINISHED"]

During == [audio         |-> "STARTED_AUDIO_PROCESSING",
           transcription |-> "STARTED_ASR",
           moderation    |-> "STARTED_MODERATION_PROCESSING"]

After == [audio         |-> "AUDIO_PROCESSING_FINISHED",
          transcription |-> "ASR_FINISHED",
          moderation    |-> "MODERATION_PROCESSING_FINISHED"]

Init ==
    /\ status = [t \in Task |-> "PENDING"]
    /\ closed = {}
    /\ result = [t \in Task |-> [s \in Step |-> NoValue]]

Show(t, from, to) ==
    /\ t \notin closed
    /\ status[t] = from
    /\ status' = [status EXCEPT ![t] = to]

Begin(t, s) ==
    /\ Show(t, Before[s], During[s])
    /\ UNCHANGED <<closed, result>>

End(t, s, value) ==
    /\ Show(t, During[s], After[s])
    /\ result[t][s] = NoValue
    /\ result' = [result EXCEPT ![t][s] = value]
    /\ UNCHANGED closed

BreakOff(t, s) ==
    /\ Show(t, During[s], "FAILED")
    /\ UNCHANGED <<closed, result>>

\* The task succeeds after its last step; the transcription-only workflow ends
\* after transcription.
Succeed(t) ==
    /\ t \notin closed
    /\ status[t] \in {After["transcription"], After["moderation"]}
    /\ status' = [status EXCEPT ![t] = "SUCCEEDED"]
    /\ closed' = closed \cup {t}
    /\ UNCHANGED result

Fail(t, outcome) ==
    /\ t \notin closed
    /\ status' = [status EXCEPT ![t] = outcome]
    /\ closed' = closed \cup {t}
    /\ UNCHANGED result

Next ==
    \E t \in Task :
       \/ \E s \in Step :
             \/ Begin(t, s)
             \/ \E value \in Value : End(t, s, value)
             \/ BreakOff(t, s)
       \/ Succeed(t)
       \/ \E outcome \in {"FAILED", "TIMED_OUT", "CANCELLED"} : Fail(t, outcome)

Spec == Init /\ [][Next]_view

=============================================================================
