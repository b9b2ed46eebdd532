------------------------------ MODULE Streaming ------------------------------
(****************************************************************************)
(* Broadcasts (streaming/service.go over its Postgres repository): a stream *)
(* session from the request for it to its end, by the host, by a failure to *)
(* get credentials or by the classifier, whose verdict also restricts the   *)
(* host.                                                                    *)
(*                                                                          *)
(* The classifier's results are consumed by one goroutine of its own, which *)
(* no request waits for; an error on its way is ignored.  The classifier    *)
(* and the ingest service are external: they report what they like, when    *)
(* they like, of any session.                                               *)
(****************************************************************************)
EXTENDS Moderation

VARIABLES
    streams,    \* streaming_sessions: host, state, end_reason
    ingest,     \* the ingest service's sessions
    verdict     \* the classifier's result being handled

streamingVars == <<streams, ingest, verdict>>

NoVerdict == [pc |-> "idle"]

StreamStates == {"connecting", "live", "ended", "terminated"}

StreamingInit == streams = <<>> /\ ingest = {} /\ verdict = NoVerdict

(* Mutant of UpdateState: the last one to end the session gives the reason. *)
UpdateStateAgain(s, state, reason) ==
    [streams EXCEPT ![s].state = state,
                    ![s].reason = IF state \in {"ended", "terminated"} THEN reason ELSE @]

(* UpdateState of the repository: the state is written whatever it was, the reason
   only with the first end *)
UpdateState(s, state, reason) ==
    [streams EXCEPT ![s].state = state,
                    ![s].reason = IF state \in {"ended", "terminated"} /\ @ = "" THEN reason ELSE @]

-----------------------------------------------------------------------------
(* StartBroadcast *)

StartBroadcast(k, a) ==
    /\ Begin("streaming", k, [op |-> "broadcast", pc |-> "credentials", stream |-> Len(streams) + 1])
    /\ streams' = Append(streams, [host |-> a, state |-> "connecting", reason |-> ""])
    /\ UNCHANGED <<authVars, moderationVars, ingest, verdict>>

IssueCredentials(k) ==
    /\ At(k, "broadcast", "credentials")
    /\ \/ /\ ingest' = ingest \cup {call[k].stream}
          /\ Answer(k)
       \/ /\ ingest' = ingest
          /\ Goto(k, "fail")
    /\ UNCHANGED <<authVars, moderationVars, streams, verdict>>

EndUnstarted(k) ==
    /\ At(k, "broadcast", "fail")
    /\ streams' = UpdateState(call[k].stream, "ended", "credential_issue_failed")
    /\ Answer(k)
    /\ UNCHANGED <<authVars, moderationVars, ingest, verdict>>

(* the ingest node reports the first packet *)
SessionLive(s) ==
    /\ Serve("streaming")
    /\ streams' = UpdateState(s, "live", "")
    /\ UNCHANGED <<call, authVars, moderationVars, ingest, verdict>>

-----------------------------------------------------------------------------
(* EndBroadcast, which looks at the host and not at the state *)

EndBroadcast(k, s) ==
    /\ Begin("streaming", k, [op |-> "end", pc |-> "end", stream |-> s])
    /\ ingest' = ingest \ {s}
    /\ UNCHANGED <<authVars, moderationVars, streams, verdict>>

End(k) ==
    /\ At(k, "end", "end")
    /\ streams' = UpdateState(call[k].stream, "ended", "host_ended")
    /\ Answer(k)
    /\ UNCHANGED <<authVars, moderationVars, ingest, verdict>>

-----------------------------------------------------------------------------
(* handleModerationResults *)

HandleModerationResult(s) ==
    /\ verdict = NoVerdict
    /\ Serve("streaming")
    /\ ingest' = ingest \ {s}
    /\ verdict' = [pc |-> "terminate", stream |-> s]
    /\ UNCHANGED <<call, authVars, moderationVars, streams>>

TerminateBroadcast ==
    /\ verdict.pc = "terminate"
    /\ \/ /\ streams' = UpdateState(verdict.stream, "terminated", "moderation")
          /\ UNCHANGED <<served, failed, load>>
       \/ Fail /\ UNCHANGED streams
    /\ verdict' = [verdict EXCEPT !.pc = "record"]
    /\ UNCHANGED <<call, authVars, moderationVars, ingest>>

RecordAutoTermination ==
    /\ verdict.pc = "record"
    /\ enforcements' = Append(enforcements, [acct |-> streams[verdict.stream].host,
                                             action |-> "restrict_broadcast"])
    /\ verdict' = [verdict EXCEPT !.pc = "apply"]
    /\ UNCHANGED <<callVars, authVars, appeals, streams, ingest>>

ApplyAutoTermination ==
    /\ verdict.pc = "apply"
    /\ status' = [status EXCEPT ![streams[verdict.stream].host] =
                                    Standing("restrict_broadcast", @)]
    /\ verdict' = NoVerdict
    /\ UNCHANGED <<callVars, sessions, moderationVars, streams, ingest>>

(* the row or the standing cannot be written, or the process goes down *)
VerdictLost ==
    /\ verdict # NoVerdict
    /\ Fail
    /\ verdict' = NoVerdict
    /\ UNCHANGED <<call, authVars, moderationVars, streams, ingest>>

StreamingNext ==
    \/ \E k \in Slots, a \in AccountIds : StartBroadcast(k, a)
    \/ \E k \in Slots : IssueCredentials(k) \/ EndUnstarted(k) \/ End(k)
    \/ \E k \in Slots, s \in DOMAIN streams : EndBroadcast(k, s)
    \/ \E s \in DOMAIN streams : SessionLive(s) \/ HandleModerationResult(s)
    \/ TerminateBroadcast \/ RecordAutoTermination \/ ApplyAutoTermination
    \/ VerdictLost

-----------------------------------------------------------------------------
(* How a broadcast ended is told once: whatever the host, a late first packet and the
   classifier do to it afterwards, in any order, the reason recorded with the first
   end stays, and a session that is over has one (repository UpdateState). *)
EndingIsKept ==
    /\ \A s \in DOMAIN streams : streams[s].reason # "" => streams'[s].reason = streams[s].reason
    /\ \A s \in DOMAIN streams' : streams'[s].state \in {"ended", "terminated"}
                                    => streams'[s].reason # ""
=============================================================================
