----------------------------- MODULE LearningStream -----------------------------
(***************************************************************************)
(* How one answer reaches the window: the entry of the request in the       *)
(* registry (src-tauri/src/learning/registry.rs) emits numbered events into *)
(* the channel of its subscriber, and the store of the window               *)
(* (src/features/learning/learning-request-store.ts) folds the snapshots it *)
(* is answered with and the events it receives into a view.  A channel is   *)
(* FIFO; the answer of a command travels beside it and may be overtaken by  *)
(* events or overtake them.                                                 *)
(*                                                                          *)
(* A delta is named by the number of its event, so a text is a sequence of  *)
(* numbers.  The window subscribes once, so the registry's replacement and  *)
(* eviction of subscribers never happens, and ten minutes, after which an   *)
(* ended entry is collected, are longer than its calls.                     *)
(***************************************************************************)
EXTENDS Integers, Sequences, SequencesExt

CONSTANTS
    MaxText,    \* deltas that fit into MAX_LEARNING_OUTPUT_BYTES
    MaxUsage    \* usage reports of the provider

ASSUME StreamBounds == MaxText \in Nat \ {0} /\ MaxUsage \in Nat

VARIABLES
    entry,      \* RegistryEntry: status, text, seq
    commit,     \* commit_started and commit_irrevocable
    usages,     \* usage reports so far
    task,       \* "starting", "running" or "over"
    subscribed, \* the window's sink is among the subscribers
    channel,    \* events sent and not yet received
    reply,      \* the snapshot a command is answering with
    window,     \* where the window's controller is
    view        \* LearningRequestView: status, text, seq

streamVars == <<entry, commit, usages, task, subscribed, channel, reply, window, view>>

Ended == {"completed", "failed", "cancelled"}
Live == entry.status \notin Ended

Snapshot(s, t, n) == [status |-> s, text |-> t, seq |-> n]
NoView == Snapshot("none", <<>>, 0)

\* start_*: the entry has been created; its snapshot is the call's answer
\* unless the start fails.
StreamInit ==
    /\ entry = Snapshot("preparing", <<>>, 1)
    /\ commit = "none"
    /\ usages = 0
    /\ task = "starting"
    /\ subscribed = FALSE
    /\ channel = <<>>
    /\ reply = NoView
    /\ window = "starting"
    /\ view = NoView

-----------------------------------------------------------------------------
(* The registry.                                                            *)

\* emit: the next number, and the event to every subscriber.
Emit(e, type) ==
    LET n == e.seq + 1
    IN  /\ entry' = [e EXCEPT !.seq = n]
        /\ channel' = IF subscribed THEN Append(channel, [seq |-> n, type |-> type])
                      ELSE channel

\* Mutant of End: the subscribers are dropped before they hear of the end.
EndSilently(s) ==
    /\ entry' = [entry EXCEPT !.status = s, !.seq = @ + 1]
    /\ subscribed' = FALSE
    /\ UNCHANGED channel

\* terminal
End(s) ==
    /\ Emit([entry EXCEPT !.status = s], s)
    /\ subscribed' = FALSE

\* The task runs; the start command answers with the snapshot of the creation.
Spawn ==
    /\ task = "starting"
    /\ task' = "running"
    /\ reply' = entry
    /\ UNCHANGED <<entry, commit, usages, subscribed, channel, window, view>>

\* fail_registered_start, and a refusal of the spawner: the answer is the
\* snapshot after the failure.
StartFails ==
    /\ task = "starting"
    /\ task' = "over"
    /\ End("failed")
    /\ reply' = entry'
    /\ UNCHANGED <<commit, usages, window, view>>

Accepting == task = "running" /\ Live /\ commit = "none"

\* append_text of a delta that fits.
AppendText ==
    /\ Accepting
    /\ Len(entry.text) < MaxText
    /\ Emit([entry EXCEPT !.status = "streaming", !.text = Append(@, entry.seq + 1)],
            "text_delta")
    /\ UNCHANGED <<commit, usages, task, subscribed, reply, window, view>>

\* append_text of one delta too many fails the request.
Overflow ==
    /\ Accepting
    /\ Len(entry.text) = MaxText
    /\ End("failed")
    /\ task' = "over"
    /\ UNCHANGED <<commit, usages, reply, window, view>>

\* record_usage
RecordUsage ==
    /\ Accepting
    /\ usages < MaxUsage
    /\ usages' = usages + 1
    /\ Emit(entry, "usage")
    /\ UNCHANGED <<commit, task, subscribed, reply, window, view>>

\* begin_commit on the provider's Completed event.
BeginCommit ==
    /\ Accepting
    /\ entry.status = "streaming"
    /\ commit' = "started"
    /\ UNCHANGED <<entry, usages, task, subscribed, channel, reply, window, view>>

\* authorize_database_commit
AuthorizeDatabaseCommit ==
    /\ task = "running"
    /\ commit = "started"
    /\ Live
    /\ commit' = "irrevocable"
    /\ UNCHANGED <<entry, usages, task, subscribed, channel, reply, window, view>>

\* complete, after the transaction has been committed.
Complete ==
    /\ task = "running"
    /\ commit = "irrevocable"
    /\ End("completed")
    /\ task' = "over"
    /\ UNCHANGED <<commit, usages, reply, window, view>>

\* The stream or the transaction fails, or the task finds its entry cancelled.
Fail ==
    /\ task = "running"
    /\ task' = "over"
    /\ IF Live THEN End("failed") ELSE UNCHANGED <<entry, subscribed, channel>>
    /\ UNCHANGED <<commit, usages, reply, window, view>>

-----------------------------------------------------------------------------
(* The window.                                                              *)

\* cancel, on behalf of a window that knows the request.
Cancel ==
    /\ view # NoView
    /\ Live
    /\ commit # "irrevocable"
    /\ End("cancelled")
    /\ UNCHANGED <<commit, usages, task, reply, window, view>>

\* Mutant of Replaces: the numbers are not compared.
ReplacesOpen(s) == view.status \notin Ended

\* Whether applySnapshot takes a snapshot of a request it knows.
Replaces(s) == view.seq <= s.seq /\ view.status \notin Ended

\* The start command returns, its snapshot is applied and the window subscribes.
ReceiveStart ==
    /\ window = "starting"
    /\ reply # NoView
    /\ view' = reply
    /\ reply' = NoView
    /\ window' = "subscribing"
    /\ UNCHANGED <<entry, commit, usages, task, subscribed, channel>>

\* subscribe: the snapshot and the registration are one critical section.
Subscribe ==
    /\ window = "subscribing"
    /\ reply' = entry
    /\ subscribed' = Live
    /\ window' = "awaiting"
    /\ UNCHANGED <<entry, commit, usages, task, channel, view>>

\* The subscription returns and its snapshot is applied.
ReceiveSnapshot ==
    /\ window = "awaiting"
    /\ view' = IF Replaces(reply) THEN reply ELSE view
    /\ reply' = NoView
    /\ window' = "listening"
    /\ UNCHANGED <<entry, commit, usages, task, subscribed, channel>>

\* The events that applyEvent ignores.
Refused(e) ==
    \/ e.seq <= view.seq
    \/ view.status \in Ended
    \/ e.type = "completed" /\ view.status # "streaming"

Applied(e) ==
    [seq    |-> e.seq,
     status |-> CASE e.type = "text_delta" -> "streaming"
                  [] e.type = "usage" -> view.status
                  [] OTHER -> e.type,
     text   |-> IF e.type = "text_delta" THEN Append(view.text, e.seq) ELSE view.text]

ReceiveEvent ==
    /\ channel # <<>>
    /\ channel' = Tail(channel)
    /\ view' = IF Refused(Head(channel)) THEN view ELSE Applied(Head(channel))
    /\ UNCHANGED <<entry, commit, usages, task, subscribed, reply, window>>

-----------------------------------------------------------------------------
RegistryStep ==
    \/ Spawn \/ StartFails \/ AppendText \/ Overflow \/ RecordUsage
    \/ BeginCommit \/ AuthorizeDatabaseCommit \/ Complete \/ Fail

WindowStep == ReceiveStart \/ Subscribe \/ ReceiveSnapshot \/ ReceiveEvent

StreamNext == RegistryStep \/ WindowStep \/ Cancel

StreamSpec == StreamInit /\ [][StreamNext]_streamVars

\* Calls return and events are delivered; a request that starts ends.
FairStreamSpec ==
    /\ StreamSpec
    /\ WF_streamVars(ReceiveStart) /\ WF_streamVars(Subscribe)
    /\ WF_streamVars(ReceiveSnapshot) /\ WF_streamVars(ReceiveEvent)
    /\ WF_streamVars(Spawn \/ StartFails)
    /\ WF_streamVars(Overflow \/ BeginCommit \/ AuthorizeDatabaseCommit \/ Complete \/ Fail)

-----------------------------------------------------------------------------
(* Properties.                                                              *)

Message == [status : {"none", "preparing", "streaming"} \cup Ended,
            text : Seq(Nat), seq : Nat]

StreamTypeOK ==
    /\ entry \in Message /\ reply \in Message /\ view \in Message
    /\ Len(entry.text) <= MaxText
    /\ commit \in {"none", "started", "irrevocable"}
    /\ usages \in 0..MaxUsage
    /\ task \in {"starting", "running", "over"}
    /\ subscribed \in BOOLEAN
    /\ channel \in Seq([seq : Nat, type : {"text_delta", "usage"} \cup Ended])
    /\ window \in {"starting", "subscribing", "awaiting", "listening"}

\* The window shows only text the registry has kept, in its order and none of it
\* twice, however snapshots and events overtake each other.
ShownTextIsKept ==
    /\ ToSet(view.text) \subseteq ToSet(entry.text)
    /\ \A i, j \in DOMAIN view.text : i < j => view.text[i] < view.text[j]

\* A view that has ended agrees with the registry about how.
EndsAgree == view.status \in Ended => view.status = entry.status

\* No late snapshot or event takes anything away from a view, and none changes
\* a view that has ended.
ViewNeverGoesBack ==
    [][/\ view.seq <= view'.seq
       /\ ToSet(view.text) \subseteq ToSet(view'.text)
       /\ view.status \in Ended => view' = view]_streamVars

\* The window follows the registry: what it shows is never wrong and never lost again.
ViewFollowsEntry == [](ShownTextIsKept /\ EndsAgree) /\ ViewNeverGoesBack

\* A request that fails or is stopped ends in the window too.
StopIsShown ==
    \A s \in {"failed", "cancelled"} : entry.status = s ~> view.status = s

\* Once the subscription and every event have arrived, the window shows the
\* whole text.
NothingIsLost ==
    window = "listening" /\ channel = <<>> => view.text = entry.text

\* A request that completes ends in the window too.
CompletionIsShown == entry.status = "completed" ~> view.status = "completed"
=============================================================================
