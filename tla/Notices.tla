------------------------------ MODULE Notices ------------------------------
(***************************************************************************)
(* Notifications (internal/notifications/manager.go) and their settings    *)
(* (web/notifications.go).                                                 *)
(*                                                                         *)
(* One goroutine moves events from a bus subscription to a queue, another  *)
(* posts them one at a time to the configured webhook, with one retry.     *)
(* Reconfiguring cancels the deliveries of the old webhook; the cancel     *)
(* reaches a delivery in its own time.  The bus closes the channel of a    *)
(* subscriber whose buffer is full, and nothing subscribes again.          *)
(***************************************************************************)
EXTENDS Integers, Sequences, FiniteSets, SequencesExt

CONSTANTS
  Notables,   \* 1..n: notifiable events published
  StreamMax,  \* the subscription's buffer
  JobsMax,    \* capacity of jobs
  Hooks       \* 1..n: bound on the webhooks configured

ASSUME NotablesAssumption == Notables \subseteq Nat \ {0}

VARIABLES
  stream,     \* the subscription's channel
  evicted,    \* the bus closed it
  jobs,       \* the queue of the delivering goroutine
  work,       \* what it is doing, NoWork when it waits for a job
  hook,       \* the active webhook, 0 is none
  hookSeq,    \* webhooks configured so far
  storedHook, \* the stored credential
  fate        \* event -> what became of it

noticeVars == <<stream, evicted, jobs, work, hook, hookSeq, storedHook, fate>>

NoWork == [event |-> 0, hook |-> 0, at |-> "idle", canceled |-> FALSE]

NoticesInit ==
  /\ stream = <<>> /\ evicted = FALSE /\ jobs = <<>> /\ work = NoWork
  /\ hook = 0 /\ hookSeq = 0 /\ storedHook = 0
  /\ fate = [e \in Notables |-> "unsent"]

Sends(e, how) == fate' = [fate EXCEPT ![e] = how]
Ends1(e, how) == work' = NoWork /\ Sends(e, how)

\* Bus.Publish to this subscriber: a full buffer costs it the subscription.
PublishNotice ==
  \E e \in Notables :
    /\ fate[e] = "unsent" /\ \A f \in Notables : f < e => fate[f] # "unsent"
    /\ \/ /\ ~evicted /\ Len(stream) < StreamMax
          /\ stream' = Append(stream, e) /\ Sends(e, "published")
          /\ UNCHANGED evicted
       \/ /\ evicted \/ Len(stream) = StreamMax
          /\ evicted' = TRUE /\ Sends(e, "evicted")
          /\ UNCHANGED stream
    /\ UNCHANGED <<jobs, work, hook, hookSeq, storedHook>>

\* The first goroutine of Start: an event that comes while no webhook is configured is skipped;
\* a full queue makes it wait.
Forwards ==
  /\ stream # <<>>
  /\ stream' = Tail(stream)
  /\ \/ /\ hook = 0
        /\ Sends(Head(stream), "skipped")
        /\ UNCHANGED jobs
     \/ /\ hook # 0 /\ Len(jobs) < JobsMax
        /\ jobs' = Append(jobs, Head(stream)) /\ Sends(Head(stream), "queued")
  /\ UNCHANGED <<evicted, work, hook, hookSeq, storedHook>>

\* deliver reads the webhook and its context.
Delivers ==
  /\ work = NoWork /\ jobs # <<>>
  /\ jobs' = Tail(jobs)
  /\ IF hook = 0 THEN Ends1(Head(jobs), "reconfigured")
     ELSE /\ work' = [event |-> Head(jobs), hook |-> hook, at |-> "post", canceled |-> FALSE]
          /\ Sends(Head(jobs), "delivering")
  /\ UNCHANGED <<stream, evicted, hook, hookSeq, storedHook>>

\* context.AfterFunc: the webhook the delivery started with is no longer configured.
CancelArrives ==
  /\ work # NoWork /\ work.hook # hook /\ ~work.canceled
  /\ work' = [work EXCEPT !.canceled = TRUE]
  /\ UNCHANGED <<stream, evicted, jobs, hook, hookSeq, storedHook, fate>>

\* post: a 2xx answer ends the delivery.  The answer may be lost after the host took the message.
Posts ==
  /\ work.at \in {"post", "again"} /\ ~work.canceled
  /\ Ends1(work.event, "delivered")
  /\ UNCHANGED <<stream, evicted, jobs, hook, hookSeq, storedHook>>

\* The mutant gives up at the first failure.
PostFailsOnce ==
  /\ work.at = "post"
  /\ work' = NoWork
  /\ UNCHANGED <<stream, evicted, jobs, hook, hookSeq, storedHook, fate>>
\* The first post fails, at once when it was canceled: wait 30 s and try again.
PostFails ==
  /\ work.at = "post"
  /\ work' = [work EXCEPT !.at = "wait"]
  /\ UNCHANGED <<stream, evicted, jobs, hook, hookSeq, storedHook, fate>>

\* wait: the timer, or the cancel.
WaitsForRetry ==
  /\ work.at = "wait"
  /\ \/ work' = [work EXCEPT !.at = "again"] /\ UNCHANGED fate
     \/ work.canceled /\ Ends1(work.event, "reconfigured")
  /\ UNCHANGED <<stream, evicted, jobs, hook, hookSeq, storedHook>>

\* The second post fails: notification.failed, even when it failed because it was canceled.
RetryFails ==
  /\ work.at = "again"
  /\ Ends1(work.event, "reported")
  /\ UNCHANGED <<stream, evicted, jobs, hook, hookSeq, storedHook>>

\* notificationSettings: "save" stores the credential, then activates it; a failed write changes
\* nothing.  A blank save keeps what there is.
SaveHook ==
  /\ hookSeq + 1 \in Hooks
  /\ storedHook' = hookSeq + 1 /\ hook' = hookSeq + 1 /\ hookSeq' = hookSeq + 1
  /\ UNCHANGED <<stream, evicted, jobs, work, fate>>

\* "clear": the credential, then the webhook.
ClearHook ==
  /\ hook # 0
  /\ storedHook' = 0 /\ hook' = 0
  /\ UNCHANGED <<stream, evicted, jobs, work, hookSeq, fate>>

\* The process starts again: the stored credential is activated, and a new subscription made.
RestartNotices ==
  /\ evicted
  /\ hook' = storedHook /\ evicted' = FALSE
  /\ stream' = <<>> /\ jobs' = <<>> /\ work' = NoWork
  /\ fate' = [e \in Notables |-> IF fate[e] \in {"published", "queued", "delivering"} THEN "restart" ELSE fate[e]]
  /\ UNCHANGED <<hookSeq, storedHook>>

NoticesNext ==
  \/ PublishNotice \/ Forwards \/ Delivers \/ CancelArrives \/ Posts \/ PostFails
  \/ WaitsForRetry \/ RetryFails \/ SaveHook \/ ClearHook \/ RestartNotices

NoticesSpec == NoticesInit /\ [][NoticesNext]_noticeVars

\* An event the operator is to be told of is on its way, or was delivered, or its failure was
\* reported, or there is a reason known to the operator: no webhook, another webhook, a restart,
\* or the lost subscription.  None disappears between the two goroutines, and none overtakes an
\* earlier one.
NoticeAccounted ==
  \A e \in Notables :
    /\ fate[e] = "published" <=> e \in Range(stream)
    /\ fate[e] = "queued" <=> e \in Range(jobs)
    /\ fate[e] = "delivering" <=> work.event = e
    /\ fate[e] \in {"published", "queued", "delivering"} =>
         \A f \in Notables : f > e => fate[f] \notin {"delivering", "delivered", "reported"}
=============================================================================
