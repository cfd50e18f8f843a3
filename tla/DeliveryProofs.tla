--------------------------- MODULE DeliveryProofs ---------------------------
(***************************************************************************)
(* What is handed over arrives or is accounted for, for every number of    *)
(* events and every capacity: notifications between the bus and the        *)
(* webhook (module Notices), the operator's mailbox and instruction files  *)
(* (module OperatorFiles), sessions held while a model server is away      *)
(* (module Reach).                                                         *)
(***************************************************************************)
EXTENDS Notices, OperatorFiles, Reach, TLAPS

-----------------------------------------------------------------------------
(* Sequences of increasing numbers                                          *)

Rising(s) == \A i, j \in DOMAIN s : i < j => s[i] < s[j]

LEMMA RisingHead ==
  ASSUME NEW S \in SUBSET Nat, NEW s \in Seq(S), s # <<>>, Rising(s)
  PROVE  /\ Head(s) \in S /\ Head(s) \in Range(s)
         /\ Tail(s) \in Seq(S) /\ Rising(Tail(s))
         /\ Range(Tail(s)) = Range(s) \ {Head(s)}
         /\ \A x \in Range(Tail(s)) : Head(s) < x
<1>1. 1 \in DOMAIN s /\ Head(s) = s[1] /\ Tail(s) \in Seq(S)
  OBVIOUS
<1>2. \A i \in DOMAIN Tail(s) : i + 1 \in DOMAIN s /\ Tail(s)[i] = s[i + 1] /\ 1 < i + 1
  OBVIOUS
<1>3. \A i \in DOMAIN s : i = 1 \/ (i - 1 \in DOMAIN Tail(s) /\ Tail(s)[i - 1] = s[i])
  OBVIOUS
<1>4. \A i \in DOMAIN Tail(s) : i \in Nat
  BY <1>1
<1>5. Rising(Tail(s))
  <2>1. SUFFICES ASSUME NEW i \in DOMAIN Tail(s), NEW j \in DOMAIN Tail(s), i < j
                 PROVE  Tail(s)[i] < Tail(s)[j]
    BY DEF Rising
  <2>2. i + 1 < j + 1
    BY <1>4, <2>1
  <2>3. QED
    BY <1>2, <2>2 DEF Rising
<1>6. \A x \in Range(Tail(s)) : Head(s) < x
  BY <1>1, <1>2 DEF Rising, Range
<1>7. Range(Tail(s)) \subseteq Range(s)
  BY <1>2 DEF Range
<1>8. Range(s) \subseteq Range(Tail(s)) \cup {Head(s)}
  BY <1>1, <1>3, ZenonT(40) DEF Range
<1>9. Head(s) \in S /\ Head(s) \in Range(s)
  BY <1>1 DEF Range
<1>10. Head(s) \notin Range(Tail(s))
  <2>1. \A x \in S : ~(x < x)
    OBVIOUS
  <2>2. QED
    BY <1>6, <1>9, <2>1
<1>11. QED
  BY <1>1, <1>5, <1>6, <1>7, <1>8, <1>9, <1>10

LEMMA RisingAppend ==
  ASSUME NEW S \in SUBSET Nat, NEW s \in Seq(S), NEW e \in S, Rising(s), \A x \in Range(s) : x < e
  PROVE  /\ Append(s, e) \in Seq(S) /\ Rising(Append(s, e))
         /\ Range(Append(s, e)) = Range(s) \cup {e}
<1> DEFINE t == Append(s, e)
<1>1. t \in Seq(S) /\ Len(t) = Len(s) + 1 /\ t[Len(s) + 1] = e
  OBVIOUS
<1>2. \A i \in DOMAIN s : i \in DOMAIN t /\ t[i] = s[i]
  OBVIOUS
<1>3. \A i \in DOMAIN t : i \in Nat /\ (i \in DOMAIN s \/ i = Len(s) + 1)
  OBVIOUS
<1>4. Len(s) + 1 \in DOMAIN t /\ \A i \in DOMAIN t : i <= Len(s) + 1
  OBVIOUS
<1> HIDE DEF t
<1>5. Range(t) = Range(s) \cup {e}
  BY <1>1, <1>2, <1>3, <1>4 DEF Range
<1>6. Rising(t)
  <2>1. SUFFICES ASSUME NEW i \in DOMAIN t, NEW j \in DOMAIN t, i < j
                 PROVE  t[i] < t[j]
    BY DEF Rising
  <2>2. i \in DOMAIN s
    BY <1>3, <1>4, <2>1
  <2>3. CASE j \in DOMAIN s
    BY <1>2, <2>1, <2>2, <2>3 DEF Rising
  <2>4. CASE j = Len(s) + 1
    BY <1>1, <1>2, <2>2, <2>4 DEF Range
  <2>5. QED
    BY <1>3, <2>3, <2>4
<1>7. QED
  BY <1>1, <1>5, <1>6 DEF t

LEMMA RisingEmpty ==
  ASSUME NEW S
  PROVE  <<>> \in Seq(S) /\ Rising(<<>>) /\ Range(<<>>) = {}
  BY DEF Rising, Range

-----------------------------------------------------------------------------
(* Notifications                                                            *)

Pipeline == {"published", "queued", "delivering"}
Fates == Pipeline \cup {"unsent", "evicted", "skipped", "delivered", "reported", "reconfigured", "restart"}

NoticeTypes ==
  /\ stream \in Seq(Notables) /\ Rising(stream)
  /\ jobs \in Seq(Notables) /\ Rising(jobs)
  /\ fate \in [Notables -> Fates]
  /\ work.event = 0 <=> work = NoWork
  /\ work.event # 0 => work \in [event : Notables, hook : {work.hook},
                                 at : {"post", "wait", "again"}, canceled : BOOLEAN]

\* The pipeline holds the events in their order: what is posted is older than
\* what is queued, that is older than what the subscription holds, and every
\* event not yet published is newer than all of them.
NoticesOrdered ==
  \A e, f \in Notables :
    /\ fate[e] = "published" /\ fate[f] \in {"queued", "delivering"} => f < e
    /\ fate[e] = "queued" /\ fate[f] = "delivering" => f < e
    /\ fate[e] = "unsent" /\ fate[f] # "unsent" => f < e

NoticesInv == NoticeTypes /\ NoticesOrdered /\ NoticeAccounted

LEMMA NoticesInitially == NoticesInit => NoticesInv
<1> SUFFICES ASSUME NoticesInit
             PROVE  NoticesInv
  OBVIOUS
<1>1. NoticeTypes
  BY RisingEmpty DEF NoticesInit, NoticeTypes, NoWork, Fates
<1>2. NoticesOrdered
  BY DEF NoticesInit, NoticesOrdered
<1>3. NoticeAccounted
  BY RisingEmpty, NotablesAssumption DEF NoticesInit, NoticeAccounted, NoWork
<1>4. QED
  BY <1>1, <1>2, <1>3 DEF NoticesInv

LEMMA PublishNoticeStep == NoticesInv /\ PublishNotice => NoticesInv'
<1> SUFFICES ASSUME NoticesInv, PublishNotice
             PROVE  NoticesInv'
  OBVIOUS
<1>1. PICK e \in Notables :
        /\ fate[e] = "unsent" /\ \A f \in Notables : f < e => fate[f] # "unsent"
        /\ \/ stream' = Append(stream, e) /\ Sends(e, "published")
           \/ stream' = stream /\ Sends(e, "evicted")
        /\ UNCHANGED <<jobs, work>>
  BY DEF PublishNotice
<1>2. \A f \in Notables : f \in Nat /\ (fate[f] = "unsent" => f = e \/ e < f)
  BY <1>1, NotablesAssumption
<1>3. \A f \in Notables : fate[f] # "unsent" => f < e
  BY <1>1 DEF NoticesInv, NoticesOrdered
<1>4. \A f \in Notables : f # e => fate'[f] = fate[f]
  BY <1>1 DEF NoticesInv, NoticeTypes, Sends
<1>5. work.event # e /\ e \notin Range(jobs) /\ e \notin Range(stream)
  BY <1>1 DEF NoticesInv, NoticeAccounted
<1>6. CASE stream' = Append(stream, e) /\ Sends(e, "published")
  <2>1. \A f \in Range(stream) : f \in Notables /\ f < e
    BY <1>3 DEF NoticesInv, NoticeTypes, NoticeAccounted, Range
  <2>2. /\ Append(stream, e) \in Seq(Notables) /\ Rising(Append(stream, e))
        /\ Range(Append(stream, e)) = Range(stream) \cup {e}
    <3>1. Notables \in SUBSET Nat /\ stream \in Seq(Notables) /\ Rising(stream)
      BY NotablesAssumption DEF NoticesInv, NoticeTypes
    <3>2. \A x \in Range(stream) : x < e
      BY <2>1
    <3>3. QED
      BY <3>1, <3>2, RisingAppend
  <2>3. fate'[e] = "published"
    BY <1>6 DEF NoticesInv, NoticeTypes, Sends
  <2>4. NoticeTypes'
    BY <1>1, <1>6, <2>2 DEF NoticesInv, NoticeTypes, Sends, Fates, Pipeline
  <2>5. NoticesOrdered'
    BY <1>1, <1>2, <1>3, <1>4, <2>3 DEF NoticesInv, NoticesOrdered
  <2>6. NoticeAccounted'
    BY <1>1, <1>2, <1>3, <1>4, <1>5, <1>6, <2>2, <2>3 DEF NoticesInv, NoticeAccounted
  <2>7. QED
    BY <2>4, <2>5, <2>6 DEF NoticesInv
<1>7. CASE stream' = stream /\ Sends(e, "evicted")
  <2>1. fate'[e] = "evicted"
    BY <1>7 DEF NoticesInv, NoticeTypes, Sends
  <2>2. NoticeTypes'
    BY <1>1, <1>7 DEF NoticesInv, NoticeTypes, Sends, Fates, Pipeline
  <2>3. NoticesOrdered'
    BY <1>1, <1>2, <1>3, <1>4, <2>1 DEF NoticesInv, NoticesOrdered
  <2>4. NoticeAccounted'
    BY <1>1, <1>2, <1>3, <1>4, <1>5, <1>7, <2>1 DEF NoticesInv, NoticeAccounted
  <2>5. QED
    BY <2>2, <2>3, <2>4 DEF NoticesInv
<1>8. QED
  BY <1>1, <1>6, <1>7

LEMMA ForwardsStep == NoticesInv /\ Forwards => NoticesInv'
<1> SUFFICES ASSUME NoticesInv, Forwards
             PROVE  NoticesInv'
  OBVIOUS
<1> DEFINE e == Head(stream)
<1>1. /\ e \in Notables /\ e \in Range(stream)
      /\ Tail(stream) \in Seq(Notables) /\ Rising(Tail(stream))
      /\ Range(Tail(stream)) = Range(stream) \ {e}
      /\ \A x \in Range(Tail(stream)) : e < x
  BY RisingHead, NotablesAssumption DEF NoticesInv, NoticeTypes, Forwards
<1>2. /\ stream' = Tail(stream) /\ work' = work
      /\ \/ jobs' = jobs /\ Sends(e, "skipped")
         \/ jobs' = Append(jobs, e) /\ Sends(e, "queued")
  BY DEF Forwards
<1> HIDE DEF e
<1>3. fate[e] = "published" /\ e \notin Range(jobs) /\ work.event # e
  BY <1>1 DEF NoticesInv, NoticeAccounted
<1>4. \A f \in Notables : f # e => fate'[f] = fate[f]
  BY <1>2 DEF NoticesInv, NoticeTypes, Sends
<1>5. \A f \in Notables : f \in Nat /\ (fate[f] = "published" => f = e \/ e < f)
  BY <1>1, NotablesAssumption DEF NoticesInv, NoticeAccounted
<1>6. CASE jobs' = jobs /\ Sends(e, "skipped")
  <2>1. fate'[e] = "skipped"
    BY <1>1, <1>6 DEF NoticesInv, NoticeTypes, Sends
  <2>2. NoticeTypes'
    BY <1>1, <1>2, <1>6 DEF NoticesInv, NoticeTypes, Sends, Fates, Pipeline
  <2>3. NoticesOrdered'
    BY <1>3, <1>4, <2>1 DEF NoticesInv, NoticesOrdered
  <2>4. NoticeAccounted'
    BY <1>1, <1>2, <1>3, <1>4, <1>6, <2>1 DEF NoticesInv, NoticeAccounted
  <2>5. QED
    BY <2>2, <2>3, <2>4 DEF NoticesInv
<1>7. CASE jobs' = Append(jobs, e) /\ Sends(e, "queued")
  <2>1. fate'[e] = "queued"
    BY <1>1, <1>7 DEF NoticesInv, NoticeTypes, Sends
  <2>2. \A f \in Range(jobs) : f \in Notables /\ f < e
    BY <1>1, <1>3 DEF NoticesInv, NoticeTypes, NoticeAccounted, NoticesOrdered, Range
  <2>3. /\ Append(jobs, e) \in Seq(Notables) /\ Rising(Append(jobs, e))
        /\ Range(Append(jobs, e)) = Range(jobs) \cup {e}
    <3>1. Notables \in SUBSET Nat /\ jobs \in Seq(Notables) /\ Rising(jobs)
      BY NotablesAssumption DEF NoticesInv, NoticeTypes
    <3>2. \A x \in Range(jobs) : x < e
      BY <2>2
    <3>3. QED
      BY <1>1, <3>1, <3>2, RisingAppend
  <2>4. NoticeTypes'
    BY <1>1, <1>2, <1>7, <2>3 DEF NoticesInv, NoticeTypes, Sends, Fates, Pipeline
  <2>5. NoticesOrdered'
    BY <1>1, <1>3, <1>4, <1>5, <2>1 DEF NoticesInv, NoticesOrdered
  <2>6. NoticeAccounted'
    BY <1>1, <1>2, <1>3, <1>4, <1>7, <2>1, <2>3 DEF NoticesInv, NoticeAccounted
  <2>7. QED
    BY <2>4, <2>5, <2>6 DEF NoticesInv
<1>8. QED
  BY <1>2, <1>6, <1>7

LEMMA DeliversStep == NoticesInv /\ Delivers => NoticesInv'
<1> SUFFICES ASSUME NoticesInv, Delivers
             PROVE  NoticesInv'
  OBVIOUS
<1> DEFINE e == Head(jobs)
<1>1. /\ e \in Notables /\ e \in Range(jobs)
      /\ Tail(jobs) \in Seq(Notables) /\ Rising(Tail(jobs))
      /\ Range(Tail(jobs)) = Range(jobs) \ {e}
      /\ \A x \in Range(Tail(jobs)) : e < x
  BY RisingHead, NotablesAssumption DEF NoticesInv, NoticeTypes, Delivers
<1>2. /\ stream' = stream /\ jobs' = Tail(jobs) /\ work = NoWork
      /\ \/ Ends1(e, "reconfigured")
         \/ /\ work' = [event |-> e, hook |-> hook, at |-> "post", canceled |-> FALSE]
            /\ Sends(e, "delivering")
  BY DEF Delivers
<1> HIDE DEF e
<1>3. /\ fate[e] = "queued" /\ e \notin Range(stream) /\ work.event = 0 /\ NoWork.event = 0 /\ e # 0
      /\ \A f \in Notables : f # 0 /\ fate[f] # "delivering"
  BY <1>1, <1>2, NotablesAssumption DEF NoticesInv, NoticeAccounted, NoWork
<1>4. \A f \in Notables : f # e => fate'[f] = fate[f]
  BY <1>2 DEF NoticesInv, NoticeTypes, Sends, Ends1
<1>5. \A f \in Notables : f \in Nat /\ (fate[f] \in Pipeline => f = e \/ e < f)
  BY <1>1, <1>3, NotablesAssumption DEF NoticesInv, NoticeAccounted, NoticesOrdered, Pipeline
<1>6. CASE Ends1(e, "reconfigured")
  <2>1. fate'[e] = "reconfigured"
    BY <1>1, <1>6 DEF NoticesInv, NoticeTypes, Sends, Ends1
  <2>2. NoticeTypes'
    BY <1>1, <1>2, <1>3, <1>6 DEF NoticesInv, NoticeTypes, Ends1, Sends, Fates, Pipeline
  <2>3. NoticesOrdered'
    BY <1>3, <1>4, <2>1 DEF NoticesInv, NoticesOrdered
  <2>4. NoticeAccounted'
    BY <1>1, <1>2, <1>3, <1>4, <1>6, <2>1 DEF NoticesInv, NoticeAccounted, Ends1
  <2>5. QED
    BY <2>2, <2>3, <2>4 DEF NoticesInv
<1>7. CASE /\ work' = [event |-> e, hook |-> hook, at |-> "post", canceled |-> FALSE]
           /\ Sends(e, "delivering")
  <2>1. fate'[e] = "delivering" /\ work'.event = e /\ work' # NoWork
    BY <1>1, <1>3, <1>7 DEF NoticesInv, NoticeTypes, Sends, NoWork
  <2>2. NoticeTypes'
    BY <1>1, <1>2, <1>3, <1>7, <2>1 DEF NoticesInv, NoticeTypes, Sends, Fates, Pipeline
  <2>3. NoticesOrdered'
    BY <1>1, <1>3, <1>4, <1>5, <2>1 DEF NoticesInv, NoticesOrdered, Pipeline
  <2>4. NoticeAccounted'
    <3>1. \A f \in Notables : (fate[f] = "delivering" <=> work.event = f)'
      BY <1>3, <1>4, <2>1
    <3>2. \A f \in Notables : /\ (fate[f] = "published" <=> f \in Range(stream))'
                              /\ (fate[f] = "queued" <=> f \in Range(jobs))'
      BY <1>1, <1>2, <1>3, <1>4, <2>1 DEF NoticesInv, NoticeAccounted
    <3>3. ASSUME NEW g \in Notables, fate'[g] \in Pipeline, NEW f \in Notables, f > g
          PROVE  fate'[f] \notin {"delivering", "delivered", "reported"}
      <4>1. g = e \/ e < g
        BY <1>3, <1>4, <1>5, <3>3 DEF Pipeline
      <4>2. f # e
        BY <1>1, <1>5, <3>3, <4>1
      <4>3. fate[g] \in Pipeline
        BY <1>3, <1>4, <3>3 DEF Pipeline
      <4>4. QED
        BY <1>4, <3>3, <4>2, <4>3 DEF NoticesInv, NoticeAccounted, Pipeline
    <3>4. QED
      BY <3>1, <3>2, <3>3 DEF NoticeAccounted, Pipeline
  <2>5. QED
    BY <2>2, <2>3, <2>4 DEF NoticesInv
<1>8. QED
  BY <1>2, <1>6, <1>7

\* The delivery under way ends, with whatever result.
LEMMA DeliveryEnds ==
  ASSUME NoticesInv, NEW how \in {"delivered", "reported", "reconfigured"}, work.event # 0,
         Ends1(work.event, how), stream' = stream, jobs' = jobs
  PROVE  NoticesInv'
<1> DEFINE e == work.event
<1>1. e \in Notables /\ work' = NoWork /\ NoWork.event = 0
  BY DEF NoticesInv, NoticeTypes, Ends1, NoWork
<1> HIDE DEF e
<1>2. \A f \in Notables : f # 0 /\ f \in Nat
  BY NotablesAssumption
<1>3. fate[e] = "delivering" /\ \A f \in Notables : fate[f] = "delivering" => f = e
  BY <1>1 DEF NoticesInv, NoticeAccounted, e
<1>4. fate'[e] = how /\ \A f \in Notables : f # e => fate'[f] = fate[f]
  BY <1>1 DEF NoticesInv, NoticeTypes, Ends1, Sends, e
<1>5. NoticeTypes'
  BY <1>1 DEF NoticesInv, NoticeTypes, Ends1, Sends, Fates, Pipeline, e
<1>6. NoticesOrdered'
  BY <1>3, <1>4 DEF NoticesInv, NoticesOrdered
<1>7. NoticeAccounted'
  <2>1. ASSUME NEW g \in Notables, fate'[g] \in Pipeline, NEW f \in Notables, f > g
        PROVE  fate'[f] \notin {"delivering", "delivered", "reported"}
    <3>1. g # e /\ fate[g] \in {"published", "queued"}
      BY <1>3, <1>4, <2>1 DEF Pipeline
    <3>2. e < g
      BY <1>1, <1>3, <3>1 DEF NoticesInv, NoticesOrdered
    <3>3. f # e
      BY <1>1, <1>2, <2>1, <3>2
    <3>4. QED
      BY <1>4, <2>1, <3>1, <3>3 DEF NoticesInv, NoticeAccounted
  <2>2. \A f \in Notables : (fate[f] = "delivering" <=> work.event = f)'
    BY <1>1, <1>2, <1>3, <1>4
  <2>3. \A f \in Notables : /\ (fate[f] = "published" <=> f \in Range(stream))'
                            /\ (fate[f] = "queued" <=> f \in Range(jobs))'
    BY <1>3, <1>4 DEF NoticesInv, NoticeAccounted
  <2>4. QED
    BY <2>1, <2>2, <2>3 DEF NoticeAccounted, Pipeline
<1>8. QED
  BY <1>5, <1>6, <1>7 DEF NoticesInv

\* The delivery under way goes on, or is told that it is canceled.
LEMMA DeliveryGoesOn ==
  ASSUME NoticesInv, UNCHANGED <<stream, jobs, fate>>, work.event # 0, work'.event = work.event,
         work' \in [event : Notables, hook : {work'.hook}, at : {"post", "wait", "again"}, canceled : BOOLEAN]
  PROVE  NoticesInv'
<1>1. work' # NoWork
  BY DEF NoWork
<1>2. NoticeTypes'
  BY <1>1 DEF NoticesInv, NoticeTypes
<1>3. NoticesOrdered' /\ NoticeAccounted'
  BY DEF NoticesInv, NoticesOrdered, NoticeAccounted
<1>4. QED
  BY <1>2, <1>3 DEF NoticesInv

LEMMA RestartNoticesStep == NoticesInv /\ RestartNotices => NoticesInv'
<1> SUFFICES ASSUME NoticesInv, RestartNotices
             PROVE  NoticesInv'
  OBVIOUS
<1>1. stream' = <<>> /\ jobs' = <<>> /\ work' = NoWork /\ NoWork.event = 0
  BY DEF RestartNotices, NoWork
<1>2. \A e \in Notables :
        /\ fate'[e] \notin Pipeline
        /\ fate'[e] # "restart" => fate'[e] = fate[e]
        /\ fate'[e] = "unsent" <=> fate[e] = "unsent"
  BY DEF RestartNotices, NoticesInv, NoticeTypes, Pipeline
<1>3. NoticeTypes'
  BY <1>1, RisingEmpty DEF RestartNotices, NoticesInv, NoticeTypes, Fates, Pipeline
<1>4. NoticesOrdered'
  BY <1>2 DEF NoticesInv, NoticesOrdered, Pipeline
<1>5. NoticeAccounted'
  BY <1>1, <1>2, RisingEmpty, NotablesAssumption DEF NoticeAccounted, Pipeline
<1>6. QED
  BY <1>3, <1>4, <1>5 DEF NoticesInv

LEMMA NoticesStep == NoticesInv /\ [NoticesNext]_noticeVars => NoticesInv'
<1> SUFFICES ASSUME NoticesInv, [NoticesNext]_noticeVars
             PROVE  NoticesInv'
  OBVIOUS
<1>1. work = NoWork <=> work.event = 0
  BY DEF NoticesInv, NoticeTypes
<1>2. work.event # 0 =>
        work \in [event : Notables, hook : {work.hook}, at : {"post", "wait", "again"}, canceled : BOOLEAN]
  BY DEF NoticesInv, NoticeTypes
<1>3. NoWork.at = "idle"
  BY DEF NoWork
<1>4. CASE CancelArrives
  BY <1>1, <1>2, <1>4, DeliveryGoesOn DEF CancelArrives
<1>5. CASE PostFails
  BY <1>1, <1>2, <1>3, <1>5, DeliveryGoesOn DEF PostFails
<1>6. CASE Posts
  BY <1>1, <1>3, <1>6, DeliveryEnds DEF Posts
<1>7. CASE RetryFails
  BY <1>1, <1>3, <1>7, DeliveryEnds DEF RetryFails
<1>8. CASE WaitsForRetry
  <2>1. CASE work' = [work EXCEPT !.at = "again"] /\ UNCHANGED fate
    BY <1>1, <1>2, <1>3, <1>8, <2>1, DeliveryGoesOn DEF WaitsForRetry
  <2>2. CASE Ends1(work.event, "reconfigured")
    BY <1>1, <1>3, <1>8, <2>2, DeliveryEnds DEF WaitsForRetry
  <2>3. QED
    BY <1>8, <2>1, <2>2 DEF WaitsForRetry
<1>9. CASE SaveHook \/ ClearHook \/ UNCHANGED noticeVars
  <2>1. UNCHANGED <<stream, jobs, work, fate>>
    BY <1>9 DEF SaveHook, ClearHook, noticeVars
  <2>2. QED
    BY <2>1 DEF NoticesInv, NoticeTypes, NoticesOrdered, NoticeAccounted
<1>10. QED
  BY <1>4, <1>5, <1>6, <1>7, <1>8, <1>9, PublishNoticeStep, ForwardsStep, DeliversStep,
     RestartNoticesStep
     DEF NoticesNext

\* Every notifiable event is in exactly the place its fate says, and none
\* overtakes an earlier one (notifications/manager.go Start and deliver), for every
\* number of events, buffer size and queue capacity.
THEOREM NoticesCorrect == NoticesSpec => []NoticeAccounted
<1>1. NoticesInv => NoticeAccounted
  BY DEF NoticesInv
<1>2. QED
  BY <1>1, NoticesInitially, NoticesStep, PTL DEF NoticesSpec

-----------------------------------------------------------------------------
(* The mailbox                                                              *)

Hows == {"withdrawn", "consumed", "dropped", "acted", "overwritten"}

\* A mail that is somewhere is one of the mails written.
Written(m) == m.id \in DOMAIN mailSeq /\ m = [id |-> m.id, verb |-> mailSeq[m.id]]

MailTypes ==
  /\ mailSeq \in Seq(Verbs) /\ Len(mailSeq) <= MaxMails
  /\ mailIn = NoMail \/ Written(mailIn)
  /\ checking = NoCheck \/ (Written(checking.mail) /\ checking.by \in {"boundary", "gate", "gate_off"})
  /\ effects \in [MailIds -> Nat] /\ unclear \in [MailIds -> Nat]
  /\ ended \in [MailIds -> SUBSET Hows]

\* A mail still in INBOX.md or being looked at has not ended.
MailOpen ==
  /\ mailIn # NoMail => ended[mailIn.id] = {}
  /\ checking # NoCheck => ended[checking.mail.id] = {}

\* A task is in PLAN.md once for each look at it: the failed clears, and one more
\* while it is looked at or once it has ended.
TaskEffects(i) ==
  /\ "acted" \notin ended[i]
  /\ effects[i] <= unclear[i] + (IF checking.mail.id = i \/ ended[i] # {} THEN 1 ELSE 0)

\* Any other mail had its effect if and only if it ended by being acted on.
OtherEffects(i) == effects[i] = IF "acted" \in ended[i] THEN 1 ELSE 0

MailEffects ==
  /\ \A i \in DOMAIN mailSeq : IF mailSeq[i] = "TASK" THEN TaskEffects(i) ELSE OtherEffects(i)
  /\ \A i \in MailIds \ DOMAIN mailSeq : effects[i] = 0 /\ unclear[i] = 0 /\ ended[i] = {}

MailPlaces == \A i \in DOMAIN mailSeq : ended[i] = {} => i \in {mailIn.id, checking.mail.id}

MailInv == MailTypes /\ MailOpen /\ MailEffects /\ MailPlaces

LEMMA MailInvSuffices == MailInv => MailConserved
<1> SUFFICES ASSUME MailInv, NEW i \in DOMAIN mailSeq
             PROVE  /\ ended[i] = {} => i \in {mailIn.id, checking.mail.id}
                    /\ effects[i] <= 1 + (IF mailSeq[i] = "TASK" THEN unclear[i] ELSE 0)
                    /\ "acted" \in ended[i] => effects[i] = 1
  BY DEF MailConserved
<1>1. i \in MailIds /\ effects[i] \in Nat /\ unclear[i] \in Nat
  BY MailsAssumption DEF MailInv, MailTypes, MailIds
<1>2. CASE mailSeq[i] = "TASK"
  BY <1>1, <1>2 DEF MailInv, MailEffects, TaskEffects, MailPlaces
<1>3. CASE mailSeq[i] # "TASK"
  BY <1>1, <1>3 DEF MailInv, MailEffects, OtherEffects, MailPlaces
<1>4. QED
  BY <1>2, <1>3

LEMMA MailInitially == OperatorFilesMailInit => MailInv
<1> SUFFICES ASSUME OperatorFilesMailInit
             PROVE  MailInv
  OBVIOUS
<1>1. <<>> \in Seq(Verbs) /\ Len(<<>>) = 0 /\ DOMAIN <<>> = {}
  OBVIOUS
<1>2. MailTypes
  BY <1>1, MailsAssumption DEF OperatorFilesMailInit, MailTypes
<1>3. MailOpen /\ MailEffects /\ MailPlaces
  BY <1>1 DEF OperatorFilesMailInit, MailOpen, MailEffects, MailPlaces
<1>4. QED
  BY <1>2, <1>3 DEF MailInv

\* Where the mails are, in terms of their numbers.
LEMMA MailIdentity ==
  ASSUME MailInv
  PROVE  /\ NoMail.id = 0 /\ NoCheck.mail = NoMail /\ DOMAIN mailSeq = 1 .. Len(mailSeq)
         /\ Len(mailSeq) \in Nat /\ DOMAIN mailSeq \subseteq MailIds
         /\ mailIn = NoMail <=> mailIn.id = 0
         /\ checking = NoCheck <=> checking.mail.id = 0
         /\ mailIn # NoMail => mailIn.id \in DOMAIN mailSeq /\ mailIn.verb = mailSeq[mailIn.id]
         /\ checking # NoCheck =>
              checking.mail.id \in DOMAIN mailSeq /\ checking.mail.verb = mailSeq[checking.mail.id]
         /\ mailIn = checking.mail <=> mailIn.id = checking.mail.id
<1>1. NoMail.id = 0 /\ NoCheck.mail = NoMail
  BY DEF NoMail, NoCheck
<1>2. /\ DOMAIN mailSeq = 1 .. Len(mailSeq) /\ Len(mailSeq) \in Nat
      /\ DOMAIN mailSeq \subseteq MailIds
  BY MailsAssumption DEF MailInv, MailTypes, MailIds
<1>3. 0 \notin DOMAIN mailSeq
  BY <1>2
<1>4. /\ mailIn = NoMail \/ Written(mailIn)
      /\ checking = NoCheck \/ Written(checking.mail)
  BY DEF MailInv, MailTypes
<1>5. mailIn = checking.mail <=> mailIn.id = checking.mail.id
  BY <1>1, <1>3, <1>4 DEF Written
<1>6. /\ mailIn # NoMail => mailIn.id \in DOMAIN mailSeq /\ mailIn.verb = mailSeq[mailIn.id]
      /\ checking # NoCheck =>
              checking.mail.id \in DOMAIN mailSeq /\ checking.mail.verb = mailSeq[checking.mail.id]
  BY <1>4 DEF Written
<1>7. QED
  BY <1>1, <1>2, <1>3, <1>5, <1>6

LEMMA WriteMailStep ==
  ASSUME MailInv, NEW verb \in Verbs, WriteMail(verb)
  PROVE  MailInv'
<1> DEFINE n == Len(mailSeq) + 1
<1>1. /\ n \in MailIds /\ n \notin DOMAIN mailSeq /\ n # 0
      /\ mailSeq' = Append(mailSeq, verb) /\ mailIn' = [id |-> n, verb |-> verb]
      /\ UNCHANGED <<checking, effects, unclear>>
  BY MailIdentity, MailsAssumption DEF WriteMail, MailIds
<1>2. /\ mailSeq' \in Seq(Verbs) /\ Len(mailSeq') <= MaxMails /\ DOMAIN mailSeq' = DOMAIN mailSeq \cup {n}
      /\ mailSeq'[n] = verb /\ \A i \in DOMAIN mailSeq : mailSeq'[i] = mailSeq[i]
  BY <1>1, MailsAssumption DEF MailInv, MailTypes, WriteMail
<1> HIDE DEF n
<1>3. ended' = ended \/ (/\ mailIn # NoMail /\ mailIn # checking.mail
                         /\ ended' = [ended EXCEPT ![mailIn.id] = @ \cup {"withdrawn"}])
  BY DEF WriteMail, Leaves
<1>4. \A i \in MailIds : i # mailIn.id \/ mailIn = NoMail \/ mailIn = checking.mail => ended'[i] = ended[i]
  BY <1>3 DEF MailInv, MailTypes
<1>5. ended' \in [MailIds -> SUBSET Hows]
  BY <1>3, MailIdentity, ZenonT(40) DEF MailInv, MailTypes, Hows
<1>6. mailIn # NoMail /\ mailIn # checking.mail => ended'[mailIn.id] # {}
  <2>1. mailIn # NoMail => mailIn.id \in MailIds
    BY MailIdentity
  <2>2. QED
    BY <2>1 DEF WriteMail, Leaves, MailInv, MailTypes
<1>7. \A i \in MailIds : "acted" \in ended'[i] <=> "acted" \in ended[i]
  <2>1. CASE ended' = ended
    BY <2>1
  <2>2. CASE ended' = [ended EXCEPT ![mailIn.id] = @ \cup {"withdrawn"}]
    <3>1. \A i \in MailIds : ended'[i] = IF i = mailIn.id THEN ended[i] \cup {"withdrawn"} ELSE ended[i]
      BY <2>2 DEF MailInv, MailTypes
    <3>2. "acted" # "withdrawn"
      OBVIOUS
    <3>3. QED
      BY <3>1, <3>2, Zenon
  <2>3. QED
    BY <1>3, <2>1, <2>2
<1>8. MailTypes'
  <2>1. Written(mailIn)'
    BY <1>1, <1>2 DEF Written
  <2>2. checking # NoCheck => Written(checking.mail)'
    BY <1>1, <1>2 DEF MailInv, MailTypes, Written
  <2>3. QED
    BY <1>1, <1>2, <1>5, <2>1, <2>2 DEF MailInv, MailTypes
<1>9. MailOpen'
  <2>1. ended'[n] = {}
    BY <1>1, <1>4, MailIdentity DEF MailInv, MailEffects
  <2>2. checking # NoCheck => ended'[checking.mail.id] = {}
    BY <1>4, MailIdentity DEF MailInv, MailOpen
  <2>3. QED
    BY <1>1, <2>1, <2>2 DEF MailOpen
<1>10. MailEffects'
  <2>1. \A i \in MailIds \ DOMAIN mailSeq' : effects'[i] = 0 /\ unclear'[i] = 0 /\ ended'[i] = {}
    BY <1>1, <1>2, <1>4, MailIdentity DEF MailInv, MailEffects
  <2>2. ASSUME NEW i \in DOMAIN mailSeq
        PROVE  (IF mailSeq[i] = "TASK" THEN TaskEffects(i) ELSE OtherEffects(i))'
    <3>1. /\ i \in MailIds /\ mailSeq'[i] = mailSeq[i] /\ effects'[i] = effects[i]
          /\ unclear'[i] = unclear[i] /\ unclear[i] \in Nat /\ effects[i] \in Nat
      BY <1>1, <1>2, MailIdentity DEF MailInv, MailTypes
    <3>2. ended[i] # {} => ended'[i] # {}
      BY <1>4, <1>6, <3>1
    <3>3. CASE mailSeq[i] = "TASK"
      BY <1>1, <1>7, <3>1, <3>2, <3>3 DEF MailInv, MailEffects, TaskEffects
    <3>4. CASE mailSeq[i] # "TASK"
      BY <1>7, <3>1, <3>4 DEF MailInv, MailEffects, OtherEffects
    <3>5. QED
      BY <3>1, <3>3, <3>4
  <2>3. ASSUME NEW i \in DOMAIN mailSeq', i = n
        PROVE  (IF mailSeq[i] = "TASK" THEN TaskEffects(i) ELSE OtherEffects(i))'
    <3>1. effects'[i] = 0 /\ unclear'[i] = 0 /\ ended'[i] = {}
      BY <1>1, <1>4, <2>3, MailIdentity DEF MailInv, MailEffects
    <3>2. QED
      BY <3>1 DEF TaskEffects, OtherEffects
  <2>4. QED
    BY <1>2, <2>1, <2>2, <2>3 DEF MailEffects
<1>11. MailPlaces'
  <2>1. SUFFICES ASSUME NEW i \in DOMAIN mailSeq', ended'[i] = {}
                 PROVE  i \in {mailIn'.id, checking'.mail.id}
    BY DEF MailPlaces
  <2>2. CASE i = n
    BY <1>1, <2>2
  <2>3. CASE i \in DOMAIN mailSeq
    <3>1. i \in MailIds /\ i # 0
      BY <2>3, MailIdentity
    <3>2. ~(i = mailIn.id /\ mailIn # NoMail /\ mailIn # checking.mail)
      BY <1>6, <2>1
    <3>3. ended[i] = {}
      BY <1>4, <2>1, <3>1, <3>2
    <3>4. QED
      BY <1>1, <2>3, <3>1, <3>2, <3>3, MailIdentity DEF MailInv, MailPlaces
  <2>4. QED
    BY <1>2, <2>1, <2>2, <2>3
<1>12. QED
  BY <1>8, <1>9, <1>10, <1>11 DEF MailInv

LEMMA CheckReadsStep ==
  ASSUME MailInv, NEW by \in {"boundary", "gate", "gate_off"}, CheckReads(by)
  PROVE  MailInv'
<1> DEFINE m == mailIn.id
<1>1. /\ checking = NoCheck /\ mailIn # NoMail /\ checking' = [mail |-> mailIn, by |-> by]
      /\ checking'.mail = mailIn /\ checking'.by = by
      /\ UNCHANGED <<mailIn, mailSeq, ended, unclear>>
  BY DEF CheckReads
<1>2. /\ m \in DOMAIN mailSeq /\ m \in MailIds /\ mailIn.verb = mailSeq[m] /\ ended[m] = {}
      /\ checking.mail.id = 0 /\ m # 0 /\ checking.mail = NoMail
  BY <1>1, MailIdentity DEF MailInv, MailOpen
<1>3. effects' = IF mailSeq[m] = "TASK" THEN [effects EXCEPT ![m] = @ + 1] ELSE effects
  BY <1>2 DEF CheckReads
<1>4. effects' \in [MailIds -> Nat]
  BY <1>2, <1>3 DEF MailInv, MailTypes
<1> HIDE DEF m
<1>5. MailTypes'
  <2>1. Written(mailIn)
    BY <1>1 DEF MailInv, MailTypes
  <2>2. (Written(checking.mail))'
    BY <1>1, <2>1 DEF Written
  <2>3. (Written(mailIn))'
    BY <1>1, <2>1 DEF Written
  <2>4. QED
    BY <1>1, <1>4, <2>2, <2>3 DEF MailInv, MailTypes
<1>6. MailOpen'
  BY <1>1, <1>2 DEF MailOpen, m
<1>7. MailPlaces'
  BY <1>1, <1>2, MailIdentity DEF MailInv, MailPlaces
<1>8. MailEffects'
  <2>1. \A i \in MailIds \ DOMAIN mailSeq : effects'[i] = effects[i]
    BY <1>2, <1>3 DEF MailInv, MailTypes
  <2>2. ASSUME NEW i \in DOMAIN mailSeq
        PROVE  (IF mailSeq[i] = "TASK" THEN TaskEffects(i) ELSE OtherEffects(i))'
    <3>1. i \in MailIds /\ i # 0 /\ effects[i] \in Nat /\ unclear[i] \in Nat
      BY MailIdentity DEF MailInv, MailTypes
    <3>2. CASE mailSeq[i] = "TASK" /\ i = m
      <4>1. effects'[i] = effects[i] + 1 /\ checking'.mail.id = i
        BY <1>1, <1>3, <3>1, <3>2 DEF MailInv, MailTypes, m
      <4>2. effects[i] <= unclear[i]
        BY <1>2, <3>1, <3>2 DEF MailInv, MailEffects, TaskEffects
      <4>3. QED
        BY <1>1, <1>2, <3>1, <3>2, <4>1, <4>2 DEF TaskEffects
    <3>3. CASE mailSeq[i] = "TASK" /\ i # m
      <4>1. effects'[i] = effects[i]
        BY <1>3, <3>1, <3>3 DEF MailInv, MailTypes
      <4>2. QED
        BY <1>1, <1>2, <3>1, <3>3, <4>1 DEF MailInv, MailEffects, TaskEffects
    <3>4. CASE mailSeq[i] # "TASK"
      <4>1. effects'[i] = effects[i]
        BY <1>3, <3>1, <3>4 DEF MailInv, MailTypes
      <4>2. QED
        BY <1>1, <3>4, <4>1 DEF MailInv, MailEffects, OtherEffects
    <3>5. QED
      BY <3>2, <3>3, <3>4
  <2>3. QED
    BY <1>1, <2>1, <2>2 DEF MailInv, MailEffects
<1>9. QED
  BY <1>5, <1>6, <1>7, <1>8 DEF MailInv

\* What the end of a look leaves: the mail is no longer looked at, and it ended or
\* is still in INBOX.md.
LEMMA LookEnds ==
  ASSUME MailInv, checking # NoCheck, checking' = NoCheck, mailSeq' = mailSeq,
         mailIn' \in {mailIn, NoMail},
         ended' \in [MailIds -> SUBSET Hows], effects' \in [MailIds -> Nat],
         unclear' \in [MailIds -> Nat],
         \A i \in MailIds : i \notin {mailIn.id, checking.mail.id} =>
            ended'[i] = ended[i] /\ effects'[i] = effects[i] /\ unclear'[i] = unclear[i],
         mailIn' # NoMail => ended'[mailIn.id] = {},
         \A i \in DOMAIN mailSeq : i \in {mailIn.id, checking.mail.id} =>
            /\ ended'[i] = {} => i = mailIn'.id
            /\ (IF mailSeq[i] = "TASK" THEN TaskEffects(i) ELSE OtherEffects(i))'
  PROVE  MailInv'
<1>1. checking'.mail.id = 0 /\ mailIn'.id \in {mailIn.id, 0}
  BY MailIdentity
<1>2. MailTypes'
  <2>1. mailIn' = NoMail \/ (Written(mailIn))'
    BY DEF MailInv, MailTypes, Written
  <2>2. QED
    BY <2>1 DEF MailInv, MailTypes
<1>3. MailOpen'
  BY DEF MailOpen
<1>4. MailPlaces'
  <2>1. SUFFICES ASSUME NEW i \in DOMAIN mailSeq, ended'[i] = {}
                 PROVE  i = mailIn'.id
    BY DEF MailPlaces
  <2>2. CASE i \in {mailIn.id, checking.mail.id}
    BY <2>1, <2>2
  <2>3. CASE i \notin {mailIn.id, checking.mail.id}
    BY <2>1, <2>3, MailIdentity DEF MailInv, MailPlaces
  <2>4. QED
    BY <2>2, <2>3
<1>5. MailEffects'
  <2>1. ASSUME NEW i \in DOMAIN mailSeq
        PROVE  (IF mailSeq[i] = "TASK" THEN TaskEffects(i) ELSE OtherEffects(i))'
    <3>1. CASE i \in {mailIn.id, checking.mail.id}
      BY <3>1
    <3>2. CASE i \notin {mailIn.id, checking.mail.id}
      <4>1. /\ i \in MailIds /\ ended'[i] = ended[i] /\ effects'[i] = effects[i]
            /\ unclear'[i] = unclear[i] /\ i # 0
        BY <3>2, MailIdentity
      <4>2. QED
        BY <1>1, <3>2, <4>1 DEF MailInv, MailEffects, TaskEffects, OtherEffects
    <3>3. QED
      BY <3>1, <3>2
  <2>2. ASSUME NEW i \in MailIds, i \notin DOMAIN mailSeq
        PROVE  effects'[i] = 0 /\ unclear'[i] = 0 /\ ended'[i] = {}
    <3>1. i \notin {mailIn.id, checking.mail.id}
      BY <2>2, MailIdentity, MailsAssumption DEF MailIds
    <3>2. QED
      BY <2>2, <3>1 DEF MailInv, MailEffects
  <2>3. QED
    BY <2>1, <2>2 DEF MailEffects
<1>6. QED
  BY <1>2, <1>3, <1>4, <1>5 DEF MailInv

LEMMA CheckClearsStep == MailInv /\ CheckClears => MailInv'
<1> SUFFICES ASSUME MailInv, CheckClears
             PROVE  MailInv'
  OBVIOUS
<1>1. PICK m \in MailIds : m = checking.mail.id
  BY MailIdentity DEF CheckClears
<1>2. PICK how \in Hows : how = ReturnedAction(checking)
  BY DEF ReturnedAction, Hows
<1>3. /\ checking # NoCheck /\ checking' = NoCheck /\ mailIn' = NoMail /\ mailSeq' = mailSeq
      /\ unclear' = unclear
      /\ effects' = IF how = "acted" THEN [effects EXCEPT ![m] = @ + 1] ELSE effects
      /\ ended' = [i \in MailIds |-> ended[i] \cup (IF i = m THEN {how} ELSE {})
                                      \cup (IF i = mailIn.id /\ i # m THEN {"overwritten"} ELSE {})]
  BY <1>1, <1>2 DEF CheckClears
<1>4. m \in DOMAIN mailSeq /\ mailSeq[m] = checking.mail.verb /\ ended[m] = {} /\ m # 0
  BY <1>1, <1>3, MailIdentity DEF MailInv, MailOpen
<1>5. mailSeq[m] = "TASK" => how = "consumed"
  BY <1>2, <1>4 DEF ReturnedAction
<1>6. how # "overwritten"
  BY <1>2 DEF ReturnedAction
<1>7. /\ ended' \in [MailIds -> SUBSET Hows] /\ effects' \in [MailIds -> Nat]
      /\ unclear' \in [MailIds -> Nat]
  BY <1>3 DEF MailInv, MailTypes, Hows
<1>8. \A i \in MailIds : i \notin {mailIn.id, m} =>
        ended'[i] = ended[i] /\ effects'[i] = effects[i] /\ unclear'[i] = unclear[i]
  BY <1>3 DEF MailInv, MailTypes
<1>9. ASSUME NEW i \in DOMAIN mailSeq, i \in {mailIn.id, m}
      PROVE  /\ ended'[i] # {}
             /\ (IF mailSeq[i] = "TASK" THEN TaskEffects(i) ELSE OtherEffects(i))'
  <2>1. i \in MailIds /\ i # 0 /\ effects[i] \in Nat /\ unclear[i] \in Nat
    BY MailIdentity DEF MailInv, MailTypes
  <2>2. CASE i = m
    <3>1. ended'[i] = {how}
      BY <1>3, <1>4, <2>1, <2>2
    <3>2. CASE mailSeq[i] = "TASK"
      <4>1. effects'[i] = effects[i] /\ effects[i] <= unclear[i] + 1
        BY <1>1, <1>3, <1>5, <2>1, <2>2, <3>2 DEF MailInv, MailEffects, TaskEffects
      <4>2. QED
        BY <1>3, <1>5, <2>1, <2>2, <3>1, <3>2, <4>1 DEF TaskEffects
    <3>3. CASE mailSeq[i] # "TASK"
      <4>1. effects[i] = 0
        BY <1>4, <2>2, <3>3 DEF MailInv, MailEffects, OtherEffects
      <4>2. effects'[i] = IF how = "acted" THEN 1 ELSE 0
        BY <1>3, <2>1, <2>2, <4>1 DEF MailInv, MailTypes
      <4>3. QED
        BY <1>3, <3>1, <3>3, <4>2 DEF OtherEffects
    <3>4. QED
      BY <3>1, <3>2, <3>3
  <2>3. CASE i # m
    <3>1. i = mailIn.id /\ ended[i] = {} /\ effects'[i] = effects[i]
      BY <1>3, <1>9, <2>1, <2>3, MailIdentity DEF MailInv, MailOpen, MailTypes
    <3>2. ended'[i] = {"overwritten"}
      BY <1>3, <2>1, <2>3, <3>1
    <3>3. CASE mailSeq[i] = "TASK"
      <4>1. effects[i] <= unclear[i]
        BY <1>1, <2>1, <2>3, <3>1, <3>3 DEF MailInv, MailEffects, TaskEffects
      <4>2. "acted" \notin ended'[i] /\ ended'[i] # {}
        BY <3>2
      <4>3. effects'[i] <= unclear'[i] + 1
        BY <1>3, <2>1, <3>1, <4>1
      <4>4. QED
        BY <1>3, <3>3, <4>2, <4>3 DEF TaskEffects
    <3>4. CASE mailSeq[i] # "TASK"
      BY <1>3, <3>1, <3>2, <3>4 DEF MailInv, MailEffects, OtherEffects
    <3>5. QED
      BY <3>2, <3>3, <3>4
  <2>4. QED
    BY <2>2, <2>3
<1>10. QED
  BY <1>1, <1>3, <1>7, <1>8, <1>9, LookEnds

LEMMA ClearFailsStep == MailInv /\ ClearFails => MailInv'
<1> SUFFICES ASSUME MailInv, ClearFails
             PROVE  MailInv'
  OBVIOUS
<1>1. PICK m \in MailIds : m = checking.mail.id
  BY MailIdentity DEF ClearFails
<1>2. /\ checking # NoCheck /\ checking' = NoCheck /\ UNCHANGED <<mailIn, mailSeq, effects>>
      /\ unclear' = [unclear EXCEPT ![m] = @ + 1]
      /\ ended' = IF mailIn.id # m THEN [ended EXCEPT ![m] = @ \cup {"withdrawn"}] ELSE ended
  BY <1>1, MailIdentity DEF ClearFails, Leaves
<1>3. m \in DOMAIN mailSeq /\ ended[m] = {} /\ m # 0
  BY <1>1, <1>2, MailIdentity DEF MailInv, MailOpen
<1>4. /\ ended' \in [MailIds -> SUBSET Hows] /\ effects' \in [MailIds -> Nat]
      /\ unclear' \in [MailIds -> Nat]
  BY <1>2 DEF MailInv, MailTypes, Hows
<1>5. \A i \in MailIds : i # m => ended'[i] = ended[i] /\ effects'[i] = effects[i] /\ unclear'[i] = unclear[i]
  BY <1>2 DEF MailInv, MailTypes
<1>6. mailIn # NoMail => ended'[mailIn.id] = {}
  BY <1>2, <1>3, <1>5, MailIdentity DEF MailInv, MailOpen
<1>7. ASSUME NEW i \in DOMAIN mailSeq, i \in {mailIn.id, m}
      PROVE  /\ ended'[i] = {} => i = mailIn.id
             /\ (IF mailSeq[i] = "TASK" THEN TaskEffects(i) ELSE OtherEffects(i))'
  <2>1. i \in MailIds /\ i # 0 /\ effects[i] \in Nat /\ unclear[i] \in Nat
    BY MailIdentity DEF MailInv, MailTypes
  <2>2. CASE i = m
    <3>1. /\ unclear'[i] = unclear[i] + 1 /\ effects'[i] = effects[i]
          /\ ended'[i] = IF mailIn.id # m THEN {"withdrawn"} ELSE {}
      BY <1>2, <1>3, <2>1, <2>2 DEF MailInv, MailTypes
    <3>2. CASE mailSeq[i] = "TASK"
      <4>1. effects[i] <= unclear[i] + 1
        BY <1>1, <2>1, <2>2, <3>2 DEF MailInv, MailEffects, TaskEffects
      <4>2. "acted" \notin ended'[i]
        BY <3>1
      <4>3. effects'[i] <= unclear'[i]
        BY <2>1, <3>1, <4>1
      <4>4. QED
        BY <1>2, <2>1, <3>1, <3>2, <4>2, <4>3 DEF TaskEffects
    <3>3. CASE mailSeq[i] # "TASK"
      BY <1>2, <1>3, <2>2, <3>1, <3>3 DEF MailInv, MailEffects, OtherEffects
    <3>4. QED
      BY <2>2, <3>1, <3>2, <3>3
  <2>3. CASE i # m
    <3>1. /\ i = mailIn.id /\ ended'[i] = ended[i] /\ effects'[i] = effects[i]
          /\ unclear'[i] = unclear[i]
      BY <1>5, <1>7, <2>1, <2>3
    <3>2. CASE mailSeq[i] = "TASK"
      BY <1>1, <1>2, <2>1, <2>3, <3>1, <3>2, MailIdentity DEF MailInv, MailEffects, TaskEffects
    <3>3. CASE mailSeq[i] # "TASK"
      BY <1>2, <3>1, <3>3 DEF MailInv, MailEffects, OtherEffects
    <3>4. QED
      BY <3>1, <3>2, <3>3
  <2>4. QED
    BY <2>2, <2>3
<1>8. QED
  BY <1>1, <1>2, <1>4, <1>5, <1>6, <1>7, LookEnds

LEMMA MailStep == MailInv /\ [OperatorFilesMailNext]_mailFileVars => MailInv'
<1>1. ASSUME MailInv, UNCHANGED mailFileVars
      PROVE  MailInv'
  BY <1>1
     DEF mailFileVars, MailInv, MailTypes, MailOpen, MailEffects, MailPlaces, TaskEffects, OtherEffects,
         Written
<1>2. QED
  BY <1>1, WriteMailStep, CheckReadsStep, CheckClearsStep, ClearFailsStep DEF OperatorFilesMailNext

-----------------------------------------------------------------------------
(* Adoption of instructions                                                 *)

AdoptRecs == [at : {"idle", "read", "created", "written"}, read : SUBSET (Nat \ {0}),
              names : SUBSET Sources, cleanup : BOOLEAN]

AdoptTypes ==
  /\ edits \in Nat
  /\ instr \in [Sources \cup {Target} -> SUBSET Nat]
  /\ \A f \in Sources \cup {Target} : instr[f] # Missing => 0 \notin instr[f]
  /\ latest \in [Sources -> Nat \ {0}]
  /\ adopting \in [Adopters -> AdoptRecs]

\* O_EXCL lets one request at a time own AGENT_B.md, which is empty until it
\* wrote what it had read.
OneOwner ==
  /\ \A a, b \in Adopters :
       adopting[a].at \in {"created", "written"} /\ adopting[b].at \in {"created", "written"} => a = b
  /\ \A a \in Adopters : adopting[a].at = "created" => instr[Target] = {}
  /\ \A a \in Adopters : adopting[a].at = "written" => instr[Target] = adopting[a].read

\* A request holds the latest text of every file it may remove, unless the
\* operator edited it since.
HoldsLatest ==
  \A a \in Adopters, f \in Sources : f \in adopting[a].names /\ f \notin late => latest[f] \in adopting[a].read

AdoptInv == AdoptTypes /\ OneOwner /\ HoldsLatest /\ InstructionsKept

LEMMA AdoptNames == Target \notin Sources /\ NotAdopting.names = {} /\ NotAdopting.at = "idle"
  BY DEF Target, Sources, NotAdopting

LEMMA AdoptRecTypes ==
  /\ NotAdopting \in AdoptRecs
  /\ \A r \in AdoptRecs, ns \in SUBSET Sources :
       /\ [r EXCEPT !.at = "created"] \in AdoptRecs /\ [r EXCEPT !.at = "written"] \in AdoptRecs
       /\ [r EXCEPT !.names = ns] \in AdoptRecs
       /\ r.read \in SUBSET (Nat \ {0}) /\ r.names \in SUBSET Sources
<1>1. NotAdopting \in AdoptRecs
  BY DEF NotAdopting, AdoptRecs
<1>2. ASSUME NEW r \in AdoptRecs, NEW ns \in SUBSET Sources
      PROVE  /\ [r EXCEPT !.at = "created"] \in AdoptRecs /\ [r EXCEPT !.at = "written"] \in AdoptRecs
             /\ [r EXCEPT !.names = ns] \in AdoptRecs
             /\ r.read \in SUBSET (Nat \ {0}) /\ r.names \in SUBSET Sources
  BY DEF AdoptRecs
<1>3. QED
  BY <1>1, <1>2

LEMMA AdoptInitially == OperatorFilesAdoptInit => AdoptInv
<1> SUFFICES ASSUME OperatorFilesAdoptInit
             PROVE  AdoptInv
  OBVIOUS
<1>1. AdoptTypes
  BY AdoptNames DEF OperatorFilesAdoptInit, AdoptTypes, AdoptRecs, NotAdopting, Missing, Target
<1>2. OneOwner /\ HoldsLatest
  BY AdoptNames DEF OperatorFilesAdoptInit, OneOwner, HoldsLatest
<1>3. InstructionsKept
  BY DEF OperatorFilesAdoptInit, InstructionsKept, Sources, Target
<1>4. QED
  BY <1>1, <1>2, <1>3 DEF AdoptInv

LEMMA AdoptReadsStep ==
  ASSUME AdoptInv, NEW a \in Adopters, AdoptReads(a)
  PROVE  AdoptInv'
<1>1. PICK cleanup \in BOOLEAN :
        /\ instr[Target] = Missing
        /\ adopting' = [adopting EXCEPT ![a] = [at |-> "read", names |-> Present, cleanup |-> cleanup,
                                               read |-> UNION {instr[f] : f \in Present}]]
        /\ UNCHANGED <<instr, latest, edits, late>>
  BY DEF AdoptReads, Moves
<1>2. PICK read : read = UNION {instr[f] : f \in Present}
  OBVIOUS
<1>3. read \in SUBSET (Nat \ {0}) /\ Present \in SUBSET Sources /\ \A f \in Present : instr[f] \subseteq read
  BY <1>2 DEF Present, AdoptInv, AdoptTypes, AdoptRecs
<1>4. adopting' = [adopting EXCEPT ![a] = [at |-> "read", names |-> Present, cleanup |-> cleanup,
                                          read |-> read]]
  BY <1>1, <1>2
<1>5. /\ \A b \in Adopters : b # a => adopting'[b] = adopting[b]
      /\ adopting'[a].at = "read" /\ adopting'[a].names = Present /\ adopting'[a].read = read
  BY <1>4 DEF AdoptInv, AdoptTypes, AdoptRecs
<1>6. AdoptTypes'
  BY <1>1, <1>3, <1>4 DEF AdoptInv, AdoptTypes, AdoptRecs
<1>7. OneOwner'
  BY <1>1, <1>5 DEF AdoptInv, OneOwner
<1>8. HoldsLatest'
  <2>1. SUFFICES ASSUME NEW b \in Adopters, NEW f \in Sources, f \in adopting'[b].names, f \notin late
                 PROVE  latest[f] \in adopting'[b].read
    BY <1>1 DEF HoldsLatest
  <2>2. CASE b # a
    BY <1>5, <2>1, <2>2 DEF AdoptInv, HoldsLatest
  <2>3. CASE b = a
    <3>1. f \in Present /\ latest[f] \in instr[f] \cup instr[Target] /\ latest[f] # 0
      BY <1>5, <2>1, <2>3 DEF AdoptInv, AdoptTypes, AdoptRecs, InstructionsKept
    <3>2. latest[f] \in instr[f]
      BY <1>1, <3>1 DEF Missing
    <3>3. QED
      BY <1>3, <1>5, <2>3, <3>1, <3>2
  <2>4. QED
    BY <2>2, <2>3
<1>9. InstructionsKept'
  BY <1>1 DEF AdoptInv, InstructionsKept
<1>10. QED
  BY <1>6, <1>7, <1>8, <1>9 DEF AdoptInv

\* A request gives up and leaves the files as they are.
LEMMA AdoptEnds ==
  ASSUME AdoptInv, NEW a \in Adopters, adopting' = [adopting EXCEPT ![a] = NotAdopting],
         UNCHANGED <<instr, latest, edits, late>>
  PROVE  AdoptInv'
<1>1. /\ \A b \in Adopters : b # a => adopting'[b] = adopting[b]
      /\ adopting'[a] = NotAdopting
  BY DEF AdoptInv, AdoptTypes, AdoptRecs
<1>2. AdoptTypes'
  BY DEF AdoptInv, AdoptTypes, AdoptRecs, NotAdopting
<1>3. OneOwner' /\ HoldsLatest'
  BY <1>1, AdoptNames DEF AdoptInv, OneOwner, HoldsLatest
<1>4. InstructionsKept'
  BY DEF AdoptInv, InstructionsKept
<1>5. QED
  BY <1>2, <1>3, <1>4 DEF AdoptInv

LEMMA AdoptCreatesStep ==
  ASSUME AdoptInv, NEW a \in Adopters, AdoptCreates(a)
  PROVE  AdoptInv'
<1>1. CASE instr[Target] # Missing
  BY <1>1, AdoptEnds DEF AdoptCreates, Moves
<1>2. CASE instr[Target] = Missing
  <2>1. /\ instr' = [instr EXCEPT ![Target] = {}]
        /\ adopting' = [adopting EXCEPT ![a] = [adopting[a] EXCEPT !.at = "created"]]
        /\ UNCHANGED <<latest, edits, late>>
    BY <1>2 DEF AdoptCreates, Moves
  <2>2. /\ \A b \in Adopters : b # a => adopting'[b] = adopting[b]
        /\ adopting'[a].at = "created" /\ adopting'[a].names = adopting[a].names
        /\ adopting'[a].read = adopting[a].read
    BY <2>1 DEF AdoptInv, AdoptTypes, AdoptRecs
  <2>3. /\ instr'[Target] = {} /\ \A f \in Sources : instr'[f] = instr[f]
    BY <2>1, AdoptNames DEF AdoptInv, AdoptTypes, AdoptRecs
  <2>4. \A b \in Adopters : adopting[b].at \notin {"created", "written"}
    <3>1. \A b \in Adopters : adopting[b].at = "created" => instr[Target] # Missing
      BY DEF AdoptInv, OneOwner, Missing
    <3>2. \A b \in Adopters : adopting[b].at = "written" => 0 \notin instr[Target]
      BY DEF AdoptInv, OneOwner, AdoptTypes, AdoptRecs
    <3>3. QED
      BY <1>2, <3>1, <3>2 DEF Missing
  <2>5. AdoptTypes'
    BY <2>1 DEF AdoptInv, AdoptTypes, AdoptRecs
  <2>6. OneOwner'
    BY <2>2, <2>3, <2>4 DEF OneOwner
  <2>7. HoldsLatest'
    BY <2>1, <2>2 DEF AdoptInv, HoldsLatest
  <2>8. InstructionsKept'
    <3>1. \A f \in Sources \ late : latest[f] \in instr[f]
      BY <1>2 DEF AdoptInv, AdoptTypes, AdoptRecs, InstructionsKept, Missing
    <3>2. QED
      BY <2>1, <2>3, <3>1 DEF InstructionsKept
  <2>9. QED
    BY <2>5, <2>6, <2>7, <2>8 DEF AdoptInv
<1>3. QED
  BY <1>1, <1>2

LEMMA AdoptWritesStep ==
  ASSUME AdoptInv, NEW a \in Adopters, AdoptWrites(a)
  PROVE  AdoptInv'
<1>1. PICK t, rec :
        /\ instr' = [instr EXCEPT ![Target] = t] /\ adopting' = [adopting EXCEPT ![a] = rec]
        /\ UNCHANGED <<latest, edits, late>>
        /\ \/ t = adopting[a].read /\ rec = [adopting[a] EXCEPT !.at = "written"]
           \/ t \in {adopting[a].read, Missing} /\ rec = NotAdopting
  BY DEF AdoptWrites, Moves
<1>2. adopting[a].at = "created" /\ instr[Target] = {}
  BY DEF AdoptWrites, AtAdopt, AdoptInv, OneOwner
<1>3. /\ \A b \in Adopters : b # a => adopting'[b] = adopting[b]
      /\ adopting'[a] = rec
  BY <1>1 DEF AdoptInv, AdoptTypes, AdoptRecs
<1>4. instr'[Target] = t /\ \A f \in Sources : instr'[f] = instr[f]
  BY <1>1, AdoptNames DEF AdoptInv, AdoptTypes, AdoptRecs
<1>5. \A b \in Adopters : b # a => adopting'[b].at \notin {"created", "written"}
  BY <1>2, <1>3 DEF AdoptInv, OneOwner
<1>6. AdoptTypes'
  <2>0. adopting[a] \in AdoptRecs
    BY DEF AdoptInv, AdoptTypes
  <2>1. /\ t \in SUBSET Nat /\ (t # Missing => 0 \notin t)
        /\ rec \in AdoptRecs
    <3>1. CASE t = adopting[a].read
      BY <1>1, <2>0, <3>1, AdoptRecTypes
    <3>2. CASE t = Missing /\ rec = NotAdopting
      BY <3>2, AdoptRecTypes DEF Missing
    <3>3. QED
      BY <1>1, <3>1, <3>2
  <2>2. QED
    BY <1>1, <1>4, <2>1 DEF AdoptInv, AdoptTypes
<1>7. \/ rec = NotAdopting
      \/ rec.at = "written" /\ rec.names = adopting[a].names /\ rec.read = adopting[a].read /\ t = rec.read
  BY <1>1 DEF AdoptInv, AdoptTypes, AdoptRecs
<1>8. OneOwner'
  BY <1>3, <1>4, <1>5, <1>7, AdoptNames DEF OneOwner
<1>9. HoldsLatest'
  BY <1>1, <1>3, <1>7, AdoptNames DEF AdoptInv, HoldsLatest
<1>10. InstructionsKept'
  BY <1>1, <1>2, <1>4 DEF AdoptInv, InstructionsKept
<1>11. QED
  BY <1>6, <1>8, <1>9, <1>10 DEF AdoptInv

LEMMA AdoptRemovesStep ==
  ASSUME AdoptInv, NEW a \in Adopters, AdoptRemoves(a)
  PROVE  AdoptInv'
<1>1. PICK f \in adopting[a].names :
        /\ adopting[a].at = "written" /\ UNCHANGED <<latest, edits, late>>
        /\ \/ /\ instr' = [instr EXCEPT ![f] = Missing]
              /\ \/ adopting' = [adopting EXCEPT ![a] = NotAdopting]
                 \/ adopting' = [adopting EXCEPT ![a] = [adopting[a] EXCEPT !.names = @ \ {f}]]
           \/ adopting' = [adopting EXCEPT ![a] = NotAdopting] /\ UNCHANGED instr
  BY DEF AdoptRemoves, AtAdopt, Moves
<1>2. CASE adopting' = [adopting EXCEPT ![a] = NotAdopting] /\ UNCHANGED instr
  BY <1>1, <1>2, AdoptEnds
<1>3. CASE instr' = [instr EXCEPT ![f] = Missing]
  <2>1. f \in Sources /\ f # Target /\ (f \notin late => latest[f] \in instr[Target])
    BY <1>1, AdoptNames DEF AdoptInv, AdoptTypes, AdoptRecs, OneOwner, HoldsLatest
  <2>2. /\ instr'[Target] = instr[Target] /\ instr'[f] = Missing
        /\ \A g \in Sources : g # f => instr'[g] = instr[g]
    BY <1>3, <2>1, AdoptNames DEF AdoptInv, AdoptTypes, AdoptRecs
  <2>3. PICK rec :
          /\ adopting' = [adopting EXCEPT ![a] = rec]
          /\ \/ rec = NotAdopting
             \/ rec = [adopting[a] EXCEPT !.names = @ \ {f}]
    BY <1>1, <1>2
  <2>4. /\ \A b \in Adopters : b # a => adopting'[b] = adopting[b]
        /\ adopting'[a] = rec
    BY <2>3 DEF AdoptInv, AdoptTypes, AdoptRecs
  <2>5. /\ rec \in AdoptRecs
        /\ \/ rec = NotAdopting
           \/ rec.at = "written" /\ rec.names \subseteq adopting[a].names /\ rec.read = adopting[a].read
    <3>1. adopting[a] \in AdoptRecs
      BY DEF AdoptInv, AdoptTypes
    <3>2. CASE rec = NotAdopting
      BY <3>2, AdoptRecTypes
    <3>3. CASE rec = [adopting[a] EXCEPT !.names = @ \ {f}]
      <4>1. adopting[a].names \ {f} \in SUBSET Sources
        BY <3>1, AdoptRecTypes
      <4>2. rec \in AdoptRecs
        BY <3>1, <3>3, <4>1, AdoptRecTypes
      <4>3. rec.at = "written" /\ rec.names \subseteq adopting[a].names /\ rec.read = adopting[a].read
        BY <1>1, <3>1, <3>3 DEF AdoptRecs
      <4>4. QED
        BY <4>2, <4>3
    <3>4. QED
      BY <2>3, <3>2, <3>3
  <2>6. AdoptTypes'
    <3>1. Missing \in SUBSET Nat
      BY DEF Missing
    <3>2. instr' \in [Sources \cup {Target} -> SUBSET Nat]
      BY <1>3, <3>1 DEF AdoptInv, AdoptTypes
    <3>3. \A g \in Sources \cup {Target} : instr'[g] # Missing => 0 \notin instr'[g]
      BY <2>2 DEF AdoptInv, AdoptTypes
    <3>4. QED
      BY <1>1, <2>3, <2>5, <3>2, <3>3 DEF AdoptInv, AdoptTypes
  <2>7. OneOwner'
    BY <1>1, <2>2, <2>4, <2>5, AdoptNames DEF AdoptInv, OneOwner
  <2>8. HoldsLatest'
    BY <1>1, <2>4, <2>5, AdoptNames DEF AdoptInv, HoldsLatest
  <2>9. InstructionsKept'
    BY <1>1, <2>1, <2>2 DEF AdoptInv, InstructionsKept
  <2>10. QED
    BY <2>6, <2>7, <2>8, <2>9 DEF AdoptInv
<1>4. QED
  BY <1>1, <1>2, <1>3

LEMMA AdoptCrashStep == AdoptInv /\ AdoptCrash => AdoptInv'
<1> SUFFICES ASSUME AdoptInv, AdoptCrash
             PROVE  AdoptInv'
  OBVIOUS
<1>1. /\ UNCHANGED <<instr, latest, edits, late>>
      /\ adopting' = [a \in Adopters |-> NotAdopting]
  BY DEF AdoptCrash
<1>2. AdoptTypes'
  BY <1>1 DEF AdoptInv, AdoptTypes, AdoptRecs, NotAdopting
<1>3. OneOwner' /\ HoldsLatest'
  BY <1>1, AdoptNames DEF OneOwner, HoldsLatest
<1>4. InstructionsKept'
  BY <1>1 DEF AdoptInv, InstructionsKept
<1>5. QED
  BY <1>2, <1>3, <1>4 DEF AdoptInv

LEMMA EditSourceStep ==
  ASSUME AdoptInv, NEW f \in Sources, EditSource(f)
  PROVE  AdoptInv'
<1>1. /\ instr' = [instr EXCEPT ![f] = {edits + 3}] /\ latest' = [latest EXCEPT ![f] = edits + 3]
      /\ edits' = edits + 1 /\ adopting' = adopting /\ f # Target
      /\ late' = IF \E a \in Adopters : f \in adopting[a].names THEN late \cup {f} ELSE late \ {f}
  BY AdoptNames DEF EditSource
<1>2. /\ instr'[f] = {edits + 3} /\ latest'[f] = edits + 3 /\ edits + 3 \in Nat \ {0}
      /\ instr'[Target] = instr[Target]
      /\ \A g \in Sources : g # f => instr'[g] = instr[g] /\ latest'[g] = latest[g]
  BY <1>1 DEF AdoptInv, AdoptTypes, AdoptRecs
<1>3. AdoptTypes'
  BY <1>1, <1>2 DEF AdoptInv, AdoptTypes, AdoptRecs, Missing
<1>4. OneOwner'
  BY <1>1, <1>2 DEF AdoptInv, OneOwner
<1>5. HoldsLatest'
  BY <1>1, <1>2 DEF AdoptInv, HoldsLatest
<1>6. InstructionsKept'
  BY <1>1, <1>2 DEF AdoptInv, InstructionsKept
<1>7. QED
  BY <1>3, <1>4, <1>5, <1>6 DEF AdoptInv

LEMMA AdoptStep == AdoptInv /\ [OperatorFilesAdoptNext]_adoptVars => AdoptInv'
<1>1. ASSUME AdoptInv, UNCHANGED adoptVars
      PROVE  AdoptInv'
  BY <1>1 DEF adoptVars, AdoptInv, AdoptTypes, AdoptRecs, OneOwner, HoldsLatest, InstructionsKept
<1>2. QED
  BY <1>1, AdoptReadsStep, AdoptCreatesStep, AdoptWritesStep, AdoptRemovesStep, AdoptCrashStep,
     EditSourceStep
     DEF OperatorFilesAdoptNext

\* A mail in INBOX.md takes effect once or its end is known, and instructions
\* survive every crash, failure and race of their adoption
\* (operatorfiles/manager.go CheckInbox and Adopt), for any number of mails,
\* requests, edits and failures.
THEOREM OperatorFilesCorrect == OperatorFilesSpec => []OperatorFilesKept
<1>1. OperatorFilesMailInit /\ OperatorFilesAdoptInit => MailInv /\ AdoptInv
  BY MailInitially, AdoptInitially
<1>2. /\ MailInv /\ AdoptInv
      /\ [\/ OperatorFilesMailNext /\ UNCHANGED adoptVars
          \/ OperatorFilesAdoptNext /\ UNCHANGED mailFileVars]_<<mailFileVars, adoptVars>>
      => MailInv' /\ AdoptInv'
  BY MailStep, AdoptStep
<1>3. MailInv /\ AdoptInv => OperatorFilesKept
  BY MailInvSuffices DEF OperatorFilesKept, AdoptInv
<1>4. QED
  BY <1>1, <1>2, <1>3, PTL DEF OperatorFilesSpec
-----------------------------------------------------------------------------
(* Held sessions                                                            *)

TimerRecs == [obj : Nat, st : {"none", "armed", "fired", "probe", "gone"}]
ProbeRecs == [st : {"none", "ask", "caps", "clear", "again", "complete", "save", "release", "gone"},
              cancel : BOOLEAN, ok : BOOLEAN, good : BOOLEAN]

ReachTypes ==
  /\ up \in BOOLEAN /\ known \in BOOLEAN
  /\ timers \in [TimerIds -> TimerRecs]
  /\ probes \in [ProbeIds -> ProbeRecs]
  /\ retry \in [obj : Nat, timer : Nat, made : Nat]
  /\ DOMAIN chat = Chats
  /\ holds \subseteq Chats

\* The timer a retry state names is its own and has not run yet.
TimerPending ==
  retry.timer # 0 => /\ retry.obj # 0 /\ retry.timer \in TimerIds
                     /\ timers[retry.timer].obj = retry.obj /\ timers[retry.timer].st \in {"armed", "fired"}

\* The probe that may be canceled has not finished asking.
ProbeAlive == current # 0 => current \in ProbeIds /\ probes[current].st \in {"ask", "caps", "clear"}

\* The retry state names a way on: a timer of its own, or a probe that will complete it.
WayOn ==
  \/ \E t \in TimerIds : timers[t].obj = retry.obj /\ timers[t].st \in {"armed", "fired", "probe"}
  \/ current # 0
  \/ \E p \in ProbeIds : probes[p].st \in {"again", "complete"}

\* A probe has found the server and will release the sessions.
WillRelease == \E p \in ProbeIds : probes[p].st \in {"save", "release"} /\ probes[p].ok

\* Without a retry state only sessions about to make one, or about to be released, wait.
NoneWaits == \A c \in holds \ lost : chat[c] = "held" \/ WillRelease

\* A session bound elsewhere rests, and nobody is to release it here.
UnboundRests ==
  /\ \A c \in Chats \ bound : chat[c] = "idle" /\ (c \in holds => c \in lost)
  /\ ~known => bound = {}

ReachInv ==
  /\ ReachTypes /\ TimerPending /\ ProbeAlive /\ UnboundRests
  /\ retry.obj # 0 => WayOn
  /\ retry.obj = 0 => NoneWaits
LEMMA ReachInitially == ReachInit => ReachInv
<1> SUFFICES ASSUME ReachInit
             PROVE  ReachInv
  OBVIOUS
<1>1. NoTimer \in TimerRecs /\ NoProbe \in ProbeRecs /\ [NoProbe EXCEPT !.st = "gone"] \in ProbeRecs
  BY DEF NoTimer, NoProbe, TimerRecs, ProbeRecs
<1>2. PICK f \in Fleets :
        /\ bound = f.chats
        /\ probes = [p \in ProbeIds |-> IF p <= f.probes THEN NoProbe ELSE [NoProbe EXCEPT !.st = "gone"]]
  BY DEF ReachInit
<1>3. ReachTypes
  BY <1>1, <1>2 DEF ReachInit, ReachTypes
<1>4. TimerPending /\ ProbeAlive /\ NoneWaits /\ UnboundRests /\ retry.obj = 0
  BY DEF ReachInit, TimerPending, ProbeAlive, NoneWaits, UnboundRests
<1>5. QED
  BY <1>3, <1>4 DEF ReachInv

\* Runs of the sessions and the world outside leave timers and probes alone.
LEMMA ProbingUntouched ==
  ASSUME ReachInv, UNCHANGED <<retry, timers, probes, current>>,
         up' \in BOOLEAN, known' \in BOOLEAN, DOMAIN chat' = Chats, holds' \subseteq Chats,
         UnboundRests', NoneWaits => NoneWaits'
  PROVE  ReachInv'
<1>1. ReachTypes' /\ TimerPending' /\ ProbeAlive' /\ (WayOn => WayOn')
  BY DEF ReachInv, ReachTypes, TimerPending, ProbeAlive, WayOn
<1>2. QED
  BY <1>1 DEF ReachInv

LEMMA RunSteps ==
  ASSUME ReachInv, NEW c \in Chats, RunBegins(c) \/ RunFinishes(c) \/ Holds(c) \/ Marks(c) \/ Rebinds(c)
  PROVE  ReachInv'
<1>1. UNCHANGED <<retry, timers, probes, current, up, known>> /\ DOMAIN chat' = Chats /\ holds' \subseteq Chats
  BY DEF RunBegins, RunFinishes, Holds, Marks, Rebinds, ReachInv, ReachTypes
<1>2. \A d \in Chats : d # c => chat'[d] = chat[d]
  BY DEF RunBegins, RunFinishes, Holds, Marks, Rebinds, ReachInv, ReachTypes
<1>3. WillRelease => WillRelease'
  BY <1>1 DEF WillRelease
<1>4. CASE RunBegins(c) \/ RunFinishes(c)
  <2>1. chat[c] # "held" /\ c \in bound /\ UNCHANGED <<holds, lost, bound>>
    BY <1>4 DEF RunBegins, RunFinishes, ReachInv, UnboundRests
  <2>2. UnboundRests' /\ (NoneWaits => NoneWaits')
    BY <1>1, <1>2, <1>3, <2>1 DEF ReachInv, ReachTypes, UnboundRests, NoneWaits
  <2>3. QED
    BY <1>1, <2>2, ProbingUntouched DEF ReachInv, ReachTypes
<1>5. CASE Holds(c)
  <2>1. chat'[c] = "held" /\ c \in bound /\ holds' = holds \cup {c} /\ UNCHANGED <<lost, bound>>
    BY <1>5 DEF Holds, ReachInv, ReachTypes, UnboundRests
  <2>2. UnboundRests' /\ (NoneWaits => NoneWaits')
    BY <1>1, <1>2, <1>3, <2>1 DEF ReachInv, ReachTypes, UnboundRests, NoneWaits
  <2>3. QED
    BY <1>1, <2>2, ProbingUntouched DEF ReachInv, ReachTypes
<1>6. CASE Marks(c)
  <2>1. /\ chat[c] = "returns" /\ c \in bound /\ holds' = holds \cup {c} /\ UNCHANGED bound
        /\ lost' = IF c \in holds THEN lost ELSE lost \cup {c}
    BY <1>6 DEF Marks, ReachInv, UnboundRests
  <2>2. UnboundRests' /\ (NoneWaits => NoneWaits')
    BY <1>1, <1>2, <1>3, <2>1 DEF ReachInv, ReachTypes, UnboundRests, NoneWaits
  <2>3. QED
    BY <1>1, <2>2, ProbingUntouched DEF ReachInv, ReachTypes
<1>7. CASE Rebinds(c)
  <2>1. /\ chat[c] = "idle" /\ bound' = bound \ {c} /\ UNCHANGED <<chat, holds>>
        /\ lost' = IF c \in holds THEN lost \cup {c} ELSE lost
    BY <1>7 DEF Rebinds
  <2>2. UnboundRests' /\ (NoneWaits => NoneWaits')
    BY <1>1, <1>3, <2>1 DEF ReachInv, ReachTypes, UnboundRests, NoneWaits
  <2>3. QED
    BY <1>1, <2>2, ProbingUntouched DEF ReachInv, ReachTypes
<1>8. QED
  BY <1>4, <1>5, <1>6, <1>7

LEMMA WorldSteps == ReachInv /\ (Blink \/ DeleteProfile) => ReachInv'
<1> SUFFICES ASSUME ReachInv, Blink \/ DeleteProfile
             PROVE  ReachInv'
  OBVIOUS
<1>1. /\ UNCHANGED <<retry, timers, probes, current, chat, holds, lost, bound>>
      /\ up' \in BOOLEAN /\ known' \in BOOLEAN /\ (known' = known \/ bound = {})
  BY DEF Blink, DeleteProfile, ReachInv, ReachTypes
<1>2. UnboundRests' /\ (NoneWaits => NoneWaits')
  BY <1>1 DEF ReachInv, UnboundRests, NoneWaits, WillRelease
<1>3. QED
  BY <1>1, <1>2, ProbingUntouched DEF ReachInv, ReachTypes

\* Arming a timer is a way on for the object it is armed for.
LEMMA ArmsWayOn ==
  ASSUME ReachInv, NEW o \in Nat \ {0}, NEW was \in [obj : Nat, timer : Nat, made : Nat], Arms(o, was)
  PROVE  /\ timers' \in [TimerIds -> TimerRecs] /\ retry' \in [obj : Nat, timer : Nat, made : Nat]
         /\ TimerPending' /\ retry'.obj # 0 /\ WayOn'
<1>1. PICK t \in TimerIds : /\ timers' = [timers EXCEPT ![t] = [obj |-> o, st |-> "armed"]]
                            /\ retry' = [was EXCEPT !.obj = o, !.timer = t]
  BY DEF Arms, Unused, ReachInv, ReachTypes
<1>2. t \in Nat \ {0}
  BY ReachAssumption
<1>3. retry' \in [obj : Nat, timer : Nat, made : Nat] /\ retry'.obj = o /\ retry'.timer = t
  BY <1>1, <1>2
<1>4. [obj |-> o, st |-> "armed"] \in TimerRecs
  BY DEF TimerRecs
<1>5. timers' \in [TimerIds -> TimerRecs] /\ timers'[t] = [obj |-> o, st |-> "armed"]
  BY <1>1, <1>4 DEF ReachInv, ReachTypes
<1>6. timers'[t].obj = o /\ timers'[t].st = "armed"
  BY <1>5
<1>7. TimerPending' /\ WayOn'
  BY <1>2, <1>3, <1>6 DEF TimerPending, WayOn
<1>8. QED
  BY <1>3, <1>5, <1>7

LEMMA SchedulesStep ==
  ASSUME ReachInv, NEW c \in Chats, Schedules(c)
  PROVE  ReachInv'
<1>1. /\ UNCHANGED <<up, bound, holds, probes, current, known, lost>> /\ chat[c] = "held"
      /\ DOMAIN chat' = Chats /\ \A d \in Chats : d # c => chat'[d] = chat[d]
  BY DEF Schedules, ReachInv, ReachTypes
<1>2. UnboundRests'
  BY <1>1 DEF ReachInv, UnboundRests
<1>3. ProbeAlive'
  BY <1>1 DEF ReachInv, ProbeAlive
<1>4. /\ timers' \in [TimerIds -> TimerRecs] /\ retry' \in [obj : Nat, timer : Nat, made : Nat]
      /\ TimerPending' /\ retry'.obj # 0 /\ WayOn'
  <2>1. CASE retry.obj # 0 /\ Arms(retry.obj, retry)
    BY <2>1, ArmsWayOn DEF ReachInv, ReachTypes
  <2>2. CASE Arms(retry.made + 1, [retry EXCEPT !.made = @ + 1])
    <3>1. retry.made + 1 \in Nat \ {0} /\ [retry EXCEPT !.made = @ + 1] \in [obj : Nat, timer : Nat, made : Nat]
      BY DEF ReachInv, ReachTypes
    <3>2. QED
      BY <2>2, <3>1, ArmsWayOn
  <2>3. CASE retry.timer # 0 /\ UNCHANGED <<retry, timers>>
    BY <1>1, <2>3 DEF ReachInv, ReachTypes, TimerPending, WayOn
  <2>4. QED
    BY <2>1, <2>2, <2>3 DEF Schedules
<1>5. QED
  BY <1>1, <1>2, <1>3, <1>4 DEF ReachInv, ReachTypes

LEMMA FiresStep ==
  ASSUME ReachInv, NEW t \in TimerIds, Fires(t) \/ Callback(t)
  PROVE  ReachInv'
<1>1. /\ UNCHANGED <<up, chat, bound, holds, probes, current, known, lost>>
      /\ UnboundRests' /\ ProbeAlive' /\ (NoneWaits => NoneWaits')
  BY DEF Fires, Callback, ReachInv, UnboundRests, ProbeAlive, NoneWaits, WillRelease
<1>2. PICK st \in {"fired", "probe", "gone"} : timers' = [timers EXCEPT ![t].st = st]
  BY DEF Fires, Callback
<1>3. /\ timers' \in [TimerIds -> TimerRecs]
      /\ timers'[t].obj = timers[t].obj /\ timers'[t].st = st
      /\ \A u \in TimerIds : u # t => timers'[u] = timers[u]
  BY <1>2 DEF ReachInv, ReachTypes, TimerRecs
<1>4. /\ retry' \in [obj : Nat, timer : Nat, made : Nat] /\ retry'.obj = retry.obj
      /\ \/ retry'.timer = 0
         \/ retry' = retry /\ st = "fired"
         \/ retry' = retry /\ timers[t].obj # retry.obj
  <2>1. CASE Fires(t)
    <3>1. timers'[t].st = "fired" /\ retry' = retry
      BY <2>1 DEF Fires, ReachInv, ReachTypes, TimerRecs
    <3>2. QED
      BY <1>3, <3>1 DEF ReachInv, ReachTypes
  <2>2. CASE Callback(t)
    BY <2>2 DEF Callback, ReachInv, ReachTypes
  <2>3. QED
    BY <2>1, <2>2
<1>5. TimerPending'
  BY <1>3, <1>4 DEF ReachInv, TimerPending
<1>6. WayOn => WayOn'
  <2>1. timers[t].obj = retry.obj => st \in {"fired", "probe"}
    <3>1. CASE Fires(t)
      <4>1. timers'[t].st = "fired"
        BY <3>1 DEF Fires, ReachInv, ReachTypes, TimerRecs
      <4>2. QED
        BY <1>3, <4>1
    <3>2. CASE Callback(t)
      <4>1. timers[t].obj = retry.obj => timers'[t].st = "probe"
        BY <3>2 DEF Callback, ReachInv, ReachTypes, TimerRecs
      <4>2. QED
        BY <1>3, <4>1
    <3>3. QED
      BY <3>1, <3>2
  <2>2. QED
    BY <1>1, <1>3, <1>4, <2>1 DEF WayOn
<1>7. QED
  BY <1>1, <1>3, <1>4, <1>5, <1>6 DEF ReachInv, ReachTypes

LEMMA HaltTypes ==
  ASSUME ReachInv
  PROVE  Halt(retry.timer) \in [TimerIds -> TimerRecs]
<1>1. CASE retry.timer # 0 /\ timers[retry.timer].st = "armed"
  BY <1>1 DEF Halt, ReachInv, ReachTypes, TimerPending, TimerRecs
<1>2. QED
  BY <1>1 DEF Halt, ReachInv, ReachTypes

\* A probe that starts is the way on, and replaces the one under way.
LEMMA StartProbeStep ==
  ASSUME ReachInv, NEW ts \in [TimerIds -> TimerRecs], StartProbe(ts),
         UNCHANGED <<up, chat, bound, holds, known, lost>>
  PROVE  ReachInv'
<1>1. PICK p \in ProbeIds :
        /\ probes[p].st = "none" /\ current' = p /\ timers' = ts /\ retry' = [retry EXCEPT !.timer = 0]
        /\ probes' = [q \in ProbeIds |->
                        IF q = p THEN [NoProbe EXCEPT !.st = "ask"]
                        ELSE IF q = current THEN [probes[q] EXCEPT !.cancel = TRUE] ELSE probes[q]]
  BY DEF StartProbe, Unused, ReachInv, ReachTypes
<1>2. [NoProbe EXCEPT !.st = "ask"] \in ProbeRecs /\ [NoProbe EXCEPT !.st = "ask"].st = "ask"
  BY DEF NoProbe, ProbeRecs
<1>3. \A q \in ProbeIds : [probes[q] EXCEPT !.cancel = TRUE] \in ProbeRecs
  BY DEF ReachInv, ReachTypes, ProbeRecs
<1>4. /\ probes' \in [ProbeIds -> ProbeRecs] /\ probes'[p].st = "ask"
      /\ \A q \in ProbeIds : q # p => probes'[q].st = probes[q].st /\ probes'[q].ok = probes[q].ok
  <2>1. probes' \in [ProbeIds -> ProbeRecs]
    BY <1>1, <1>2, <1>3 DEF ReachInv, ReachTypes
  <2>2. probes'[p].st = "ask"
    BY <1>1, <1>2
  <2>3. ASSUME NEW q \in ProbeIds, q # p
        PROVE  probes'[q].st = probes[q].st /\ probes'[q].ok = probes[q].ok
    BY <1>1, <2>3 DEF ReachInv, ReachTypes, ProbeRecs
  <2>4. QED
    BY <2>1, <2>2, <2>3
<1>5. p # 0 /\ retry' \in [obj : Nat, timer : Nat, made : Nat] /\ retry'.timer = 0 /\ retry'.obj = retry.obj
  BY <1>1, ReachAssumption DEF ReachInv, ReachTypes
<1>6. ReachTypes' /\ TimerPending' /\ ProbeAlive' /\ WayOn'
  BY <1>1, <1>4, <1>5 DEF ReachInv, ReachTypes, TimerPending, ProbeAlive, WayOn
<1>7. UnboundRests'
  BY DEF ReachInv, UnboundRests
<1>8. NoneWaits => NoneWaits'
  BY <1>1, <1>4 DEF NoneWaits, WillRelease
<1>9. QED
  BY <1>5, <1>6, <1>7, <1>8 DEF ReachInv

LEMMA CallbackProbesStep ==
  ASSUME ReachInv, NEW t \in TimerIds, CallbackProbes(t)
  PROVE  ReachInv'
<1>1. PICK ts : ts = [Halt(retry.timer) EXCEPT ![t].st = "gone"]
  OBVIOUS
<1>2. ts \in [TimerIds -> TimerRecs]
  BY <1>1, HaltTypes DEF TimerRecs
<1>3. UNCHANGED <<up, chat, bound, holds, known, lost>>
  BY DEF CallbackProbes
<1>4. CASE StartProbe(ts)
  BY <1>2, <1>3, <1>4, StartProbeStep
<1>5. CASE ~known /\ timers' = ts /\ retry' = [retry EXCEPT !.obj = 0, !.timer = 0] /\ UNCHANGED <<probes, current>>
  <2>1. retry' \in [obj : Nat, timer : Nat, made : Nat] /\ retry'.timer = 0 /\ retry'.obj = 0
    BY <1>5 DEF ReachInv, ReachTypes
  <2>2. holds \subseteq lost
    BY <1>5 DEF ReachInv, ReachTypes, UnboundRests
  <2>3. NoneWaits' /\ UnboundRests' /\ TimerPending' /\ ProbeAlive'
    BY <1>3, <1>5, <2>1, <2>2 DEF NoneWaits, TimerPending, ReachInv, UnboundRests, ProbeAlive
  <2>4. QED
    BY <1>2, <1>3, <1>5, <2>1, <2>3 DEF ReachInv, ReachTypes
<1>6. QED
  BY <1>1, <1>4, <1>5 DEF CallbackProbes

LEMMA OperatorSteps == ReachInv /\ (OperatorProbes \/ OperatorStops) => ReachInv'
<1> SUFFICES ASSUME ReachInv, OperatorProbes \/ OperatorStops
             PROVE  ReachInv'
  OBVIOUS
<1>1. CASE OperatorProbes
  BY <1>1, HaltTypes, StartProbeStep DEF OperatorProbes
<1>2. CASE OperatorStops
  <2>1. /\ UNCHANGED <<up, chat, bound, holds, retry, timers, current, known, lost>> /\ current \in ProbeIds
        /\ probes' = [probes EXCEPT ![current].cancel = TRUE]
    BY <1>2 DEF OperatorStops, ReachInv, ProbeAlive
  <2>2. /\ probes' \in [ProbeIds -> ProbeRecs]
        /\ \A q \in ProbeIds : probes'[q].st = probes[q].st /\ probes'[q].ok = probes[q].ok
    BY <2>1, ZenonT(40) DEF ReachInv, ReachTypes, ProbeRecs
  <2>3. ReachTypes' /\ TimerPending' /\ UnboundRests'
    BY <2>1, <2>2 DEF ReachInv, ReachTypes, TimerPending, UnboundRests
  <2>4. ProbeAlive' /\ (WayOn => WayOn') /\ (NoneWaits => NoneWaits')
    BY <2>1, <2>2 DEF ReachInv, ProbeAlive, WayOn, NoneWaits, WillRelease
  <2>5. QED
    BY <2>1, <2>3, <2>4 DEF ReachInv
<1>3. QED
  BY <1>1, <1>2

\* A probe moves on while the retry state, the timers and the sessions stay.
LEMMA ProbeMoves ==
  ASSUME ReachInv, NEW p \in ProbeIds, NEW rec \in ProbeRecs, probes' = [probes EXCEPT ![p] = rec],
         UNCHANGED <<up, chat, bound, holds, retry, timers, known, lost>>,
         current' = current \/ (current = p /\ current' = 0),
         current' = p => rec.st \in {"ask", "caps", "clear"},
         current = p /\ current' = 0 => rec.st \in {"again", "complete"},
         probes[p].st \notin {"again", "complete"},
         probes[p].st \in {"save", "release"} /\ probes[p].ok => rec.st \in {"save", "release"} /\ rec.ok
  PROVE  ReachInv'
<1>1. /\ probes' \in [ProbeIds -> ProbeRecs] /\ probes'[p] = rec
      /\ \A q \in ProbeIds : q # p => probes'[q] = probes[q]
  BY DEF ReachInv, ReachTypes
<1>2. ReachTypes' /\ TimerPending' /\ UnboundRests'
  BY <1>1 DEF ReachInv, ReachTypes, TimerPending, UnboundRests
<1>3. ProbeAlive'
  BY <1>1 DEF ReachInv, ProbeAlive
<1>4. WayOn => WayOn'
  BY <1>1 DEF WayOn
<1>5. NoneWaits => NoneWaits'
  BY <1>1 DEF NoneWaits, WillRelease
<1>6. QED
  BY <1>2, <1>3, <1>4, <1>5 DEF ReachInv

LEMMA AskingSteps ==
  ASSUME ReachInv, NEW p \in ProbeIds, AsksServer(p) \/ Capabilities(p) \/ Clears(p)
  PROVE  ReachInv'
<1>1. probes[p] \in ProbeRecs /\ probes[p].st \in {"ask", "caps", "clear"}
  BY DEF AsksServer, Capabilities, Clears, ReachInv, ReachTypes
<1>2. CASE AsksServer(p)
  <2>1. PICK rec : rec = [probes[p] EXCEPT !.st = IF up THEN "caps" ELSE "clear", !.ok = up]
    OBVIOUS
  <2>2. rec \in ProbeRecs /\ rec.st \in {"caps", "clear"}
    BY <1>1, <2>1 DEF ReachInv, ReachTypes, ProbeRecs
  <2>3. probes' = [probes EXCEPT ![p] = rec]
    BY <1>2, <2>1 DEF AsksServer, ReachInv, ReachTypes
  <2>4. UNCHANGED <<up, chat, bound, holds, retry, timers, known, lost, current>>
    BY <1>2 DEF AsksServer, ProbeKept
  <2>5. current' = p => current # 0
    BY ReachAssumption, <2>4
  <2>6. QED
    BY <1>1, <2>2, <2>3, <2>4, <2>5, ProbeMoves
<1>3. CASE Capabilities(p)
  <2>1. PICK rec : rec = [probes[p] EXCEPT !.st = "clear", !.good = up]
    OBVIOUS
  <2>2. rec \in ProbeRecs /\ rec.st = "clear"
    BY <1>1, <2>1 DEF ReachInv, ReachTypes, ProbeRecs
  <2>3. probes' = [probes EXCEPT ![p] = rec]
    BY <1>3, <2>1 DEF Capabilities, ReachInv, ReachTypes
  <2>4. UNCHANGED <<up, chat, bound, holds, retry, timers, known, lost, current>>
    BY <1>3 DEF Capabilities, ProbeKept
  <2>5. current' = p => current # 0
    BY ReachAssumption, <2>4
  <2>6. QED
    BY <1>1, <2>2, <2>3, <2>4, <2>5, ProbeMoves
<1>4. CASE Clears(p)
  <2>1. PICK st : st = IF ~probes[p].cancel THEN "complete" ELSE IF current = p THEN "again" ELSE "gone"
    OBVIOUS
  <2>2. /\ [probes[p] EXCEPT !.st = st] \in ProbeRecs /\ [probes[p] EXCEPT !.st = st].st = st
        /\ current = p => st \in {"again", "complete"}
    BY <1>1, <2>1 DEF ProbeRecs
  <2>3. probes' = [probes EXCEPT ![p] = [probes[p] EXCEPT !.st = st]]
    BY <1>4, <2>1 DEF Clears, ReachInv, ReachTypes
  <2>4. /\ UNCHANGED <<up, chat, bound, holds, retry, timers, known, lost>>
        /\ current' = (IF current = p THEN 0 ELSE current) /\ p # 0
    BY <1>4, ReachAssumption DEF Clears, ProbeKept
  <2>5. QED
    BY <1>1, <2>2, <2>3, <2>4, ProbeMoves
<1>5. QED
  BY <1>2, <1>3, <1>4

LEMMA CompletesStep ==
  ASSUME ReachInv, NEW p \in ProbeIds, Completes(p)
  PROVE  ReachInv'
<1>1. /\ UNCHANGED <<up, chat, bound, holds, current, known, lost>> /\ probes[p].st \in {"again", "complete"}
      /\ probes' = [probes EXCEPT ![p].st = IF @ = "again" THEN "gone" ELSE "save"]
  BY DEF Completes, ProbeKept
<1>2. /\ probes' \in [ProbeIds -> ProbeRecs] /\ probes'[p].ok = probes[p].ok
      /\ probes'[p].st = IF probes[p].st = "again" THEN "gone" ELSE "save"
      /\ \A q \in ProbeIds : q # p => probes'[q] = probes[q]
  BY <1>1 DEF ReachInv, ReachTypes, ProbeRecs
<1>3. ProbeAlive' /\ UnboundRests'
  BY <1>1, <1>2 DEF ReachInv, ProbeAlive, UnboundRests
<1>4. NoneWaits => NoneWaits'
  <2>1. WillRelease => WillRelease'
    BY <1>1, <1>2 DEF WillRelease
  <2>2. QED
    BY <1>1, <2>1 DEF NoneWaits
<1>5. ASSUME UNCHANGED <<retry, timers>>, retry.obj = 0 \/ retry.timer # 0
      PROVE  ReachInv'
  <2>1. retry.obj # 0 => WayOn'
    BY <1>5 DEF ReachInv, TimerPending, WayOn
  <2>2. ReachTypes' /\ TimerPending'
    BY <1>1, <1>2, <1>5 DEF ReachInv, ReachTypes, TimerPending
  <2>3. QED
    BY <1>3, <1>4, <1>5, <2>1, <2>2 DEF ReachInv
<1>6. ASSUME retry.obj # 0, Arms(retry.obj, retry)
      PROVE  ReachInv'
  <2>1. /\ timers' \in [TimerIds -> TimerRecs] /\ retry' \in [obj : Nat, timer : Nat, made : Nat]
        /\ TimerPending' /\ retry'.obj # 0 /\ WayOn'
    BY <1>6, ArmsWayOn DEF ReachInv, ReachTypes
  <2>2. QED
    BY <1>1, <1>2, <1>3, <2>1 DEF ReachInv, ReachTypes
<1>7. ASSUME probes[p].st = "complete" /\ probes[p].ok, timers' = Halt(retry.timer),
             retry' = [retry EXCEPT !.obj = 0, !.timer = 0]
      PROVE  ReachInv'
  <2>1. retry' \in [obj : Nat, timer : Nat, made : Nat] /\ retry'.obj = 0 /\ retry'.timer = 0
    BY <1>7 DEF ReachInv, ReachTypes
  <2>2. WillRelease'
    BY <1>2, <1>7 DEF WillRelease
  <2>3. NoneWaits' /\ TimerPending'
    BY <2>1, <2>2 DEF NoneWaits, TimerPending
  <2>4. QED
    BY <1>1, <1>2, <1>3, <1>7, <2>1, <2>3, HaltTypes DEF ReachInv, ReachTypes
<1>8. QED
  BY <1>5, <1>6, <1>7 DEF Completes, Complete

LEMMA SavesStep ==
  ASSUME ReachInv, NEW p \in ProbeIds, Saves(p)
  PROVE  ReachInv'
<1>1. /\ UNCHANGED <<up, chat, bound, holds, current, known, retry, timers>> /\ probes[p].st = "save"
      /\ probes[p] \in ProbeRecs /\ current # p
  BY ReachAssumption DEF Saves, ProbeKept, ReachInv, ReachTypes, ProbeAlive
<1>2. CASE UNCHANGED lost /\ probes' = [probes EXCEPT ![p].st = IF probes[p].ok THEN "release" ELSE "gone"]
  <2>1. PICK rec : rec = [probes[p] EXCEPT !.st = IF probes[p].ok THEN "release" ELSE "gone"]
    OBVIOUS
  <2>2. rec \in ProbeRecs /\ rec.ok = probes[p].ok /\ (probes[p].ok => rec.st = "release")
    BY <1>1, <2>1 DEF ProbeRecs
  <2>3. probes' = [probes EXCEPT ![p] = rec]
    BY <1>2, <2>1 DEF ReachInv, ReachTypes
  <2>4. QED
    BY <1>1, <1>2, <2>2, <2>3, ProbeMoves
<1>3. CASE /\ probes' = [probes EXCEPT ![p].st = "gone"]
           /\ lost' = IF probes[p].ok THEN lost \cup holds ELSE lost
  <2>1. /\ probes' \in [ProbeIds -> ProbeRecs] /\ \A q \in ProbeIds : q # p => probes'[q] = probes[q]
    BY <1>3 DEF ReachInv, ReachTypes, ProbeRecs
  <2>2. ReachTypes' /\ TimerPending' /\ ProbeAlive' /\ UnboundRests'
    BY <1>1, <1>3, <2>1 DEF ReachInv, ReachTypes, TimerPending, ProbeAlive, UnboundRests
  <2>3. WayOn => WayOn'
    BY <1>1, <2>1 DEF WayOn
  <2>4. NoneWaits => NoneWaits'
    BY <1>1, <1>3, <2>1 DEF NoneWaits, WillRelease
  <2>5. QED
    BY <1>1, <2>2, <2>3, <2>4 DEF ReachInv
<1>4. QED
  BY <1>2, <1>3 DEF Saves

LEMMA ReleasesStep ==
  ASSUME ReachInv, NEW p \in ProbeIds, Releases(p)
  PROVE  ReachInv'
<1>1. /\ UNCHANGED <<up, chat, bound, current, known, retry, timers>> /\ probes[p].st = "release"
      /\ probes' = [probes EXCEPT ![p].st = "gone"] /\ holds' = holds \ bound /\ lost' = lost \ bound
      /\ current # p
  BY ReachAssumption DEF Releases, ProbeKept, ReachInv, ReachTypes, ProbeAlive
<1>2. /\ probes' \in [ProbeIds -> ProbeRecs] /\ \A q \in ProbeIds : q # p => probes'[q] = probes[q]
  BY <1>1 DEF ReachInv, ReachTypes, ProbeRecs
<1>3. ReachTypes' /\ TimerPending' /\ ProbeAlive' /\ UnboundRests'
  BY <1>1, <1>2 DEF ReachInv, ReachTypes, TimerPending, ProbeAlive, UnboundRests
<1>4. WayOn => WayOn'
  BY <1>1, <1>2 DEF WayOn
<1>5. NoneWaits'
  BY <1>1 DEF ReachInv, ReachTypes, UnboundRests, NoneWaits
<1>6. QED
  BY <1>1, <1>3, <1>4, <1>5 DEF ReachInv

LEMMA ReachStep == ReachInv /\ [ReachNext]_reachVars => ReachInv'
<1>1. ASSUME ReachInv, UNCHANGED reachVars
      PROVE  ReachInv'
  BY <1>1 DEF reachVars, ReachInv, ReachTypes, TimerPending, ProbeAlive, UnboundRests, WayOn, NoneWaits,
              WillRelease
<1>2. QED
  BY <1>1, RunSteps, SchedulesStep, WorldSteps, FiresStep, CallbackProbesStep, OperatorSteps, AskingSteps,
     CompletesStep, SavesStep, ReleasesStep
     DEF ReachNext

\* A session held because its model server is away is tried again or released
\* (web/reachability.go, web/server_profiles.go), whichever timers fire late and
\* whichever probes are canceled or overtaken, for any number of sessions, timers
\* and probes.
THEOREM ReachCorrect == ReachSpec => []RetryPending
<1>1. ReachInit => ReachInv
  BY ReachInitially
<1>2. ReachInv /\ [ReachNext]_reachVars => ReachInv'
  BY ReachStep
<1>3. ReachInv => RetryPending
  BY DEF ReachInv, NoneWaits, WillRelease, WayOn, RetryPending, Trying
<1>4. QED
  BY <1>1, <1>2, <1>3, PTL DEF ReachSpec
=============================================================================
