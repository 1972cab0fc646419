--------------------------- MODULE WebeocPipeline ---------------------------
(***************************************************************************)
(* The way of a record from WebEOC to the complaint table: the webeoc pods  *)
(* poll WebEOC, publish what they find to a JetStream stream, consume it,   *)
(* and call the staging API of the backend, which Staging specifies and     *)
(* this module extends: the state is that of both, and what the backend     *)
(* does, it does by the actions of Staging.                                 *)
(*                                                                          *)
(* Every pod runs polls (WebEOCComplaintsScheduler), a handler of the       *)
(* stream's messages (ComplaintsSubscriberService) and the publications     *)
(* that the handler does not wait for (ComplaintsPublisherService).  The    *)
(* cron job does not wait for its callback, so polls of one pod overlap.    *)
(* The pods share one durable consumer.  WebEOC and JetStream are external: *)
(* they are what the code uses of them.                                     *)
(*                                                                          *)
(* Time is the schedule of the polls: a Tick is the five minutes between    *)
(* two of them.                                                             *)
(***************************************************************************)
EXTENDS Staging

CONSTANTS
    Pods,            \* pods of the webeoc service
    Polls,           \* bound: slots for the polls of a pod that overlap
    HistoryTicks,    \* WEBEOC_COMPLAINT_HISTORY_SECONDS in polling intervals
    Prompt,          \* TRUE: what a poll found is worked off before the next poll
    MaxEntries,      \* bound: versions of a record entered in WebEOC
    MaxStream,       \* bound: messages in the stream
    MaxOutbox,       \* bound: publications a pod has not finished when it takes a message
    MaxFaults        \* bound: failures

ASSUME PipelineAssumption ==
    /\ HistoryTicks \in Nat \ {0}
    /\ Prompt \in BOOLEAN
    /\ {MaxEntries, MaxStream, MaxOutbox, MaxFaults} \subseteq Nat
    /\ IsFiniteSet(Pods)

VARIABLES
    entered,   \* per record, the versions of it that WebEOC has held
    window,    \* per record, for how many polls its entrydate is recent enough
    poll,      \* per pod and slot, a poll
    stream,    \* messages that are not acknowledged, oldest first
    recent,    \* Nats-Msg-Ids in the duplicate window of the stream
    job,       \* per pod, its handler
    outbox,    \* per pod, messages it publishes without waiting
    dropped,   \* history: records whose last notice was taken for a duplicate
    faults     \* number of failures so far

dbVars  == <<staging, complaint, updates, req>>
bus     == <<stream, recent>>
webeoc  == <<entered, window>>
pods    == <<poll, job, outbox>>
pipelineVars == <<dbVars, webeoc, bus, pods, dropped, faults>>

Pollers == Pods \X Polls

\* A complaint record is <<incident, 0>>, an update <<incident, update_number>>.
Complaints == Incidents \X {0}
Records    == Incidents \X ({0} \cup UpdateNumbers)
Versions(x) == IF x[2] = 0 THEN Contents ELSE UpdateContents

\* NATS_NEW_COMPLAINTS_TOPIC, NATS_UPDATED_COMPLAINTS_TOPIC,
\* NEW_STAGING_COMPLAINTS_TOPIC and NEW_STAGING_COMPLAINT_UPDATE_TOPIC.
Subjects == {"new", "update", "staged", "stagedUpdate"}
Messages == [subject : Subjects, record : Records, content : Contents \cup UpdateContents \cup {None}]
Ids      == 1..(MaxStream + Cardinality(Pods))

Phases == {"due", "complaints", "updates"}
AtRest == [phase |-> "updates", todo |-> {}]
Free   == [at |-> "free"]
Busy   == [at : {"acking", "calling", "failed"}, id : Ids, msg : Messages]
Served == [at : {"waiting"}, id : Ids, msg : Messages, slot : Requests]

\* The parts of the pipeline hold messages of records that exist.
PipelineTypeOK ==
    /\ TypeOK
    /\ entered \in [Records -> Seq(Contents \cup UpdateContents)]
    /\ window \in [Records -> 0..HistoryTicks + 1]
    /\ poll \in [Pollers -> [phase : Phases, todo : SUBSET Messages]]
    /\ stream \in Seq([id : Ids, msg : Messages, state : {"ready", "taken", "later"}])
    /\ recent \subseteq Subjects \X Records
    /\ job \in [Pods -> {Free} \cup Busy \cup Served]
    /\ outbox \in [Pods -> Seq(Messages)]
    /\ dropped \subseteq Records
    /\ faults \in 0..MaxFaults

PipelineInit ==
    /\ Init
    /\ entered = [x \in Records |-> <<>>]
    /\ window = [x \in Records |-> 0]
    /\ poll = [w \in Pollers |-> AtRest]
    /\ stream = <<>>
    /\ recent = {}
    /\ job = [p \in Pods |-> Free]
    /\ outbox = [p \in Pods |-> <<>>]
    /\ dropped = {}
    /\ faults = 0

Latest(s) == s[Len(s)]

\* A failure that the environment may inflict.
Fault == faults < MaxFaults /\ faults' = faults + 1

----------------------------------------------------------------------------
(* WebEOC. *)

\* A user enters a record or a new version of it, which sets its entrydate.
\* An update belongs to a complaint.
Enter(x, c) ==
    /\ Len(entered[x]) < MaxEntries
    /\ entered[x] # <<>> => Latest(entered[x]) # c
    /\ x[2] # 0 => entered[<<x[1], 0>>] # <<>>
    /\ entered' = [entered EXCEPT ![x] = Append(@, c)]
    /\ window' = [window EXCEPT ![x] = HistoryTicks + 1]
    /\ UNCHANGED <<dbVars, bus, pods, dropped, faults>>

Quiet ==
    /\ stream = <<>>
    /\ \A p \in Pods : job[p] = Free /\ outbox[p] = <<>>
    /\ \A r \in Requests : req[r] = Idle

\* The cron job of every pod fires: it starts a poll, whether or not the ones
\* before it are over (but for the bound Polls).  The duplicate window, two
\* minutes, is shorter than a prompt interval leaves.
Resting == {w \in Pollers : poll[w] = AtRest}
OnePerPod(S) ==
    /\ \A v, w \in S : v[1] = w[1] => v = w
    /\ \A v \in Resting : \E w \in S : w[1] = v[1]
Tick ==
    /\ Prompt => Quiet /\ Resting = Pollers
    /\ \E S \in SUBSET Resting :
          /\ OnePerPod(S)
          /\ poll' = [w \in Pollers |-> IF w \in S THEN [phase |-> "due", todo |-> {}] ELSE poll[w]]
    /\ window' = [x \in Records |-> IF window[x] = 0 THEN 0 ELSE window[x] - 1]
    /\ recent' = IF Prompt THEN {} ELSE recent
    /\ UNCHANGED <<dbVars, entered, stream, job, outbox, dropped, faults>>

----------------------------------------------------------------------------
(* The stream. *)

Msg(subject, x, c) == [subject |-> subject, record |-> x, content |-> c]

UsedIds == {stream[k].id : k \in DOMAIN stream} \cup {job[p].id : p \in {q \in Pods : job[q] # Free}}
NewId   == CHOOSE n \in Ids \ UsedIds : \A m \in Ids \ UsedIds : n <= m

\* The Nats-Msg-Id names the record, not its content, except that the ids of
\* updates also hold the age of the update, which changes from poll to poll.
MsgId(m) == <<m.subject, m.record>>
Stored(m) ==
    /\ MsgId(m) \notin recent \/ m.subject \in {"update", "stagedUpdate"}
    /\ Len(stream) < MaxStream
    /\ stream' = Append(stream, [id |-> NewId, msg |-> m, state |-> "ready"])
    /\ recent' = recent \cup {MsgId(m)}

Duplicate(m) == MsgId(m) \in recent /\ UNCHANGED bus

Publish(m) == Stored(m) \/ Duplicate(m)

Entries(n)     == {k \in DOMAIN stream : stream[k].id = n}
Without(n)     == IF Entries(n) = {} THEN stream
                  ELSE LET k == CHOOSE j \in Entries(n) : TRUE   \* ids differ
                       IN  [j \in 1..(Len(stream) - 1) |-> IF j < k THEN stream[j] ELSE stream[j + 1]]
InState(n, st) == [k \in DOMAIN stream |->
                      IF stream[k].id = n THEN [stream[k] EXCEPT !.state = st] ELSE stream[k]]

\* An id leaves the duplicate window.
Forget ==
    /\ \E d \in recent : recent' = recent \ {d}
    /\ UNCHANGED <<dbVars, webeoc, stream, pods, dropped, faults>>

\* The delay of a nak is over, or the acknowledgement of a pod that gave the
\* message up without one is overdue.
Redeliver ==
    /\ \E k \in DOMAIN stream :
          /\ \/ stream[k].state = "later"
             \/ stream[k].state = "taken" /\ \A p \in Pods : job[p] # Free => job[p].id # stream[k].id
          /\ stream' = InState(stream[k].id, "ready")
    /\ UNCHANGED <<dbVars, webeoc, recent, pods, dropped, faults>>

\* The acknowledgement of a pod that still works on the message is overdue.
RedeliverEarly ==
    /\ Fault
    /\ \E k \in DOMAIN stream : stream[k].state = "taken" /\ stream' = InState(stream[k].id, "ready")
    /\ UNCHANGED <<dbVars, webeoc, recent, pods, dropped>>

----------------------------------------------------------------------------
(* The poll: complaints first, then updates; what is fetched is published   *)
(* one by one; a failure ends the half it happens in.                       *)

\* Mutant of Fetched: the history is as short as the polling interval.
FetchedOnce(S, subject) == {Msg(subject, x, Latest(entered[x])) : x \in {y \in S : window[y] >= HistoryTicks}}

Fetched(S, subject) == {Msg(subject, x, Latest(entered[x])) : x \in {y \in S : window[y] > 0}}

Fetch(w) ==
    /\ \/ /\ poll[w].phase = "due"
          /\ poll' = [poll EXCEPT ![w] = [phase |-> "complaints", todo |-> Fetched(Complaints, "new")]]
       \/ /\ poll[w] = [phase |-> "complaints", todo |-> {}]
          /\ poll' = [poll EXCEPT ![w] = [phase |-> "updates", todo |-> Fetched(Records \ Complaints, "update")]]
    /\ UNCHANGED <<dbVars, webeoc, bus, job, outbox, dropped, faults>>

PublishFetched(w) ==
    \E m \in poll[w].todo :
        /\ Publish(m)
        /\ poll' = [poll EXCEPT ![w].todo = @ \ {m}]
        /\ UNCHANGED <<dbVars, webeoc, job, outbox, dropped, faults>>

\* Authentication, the query of WebEOC or a publication fails.
PollFails(w) ==
    /\ poll[w] # AtRest
    /\ Fault
    /\ poll' = [poll EXCEPT ![w] =
                   [phase |-> IF @.phase = "due" \/ (@.phase = "complaints" /\ @.todo # {})
                              THEN "complaints" ELSE "updates",
                    todo  |-> {}]]
    /\ UNCHANGED <<dbVars, webeoc, bus, job, outbox, dropped>>

----------------------------------------------------------------------------
(* The handler. Records are acknowledged before the HTTP request, notices   *)
(* after it.                                                                *)

BusyPods == {p \in Pods : job[p] # Free}

\* Mutant of Take: notices too are acknowledged before the HTTP request.
TakeToAck(p) ==
    /\ job[p] = Free /\ Len(outbox[p]) < MaxOutbox
    /\ \E k \in DOMAIN stream :
          LET e == stream[k] IN
          /\ e.state = "ready"
          /\ Cardinality({j \in 1..(k - 1) : stream[j].state = "ready"}) <= Cardinality(BusyPods)
          /\ stream' = InState(e.id, "taken")
          /\ job' = [job EXCEPT ![p] = [at |-> "acking", id |-> e.id, msg |-> e.msg]]
    /\ UNCHANGED <<dbVars, webeoc, recent, poll, outbox, dropped, faults>>

\* Oldest first, but any other pod at work may have prefetched a message.
Take(p) ==
    /\ job[p] = Free /\ Len(outbox[p]) < MaxOutbox
    /\ \E k \in DOMAIN stream :
          LET e == stream[k] IN
          /\ e.state = "ready"
          /\ Cardinality({j \in 1..(k - 1) : stream[j].state = "ready"}) <= Cardinality(BusyPods)
          /\ stream' = InState(e.id, "taken")
          /\ job' = [job EXCEPT ![p] =
                        [at  |-> IF e.msg.subject \in {"new", "update"} THEN "acking" ELSE "calling",
                         id  |-> e.id, msg |-> e.msg]]
    /\ UNCHANGED <<dbVars, webeoc, recent, poll, outbox, dropped, faults>>

Ack(p) ==
    /\ job[p].at = "acking"
    /\ stream' = Without(job[p].id)
    /\ job' = [job EXCEPT ![p].at = "calling"]
    /\ UNCHANGED <<dbVars, webeoc, recent, poll, outbox, dropped, faults>>

\* No confirmation of the ack, lost or not: the handler gives up, and its nak
\* has no effect on a message that it has acknowledged.
AckFails(p) ==
    /\ job[p].at = "acking"
    /\ Fault
    /\ stream' \in {stream, Without(job[p].id)}
    /\ job' = [job EXCEPT ![p] = Free]
    /\ UNCHANGED <<dbVars, webeoc, recent, poll, outbox, dropped>>

\* Mutant of Notice: the two publishers are mixed up.
NoticeOfComplaint(m) == Msg("staged", <<m.record[1], 0>>, None)

\* What follows the answer of the backend: the notice of a staged record,
\* whether or not there was anything to stage, or the ack of a notice.
Notice(m) == Msg(IF m.subject = "new" THEN "staged" ELSE "stagedUpdate", m.record, None)
Answered(p) ==
    LET m == job[p].msg IN
    /\ job' = [job EXCEPT ![p] = Free]
    /\ IF m.subject \in {"new", "update"}
       THEN /\ outbox' = [outbox EXCEPT ![p] = Append(@, Notice(m))]
            /\ UNCHANGED stream
       ELSE /\ stream' = Without(job[p].id)
            /\ UNCHANGED outbox

\* The request that a message leads to, and whether it is answered at once.
Calls(r, m) ==
    LET i == m.record[1]
        n == m.record[2]
    IN CASE m.subject = "new"          -> StageComplaint(r, i, m.content)
         [] m.subject = "update"       -> StageUpdate(r, i, n, m.content)
         [] m.subject = "staged"       -> ProcessComplaint(r, i)
         [] m.subject = "stagedUpdate" -> ProcessUpdate(r, i, n)
NothingToDo(m) ==
    LET i == m.record[1]
        n == m.record[2]
    IN CASE m.subject = "new"          -> StagedAs(i, m.content) = {}
         [] m.subject = "update"       -> ~ IsNewUpdate(i, n, m.content)
         [] m.subject = "staged"       -> FALSE
         [] m.subject = "stagedUpdate" -> Pending(UpdateRows(i, n)) = {}

Call(p) ==
    /\ job[p].at = "calling"
    /\ \/ \E r \in Requests :
             /\ Calls(r, job[p].msg)
             /\ job' = [job EXCEPT ![p] = [at |-> "waiting", id |-> @.id, msg |-> @.msg, slot |-> r]]
             /\ UNCHANGED <<stream, outbox>>
       \/ /\ NothingToDo(job[p].msg)
          /\ Answered(p)
          /\ UNCHANGED dbVars
    /\ UNCHANGED <<webeoc, recent, poll, dropped, faults>>

Waiting(r) == {p \in Pods : job[p].at = "waiting" /\ job[p].slot = r}

\* The backend goes on with a request, and answers when it is done.
Serve(r) ==
    /\ Continue(r)
    /\ IF req'[r] = Idle /\ Waiting(r) # {}
       THEN \E p \in Waiting(r) : Answered(p)
       ELSE UNCHANGED <<stream, job, outbox>>
    /\ UNCHANGED <<webeoc, recent, poll, dropped, faults>>

\* The backend fails with a request in progress.
BackendFails(r) ==
    /\ Fault
    /\ Abort(r)
    /\ job' = [p \in Pods |-> IF p \in Waiting(r)
                              THEN [at |-> "failed", id |-> job[p].id, msg |-> job[p].msg] ELSE job[p]]
    /\ UNCHANGED <<webeoc, bus, poll, outbox, dropped>>

\* The connection to the backend fails: before the request, or in its course,
\* which the backend does not notice.
CallFails(p) ==
    /\ job[p].at \in {"calling", "waiting"}
    /\ Fault
    /\ job' = [job EXCEPT ![p] = [at |-> "failed", id |-> @.id, msg |-> @.msg]]
    /\ UNCHANGED <<dbVars, webeoc, bus, poll, outbox, dropped>>

\* nak(10_000) in the catch block: it reaches only a message not yet acked.
Nak(p) ==
    /\ job[p].at = "failed"
    /\ stream' = InState(job[p].id, "later")
    /\ job' = [job EXCEPT ![p] = Free]
    /\ UNCHANGED <<dbVars, webeoc, recent, poll, outbox, dropped, faults>>

----------------------------------------------------------------------------
\* A publication that the handler did not wait for.  Nobody looks at whether
\* the stream took it for a duplicate.
PublishNotice(p) ==
    /\ outbox[p] # <<>>
    /\ LET m == Head(outbox[p]) IN
          \/ Stored(m)    /\ dropped' = dropped \ {m.record}
          \/ Duplicate(m) /\ dropped' = dropped \cup {m.record}
    /\ outbox' = [outbox EXCEPT ![p] = Tail(@)]
    /\ UNCHANGED <<dbVars, webeoc, poll, job, faults>>

\* The pod ends: also by the rejection of such a publication, which nobody
\* handles.  What it had in memory is lost.
Crash(p) ==
    /\ Fault
    /\ poll' = [w \in Pollers |-> IF w[1] = p THEN AtRest ELSE poll[w]]
    /\ job' = [job EXCEPT ![p] = Free]
    /\ outbox' = [outbox EXCEPT ![p] = <<>>]
    /\ UNCHANGED <<dbVars, webeoc, bus, dropped>>

Poll(w)    == Fetch(w) \/ PublishFetched(w)
Handler(p) == Take(p) \/ Ack(p) \/ Call(p) \/ Nak(p)

PipelineNext ==
    \/ \E x \in Records : \E c \in Versions(x) : Enter(x, c)
    \/ Tick \/ Forget \/ Redeliver \/ RedeliverEarly
    \/ \E w \in Pollers : Poll(w) \/ PollFails(w)
    \/ \E p \in Pods : Handler(p) \/ PublishNotice(p)
    \/ \E p \in Pods : AckFails(p) \/ CallFails(p) \/ Crash(p)
    \/ \E r \in Requests : Serve(r) \/ BackendFails(r)

\* The cron job fires, the event loops of the pods go round, the backend
\* answers, JetStream redelivers.  Nothing forces a user or a failure.
Fairness ==
    /\ WF_pipelineVars(Tick) /\ WF_pipelineVars(Redeliver)
    /\ \A w \in Pollers : WF_pipelineVars(Poll(w))
    /\ \A p \in Pods : WF_pipelineVars(Handler(p)) /\ WF_pipelineVars(PublishNotice(p))
    /\ \A r \in Requests : WF_pipelineVars(Serve(r))

PipelineSpec == PipelineInit /\ [][PipelineNext]_pipelineVars
FairSpec     == PipelineSpec /\ Fairness

----------------------------------------------------------------------------
(* Properties. *)

Held(i) == {Detail(entered[<<i, 0>>][k]) : k \in DOMAIN entered[<<i, 0>>]}

\* Detailed specification and abstract one, end to end: through overlapping
\* polls, messages, requests and procedures of several pods, and whatever
\* fails, a complaint appears as one version that WebEOC has held for its
\* incident, takes its fields from such versions only, one per step, and never
\* goes.  In which order the versions reach it is not claimed.
EndToEnd == INSTANCE ComplaintFeed WITH
    Contents  <- {Detail(c) : c \in Contents},
    submitted <- [i \in Incidents |-> Held(i)],
    shown     <- [i \in Incidents |-> Content(i)]
ShowsWhatWebeocHeld == EndToEnd!Spec

\* However many pods poll and handle messages, and however their requests
\* overlap: as long as a staged complaint is PENDING, its notice is in the
\* stream or about to be published, or the last one was taken for a duplicate
\* (nothing having failed).
PendingHasNotice ==
    \A i \in Incidents :
        LET notice == Msg("staged", <<i, 0>>, None) IN
        faults = 0 /\ Pending(Rows(i, {"INSERT", "EDIT"})) # {}
            => \/ <<i, 0>> \in dropped
               \/ \E k \in DOMAIN stream : stream[k].msg = notice
               \/ \E p \in Pods : \E k \in DOMAIN outbox[p] : outbox[p][k] = notice

\* The latest version of a record reaches the complaint, although a message is
\* acknowledged before it is handled and its notice is not waited for: the
\* later polls within the history make up for a failure.
EventuallyShown ==
    \A i \in Incidents :
        <>[](entered[<<i, 0>>] # <<>> => Content(i) = Detail(Latest(entered[<<i, 0>>])))

\* An update that is not staged yet when its complaint exists is logged
\* (its text being news).
EventuallyLogged ==
    \A x \in Records \ Complaints :
        /\ entered[x] # <<>>
        /\ complaint[x[1]] # None
        /\ UpdateRows(x[1], x[2]) = {}
        ~> Logged(x[1], x[2]) # {}
=============================================================================
