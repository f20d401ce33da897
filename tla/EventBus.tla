------------------------------ MODULE EventBus ------------------------------
(***************************************************************************)
(* The in-process event bus (internal/events/bus.go): publishers stamp an  *)
(* event, store it in the project's ring buffer and take a snapshot of its *)
(* subscribers under b.mu, then offer the event to each of their channels  *)
(* without the lock, while subscribers come, read and leave.               *)
(*                                                                         *)
(* Events are their ids; all are stamped by the bus (event.ID = 0 on       *)
(* entry).                                                                 *)
(***************************************************************************)
EXTENDS Naturals, Sequences, SequencesExt

CONSTANTS
    Projects,
    Publishers,         \* goroutines that call Publish
    Subscribers,        \* each subscribes and unsubscribes at most once
    RingSize,           \* bufferSize (200)
    SubscriberBuffer,   \* subscriberBufferSize (64)
    MaxEvents           \* bound: events published

ASSUME EventBusAssumption ==
    /\ RingSize \in Nat \ {0}
    /\ SubscriberBuffer \in Nat \ {0}
    /\ MaxEvents \in Nat

VARIABLES
    nextEventID,    \* b.nextEventID
    subs,           \* b.subs: per project its subscribers, oldest first
    perProject,     \* b.perProject: the ring buffers
    ch,             \* per subscriber: the events in its channel
    chState,        \* per subscriber: "none", "open" or "closed"
    pub,            \* per publisher: its call of Publish
    panicked,       \* a send on a closed channel has brought the process down
    published,      \* history: per project the events, in order
    received,       \* history: per subscriber what it has read
    offered,        \* history: <<event, subscriber>> in the snapshot of a Publish
    reported        \* history: per returned event the bool of Publish

vars == <<nextEventID, subs, perProject, ch, chState, pub, panicked, published,
          received, offered, reported>>

EventIDs == 1..MaxEvents
IdlePub == [event |-> 0, rest |-> <<>>, allDelivered |-> FALSE]

\* A fresh ring buffer; 0 is the zero Event.
newRingBuffer == [buf |-> [i \in 0..RingSize-1 |-> 0], head |-> 0, full |-> FALSE]

Init ==
    /\ nextEventID = 1
    /\ subs = [p \in Projects |-> <<>>]
    /\ perProject = [p \in Projects |-> newRingBuffer]
    /\ ch = [s \in Subscribers |-> <<>>]
    /\ chState = [s \in Subscribers |-> "none"]
    /\ pub = [q \in Publishers |-> IdlePub]
    /\ panicked = FALSE
    /\ published = [p \in Projects |-> <<>>]
    /\ received = [s \in Subscribers |-> <<>>]
    /\ offered = {}
    /\ reported = [e \in EventIDs |-> "no"]

(***************************************************************************)
(* The ring buffer.                                                        *)
(***************************************************************************)

\* Mistake: full is set one slot too early.
pushEarly(r, e) ==
    [buf |-> [r.buf EXCEPT ![r.head] = e],
     head |-> (r.head + 1) % RingSize,
     full |-> r.full \/ r.head + 2 >= RingSize]

push(r, e) ==
    [buf |-> [r.buf EXCEPT ![r.head] = e],
     head |-> (r.head + 1) % RingSize,
     full |-> r.full \/ (r.head + 1) % RingSize = 0]

\* The n most recent events, oldest first.
last(r, n) ==
    LET available == IF r.full THEN RingSize ELSE r.head
        m == IF n > available THEN available ELSE n
    IN  [k \in 1..m |-> r.buf[(r.head + RingSize - 1 - (m - k)) % RingSize]]

BusLast(p, n) == last(perProject[p], n)

(***************************************************************************)
(* Publish.                                                                *)
(***************************************************************************)

\* The critical section; without subscribers the call returns false at once.
Publish(q, p) ==
    /\ ~panicked
    /\ pub[q] = IdlePub
    /\ nextEventID <= MaxEvents
    /\ nextEventID' = nextEventID + 1
    /\ perProject' = [perProject EXCEPT ![p] = push(@, nextEventID)]
    /\ published' = [published EXCEPT ![p] = Append(@, nextEventID)]
    /\ IF subs[p] = <<>>
       THEN /\ reported' = [reported EXCEPT ![nextEventID] = "false"]
            /\ UNCHANGED <<pub, offered>>
       ELSE /\ pub' = [pub EXCEPT ![q] = [event |-> nextEventID, rest |-> subs[p],
                                          allDelivered |-> TRUE]]
            /\ offered' = offered \cup {<<nextEventID, s>> : s \in ToSet(subs[p])}
            /\ UNCHANGED reported
    /\ UNCHANGED <<subs, ch, chState, panicked, received>>

\* The next subscriber of the snapshot has been dealt with.
Step(q, accepted) ==
    LET c == pub[q]
        ok == c.allDelivered /\ accepted
    IN  IF Len(c.rest) = 1
        THEN /\ pub' = [pub EXCEPT ![q] = IdlePub]
             /\ reported' = [reported EXCEPT ![c.event] = IF ok THEN "true" ELSE "false"]
        ELSE /\ pub' = [pub EXCEPT ![q].rest = Tail(@), ![q].allDelivered = ok]
             /\ UNCHANGED reported

\* The select sends ...
Deliver(q) ==
    /\ ~panicked
    /\ pub[q] # IdlePub
    /\ LET s == Head(pub[q].rest)
       IN  /\ chState[s] = "open"
           /\ Len(ch[s]) < SubscriberBuffer
           /\ ch' = [ch EXCEPT ![s] = Append(@, pub[q].event)]
    /\ Step(q, TRUE)
    /\ UNCHANGED <<nextEventID, subs, perProject, chState, panicked, published,
                   received, offered>>

\* Mistake: a full channel is waited for.
DropBlocks(q) ==
    /\ ~panicked
    /\ pub[q] # IdlePub
    /\ LET s == Head(pub[q].rest)
       IN  /\ chState[s] = "open"
           /\ Len(ch[s]) = SubscriberBuffer
    /\ UNCHANGED vars

\* Mistake: a dropped event does not show in the result.
DropSilently(q) ==
    /\ ~panicked
    /\ pub[q] # IdlePub
    /\ LET s == Head(pub[q].rest)
       IN  /\ chState[s] = "open"
           /\ Len(ch[s]) = SubscriberBuffer
    /\ Step(q, TRUE)
    /\ UNCHANGED <<nextEventID, subs, perProject, ch, chState, panicked, published,
                   received, offered>>

\* ... or the channel is full and the event is dropped ...
Drop(q) ==
    /\ ~panicked
    /\ pub[q] # IdlePub
    /\ LET s == Head(pub[q].rest)
       IN  /\ chState[s] = "open"
           /\ Len(ch[s]) = SubscriberBuffer
    /\ Step(q, FALSE)
    /\ UNCHANGED <<nextEventID, subs, perProject, ch, chState, panicked, published,
                   received, offered>>

\* ... or the subscriber of the snapshot has left: a send on a closed channel.
SendOnClosed(q) ==
    /\ ~panicked
    /\ pub[q] # IdlePub
    /\ chState[Head(pub[q].rest)] = "closed"
    /\ panicked' = TRUE
    /\ UNCHANGED <<nextEventID, subs, perProject, ch, chState, pub, published,
                   received, offered, reported>>

(***************************************************************************)
(* Subscribe, unsubscribe, and the consumer at the other end.              *)
(***************************************************************************)
Subscribe(s, p) ==
    /\ ~panicked
    /\ chState[s] = "none"
    /\ chState' = [chState EXCEPT ![s] = "open"]
    /\ subs' = [subs EXCEPT ![p] = Append(@, s)]
    /\ UNCHANGED <<nextEventID, perProject, ch, pub, panicked, published, received,
                   offered, reported>>

\* Once per subscription (sync.Once): out of the list, and the channel closed.
Unsubscribe(s) ==
    /\ ~panicked
    /\ chState[s] = "open"
    /\ \E p \in Projects : \E i \in DOMAIN subs[p] :
          /\ subs[p][i] = s
          /\ subs' = [subs EXCEPT ![p] = RemoveAt(@, i)]
    /\ chState' = [chState EXCEPT ![s] = "closed"]
    /\ UNCHANGED <<nextEventID, perProject, ch, pub, panicked, published, received,
                   offered, reported>>

\* The consumer reads its channel; a closed one still yields what it holds.
Consume(s) ==
    /\ ~panicked
    /\ ch[s] # <<>>
    /\ received' = [received EXCEPT ![s] = Append(@, Head(ch[s]))]
    /\ ch' = [ch EXCEPT ![s] = Tail(@)]
    /\ UNCHANGED <<nextEventID, subs, perProject, chState, pub, panicked, published,
                   offered, reported>>

PublishStep(q) == Deliver(q) \/ Drop(q) \/ SendOnClosed(q)

Next ==
    \/ \E q \in Publishers :
          (\E p \in Projects : Publish(q, p)) \/ PublishStep(q)
    \/ \E s \in Subscribers :
          (\E p \in Projects : Subscribe(s, p)) \/ Unsubscribe(s) \/ Consume(s)

Spec == Init /\ [][Next]_vars

\* A goroutine inside Publish is scheduled.  Nothing is assumed of consumers.
FairSpec == Spec /\ \A q \in Publishers : WF_vars(PublishStep(q))

-----------------------------------------------------------------------------
(***************************************************************************)
(* Properties.                                                             *)
(***************************************************************************)

\* The state of the bus has the shape the Go types give it, and no channel
\* holds more than its buffer.
TypeOK ==
    /\ nextEventID \in 1..MaxEvents+1
    /\ subs \in [Projects -> Seq(Subscribers)]
    /\ perProject \in [Projects -> [buf : [0..RingSize-1 -> 0..MaxEvents],
                                    head : 0..RingSize-1, full : BOOLEAN]]
    /\ ch \in [Subscribers -> Seq(EventIDs)]
    /\ \A s \in Subscribers : Len(ch[s]) <= SubscriberBuffer
    /\ chState \in [Subscribers -> {"none", "open", "closed"}]
    /\ pub \in [Publishers -> [event : 0..MaxEvents, rest : Seq(Subscribers),
                               allDelivered : BOOLEAN]]
    /\ panicked \in BOOLEAN
    /\ published \in [Projects -> Seq(EventIDs)]
    /\ received \in [Subscribers -> Seq(EventIDs)]
    /\ offered \subseteq EventIDs \X Subscribers
    /\ reported \in [EventIDs -> {"no", "true", "false"}]

\* Last answers with the most recent events of the project, oldest first, as
\* many as were asked for and are still held, also after the buffer wrapped.
ReplayIsRecent ==
    \A p \in Projects, n \in 1..RingSize+1 :
        LET count == Len(published[p])
            held == CHOOSE k \in {n, RingSize, count} :
                       \A j \in {n, RingSize, count} : k <= j
        IN  BusLast(p, n) = SubSeq(published[p], count - held + 1, count)

\* What subscriber s has been given so far.
Given(s) == received[s] \o ch[s]

\* No silent loss: when Publish has returned, an event that was offered to a
\* subscriber was accepted by its channel or the result says false; and true
\* is only ever said of an event that every subscriber of its project got.
\* Nobody is given an event twice, or one that was not offered to it.
PublishTellsTheTruth ==
    /\ \A s \in Subscribers :
          IsInjective(Given(s)) /\ \A e \in ToSet(Given(s)) : <<e, s>> \in offered
    /\ \A e \in EventIDs :
        /\ reported[e] = "true" =>
              /\ \A s \in Subscribers : <<e, s>> \in offered => e \in ToSet(Given(s))
              /\ \E s \in Subscribers : <<e, s>> \in offered
        /\ reported[e] = "false" =>
              \/ \A s \in Subscribers : <<e, s>> \notin offered
              \/ \E s \in Subscribers : <<e, s>> \in offered /\ e \notin ToSet(Given(s))

\* What makes the two inductive.  Counted back from its head, ring buffer r is
\* the end of what was published, s.
RingHolds(r, s) ==
    /\ r.full <=> Len(s) >= RingSize
    /\ ~r.full => r.head = Len(s)
    /\ \A k \in 0..RingSize-1 :
          k < Len(s) => r.buf[(r.head + RingSize - 1 - k) % RingSize] = s[Len(s) - k]

RingInv == \A p \in Projects : RingHolds(perProject[p], published[p])

\* Who is on a list is on it once, on no other list, and has an open channel.
SubsInv ==
    /\ \A p \in Projects : IsInjective(subs[p]) /\ \A s \in ToSet(subs[p]) : chState[s] = "open"
    /\ \A p, o \in Projects : p # o => ToSet(subs[p]) \cap ToSet(subs[o]) = {}

\* A call of Publish in progress: those left of its snapshot have not got the
\* event, and allDelivered speaks for the others.
PubOK(q) ==
    LET c == pub[q] IN
    /\ c.event \in 1..nextEventID-1
    /\ reported[c.event] = "no"
    /\ c.rest # <<>> /\ IsInjective(c.rest)
    /\ \A s \in ToSet(c.rest) : <<c.event, s>> \in offered /\ c.event \notin ToSet(Given(s))
    /\ c.allDelivered =>
          \A s \in Subscribers :
             <<c.event, s>> \in offered /\ s \notin ToSet(c.rest) => c.event \in ToSet(Given(s))
    /\ ~c.allDelivered =>
          \E s \in Subscribers : /\ <<c.event, s>> \in offered /\ s \notin ToSet(c.rest)
                                 /\ c.event \notin ToSet(Given(s))

PubInv == \A q \in Publishers : pub[q] # IdlePub => PubOK(q)

\* Every event is published once, by one call.
EventInv ==
    /\ \A q, o \in Publishers :
          q # o /\ pub[q] # IdlePub /\ pub[o] # IdlePub => pub[q].event # pub[o].event
    /\ \A e \in EventIDs :
          e >= nextEventID => reported[e] = "no" /\ \A s \in Subscribers : <<e, s>> \notin offered

EventBusInv == TypeOK /\ RingInv /\ SubsInv /\ PubInv /\ EventInv /\ PublishTellsTheTruth

\* Publish never blocks: every call returns, also when nobody reads.
PublishReturns ==
    \A q \in Publishers : pub[q] # IdlePub ~> pub[q] = IdlePub \/ panicked

\* A call goes through its snapshot once: it keeps its event, takes the
\* subscribers in their order, and takes none that subscribed later.
ServesSnapshotOnce ==
    \A q \in Publishers :
       pub[q] # IdlePub =>
          \/ pub'[q] = pub[q]
          \/ pub'[q] = IdlePub /\ Len(pub[q].rest) = 1
          \/ pub'[q].event = pub[q].event /\ pub'[q].rest = Tail(pub[q].rest)
SnapshotsServedOnce == [][ServesSnapshotOnce]_vars

\* A snapshot has only subscribers that have subscribed.
SnapshotInv ==
    \A q \in Publishers : \A s \in ToSet(pub[q].rest) : chState[s] # "none"

(***************************************************************************)
(* What a comment of the package says and the code does not do.            *)
(***************************************************************************)

\* "The returned *MemoryBus is safe for concurrent use."
SafeForConcurrentUse == ~panicked
=============================================================================
