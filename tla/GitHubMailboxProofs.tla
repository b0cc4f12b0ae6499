------------------------ MODULE GitHubMailboxProofs -------------------------
(***************************************************************************)
(* Feedback stays with the revision it was bound to                        *)
(* (FeedbackKeepsRevision), and a version of feedback, a human message and *)
(* a human comment are told once (ToldOnce): for any bounds, any choice of *)
(* typed comments and any batch.                                           *)
(*                                                                         *)
(* Neither is inductive.  That a key is told once rests on three stores    *)
(* that are written one after the other: the ledger and the local store    *)
(* hear of a processed turn before the inbox forgets it (AckedFirst), so   *)
(* that what the inbox has forgotten is pending in neither of them (Holds, *)
(* DoneAcked) and a poll cannot offer it again (Offers); and a key has one *)
(* row, since feedback is offered in the conversation of its revision only *)
(* (Belongs) and a human's words are recognised in any (RowsOnce).         *)
(***************************************************************************)
EXTENDS GitHubMailbox, FiniteSetTheorems, TLAPS

\* The kinds that ToldOnce is about.
OnceKinds == {"feedback", "human", "remark"}

\* Comments are numbered in the order of their creation.
CommentsNumbered ==
    /\ \E n \in Nat : DOMAIN version = 1..n
    /\ DOMAIN marker = DOMAIN version

\* A ledger binds the versions of comments that exist, as FeedbackKeepsRevision says.
Binds(entries) ==
    /\ \A k \in DOMAIN entries :
        /\ entries[k] = [revision |-> entries[k].revision, acked |-> entries[k].acked]
        /\ k[2] \in DOMAIN version
    /\ \A j, k \in DOMAIN entries : j[2] = k[2] => entries[j].revision = entries[k].revision
    /\ \A k \in DOMAIN entries : k[2] \in Typed => entries[k].revision = marker[k[2]]

\* Feedback is on its way only in the conversation the ledger bound it to.
Belongs(entries, k, conv) ==
    Kind(k) = "feedback" => k \in DOMAIN entries /\ conv = Conversation(entries[k].revision)

\* The local store holds feedback of its own conversation, and none that is
\* pending there although its turn was acknowledged.
Holds(entries, stored) ==
    \A k \in DOMAIN stored :
        /\ stored[k] = [conv |-> stored[k].conv, acked |-> stored[k].acked]
        /\ Belongs(entries, k, stored[k].conv)
        /\ Kind(k) = "feedback" /\ k \in done => stored[k].acked

RowsBelong == \A r \in DOMAIN rows : r = <<r[1], r[2]>> /\ Belongs(ledger, r[2], r[1])

\* Events that name a key once, and no feedback that was acknowledged.
Offers(entries, events) ==
    /\ \A e \in events :
        /\ e = Event(e.key, e.conv)
        /\ Belongs(entries, e.key, e.conv)
        /\ Kind(e.key) = "feedback" => e.key \notin done
    /\ \A e, f \in events : Kind(e.key) \in OnceKinds /\ e.key = f.key => e = f

PollOffers == Offers(ledger, polled) /\ (pc # "enqueue" => polled = {})

\* A key has one row, and none once it was acknowledged.
RowsOnce ==
    /\ \A r, s \in DOMAIN rows : Kind(r[2]) \in OnceKinds /\ r[2] = s[2] => r = s
    /\ \A r \in DOMAIN rows : Kind(r[2]) \in OnceKinds => r[2] \notin done

\* What was told is acknowledged or about to be.
Answered(k) == k \in done \/ \E r \in DOMAIN rows : r[2] = k /\ rows[r] = "processed"
ToldAre == \A k \in DOMAIN told : Kind(k) \in OnceKinds => told[k] = 1 /\ Answered(k)

\* The mailboxes hear of a turn before the inbox forgets it.
DoneAcked(entries) ==
    \A k \in done : Kind(k) = "feedback" => k \in DOMAIN entries /\ entries[k].acked
AckedFirst ==
    pc = "acked" =>
        \A k \in ProcessedKeys :
            /\ Kind(k) = "feedback" => k \in DOMAIN ledger /\ ledger[k].acked
            /\ k \in DOMAIN store => store[k].acked

\* A watcher runs beside a turn only.
WatcherAtTurn == watcher # "off" => pc \in {"turn", "joining"}

IInv ==
    /\ CommentsNumbered /\ Binds(ledger) /\ Holds(ledger, store) /\ RowsBelong /\ PollOffers
    /\ RowsOnce /\ ToldAre /\ DoneAcked(ledger) /\ AckedFirst /\ WatcherAtTurn

-----------------------------------------------------------------------------
(* The ledger.                                                             *)

\* Entries stay with their revision, and acknowledged.
Grows(entries, later) ==
    \A k \in DOMAIN entries :
        /\ k \in DOMAIN later
        /\ later[k].revision = entries[k].revision
        /\ entries[k].acked => later[k].acked

LEMMA GrownHolds ==
    ASSUME NEW entries, NEW later, Grows(entries, later), NEW stored, Holds(entries, stored)
    PROVE  Holds(later, stored)
BY DEF Grows, Holds, Belongs

LEMMA GrownOffers ==
    ASSUME NEW entries, NEW later, Grows(entries, later), NEW events, Offers(entries, events)
    PROVE  Offers(later, events)
BY DEF Grows, Offers, Belongs

\* A comment's versions are bound to one revision, that of its marker if it
\* is typed.
LEMMA BindBinds ==
    ASSUME Binds(ledger), NEW c \in Candidates
    PROVE  /\ c \in Typed => Bind(c) = marker[c]
           /\ \A k \in DOMAIN ledger : k[2] = c => Bind(c) = ledger[k].revision
<1>1. CASE Prior(c) = {}
  <2>1. \A k \in DOMAIN ledger : k[2] # c
    BY <1>1 DEF Prior
  <2> QED  BY <1>1, <2>1 DEF Bind, Trusted
<1>2. CASE Prior(c) # {}
  <2>1. Bind(c) \in Prior(c)
    BY <1>2 DEF Bind
  <2>2. PICK j \in DOMAIN ledger : j[2] = c /\ Bind(c) = ledger[j].revision
    BY <2>1 DEF Prior
  <2> QED  BY <2>2 DEF Binds
<1> QED  BY <1>1, <1>2

\* What a student's poll writes.
LEMMA WrittenBinds ==
    ASSUME Binds(ledger)
    PROVE  /\ Binds(Written(Bound)) /\ Grows(ledger, Written(Bound))
           /\ \A c \in Candidates : FeedbackKey(c) \in DOMAIN Written(Bound)
<1> DEFINE entries == Written(Bound)
<1>1. DOMAIN Bound = {FeedbackKey(c) : c \in FirstSeen}
  BY DEF Bound
<1>2. DOMAIN entries = DOMAIN ledger \cup DOMAIN Bound
  BY DEF Written
<1>3. \A k \in DOMAIN ledger : k \notin DOMAIN Bound /\ entries[k] = ledger[k]
  BY <1>1 DEF Written, FirstSeen
<1>4. \A c \in FirstSeen : FeedbackKey(c)[2] = c /\ c \in Candidates
  BY DEF FeedbackKey, FirstSeen
<1>5. \A k \in DOMAIN Bound :
        k[2] \in Candidates /\ entries[k] = [revision |-> Bind(k[2]), acked |-> FALSE]
  BY <1>1, <1>4 DEF Bound, Written
<1> HIDE DEF entries
<1>6. \A k \in DOMAIN entries :
        /\ entries[k] = [revision |-> entries[k].revision, acked |-> entries[k].acked]
        /\ k[2] \in DOMAIN version
  BY <1>2, <1>3, <1>5 DEF Binds, Candidates
<1>7. \A k \in DOMAIN entries : k[2] \in Candidates => entries[k].revision = Bind(k[2])
  BY <1>2, <1>3, <1>5, BindBinds
<1>8. \A j, k \in DOMAIN entries : j[2] = k[2] => entries[j].revision = entries[k].revision
  BY <1>6, <1>7 DEF Candidates
<1>9. \A k \in DOMAIN entries : k[2] \in Typed => entries[k].revision = marker[k[2]]
  BY <1>6, <1>7, BindBinds DEF Candidates
<1>10. Binds(entries)
  BY <1>6, <1>8, <1>9 DEF Binds
<1>11. Grows(ledger, entries)
  BY <1>2, <1>3 DEF Grows
<1>12. \A c \in Candidates : FeedbackKey(c) \in DOMAIN entries
  BY <1>1, <1>2 DEF FirstSeen
<1> QED  BY <1>10, <1>11, <1>12 DEF entries

-----------------------------------------------------------------------------
(* What a poll offers.                                                     *)

\* The pending local events under keys GitHub did not report are added.
LEMMA MergedOffers ==
    ASSUME NEW entries, NEW stored, NEW events, Holds(entries, stored), Offers(entries, events)
    PROVE  Offers(entries, Merged(events, stored))
<1>1. \A e \in LocalEvents(stored) :
        /\ e.key \in DOMAIN stored /\ e = Event(e.key, stored[e.key].conv) /\ e.conv = stored[e.key].conv
        /\ ~ stored[e.key].acked
  BY DEF LocalEvents, Event
<1>2. \A e \in LocalEvents(stored) :
        /\ e = Event(e.key, e.conv) /\ Belongs(entries, e.key, e.conv)
        /\ Kind(e.key) = "feedback" => e.key \notin done
  BY <1>1 DEF Holds
<1>3. \A e, f \in LocalEvents(stored) : e.key = f.key => e = f
  BY <1>1
<1>4. \A e \in events : e.key \in Keys(events)
  BY DEF Keys
<1> QED  BY <1>2, <1>3, <1>4 DEF Offers, Merged

\* An advisor is offered no feedback, and every key for one conversation.
LEMMA AdvisorOffers ==
    ASSUME NEW broken
    PROVE  Offers(ledger, AdvisorEvents(broken))
<1> DEFINE K == ReviewReady \cup Available \cup ResearchBase(broken)
                \cup StudentComments(broken) \cup HumanComments(broken)
<1>1. \A k \in K : Kind(k) # "feedback"
  BY DEF ReviewReady, Available, ResearchBase, StudentComments, HumanComments, Kind
<1> DEFINE E == {Event(k, <<"advisor", 1>>) : k \in K} \cup HumanIssue(<<"advisor", 1>>)
<1> HIDE DEF K
<1>2. \A e \in E : e = Event(e.key, <<"advisor", 1>>) /\ e.conv = <<"advisor", 1>>
                   /\ Kind(e.key) # "feedback"
  BY <1>1 DEF Event, HumanIssue, Kind
<1>3. Offers(ledger, E)
  BY <1>2 DEF Offers, Belongs
<1> QED  BY <1>3 DEF K, AdvisorEvents

\* A student is offered unacknowledged feedback, bound by the ledger.
LEMMA StudentOffers ==
    ASSUME NEW entries, DoneAcked(entries),
           \A c \in Candidates : FeedbackKey(c) \in DOMAIN entries
    PROVE  Offers(entries, StudentEvents(entries))
<1> DEFINE batch == FeedbackBatchOf(PendingFeedback(entries))
           F == {Event(FeedbackKey(c), Conversation(entries[FeedbackKey(c)].revision)) : c \in batch}
<1>1. \A c \in batch : c \in Candidates /\ ~ entries[FeedbackKey(c)].acked
  BY DEF FeedbackBatchOf, PendingFeedback
<1> HIDE DEF batch
<1>2. \A c \in batch : /\ Kind(FeedbackKey(c)) = "feedback" /\ FeedbackKey(c) \in DOMAIN entries
                       /\ FeedbackKey(c) \notin done
  BY <1>1 DEF FeedbackKey, Kind, DoneAcked
<1>3. \A e \in F : /\ e = Event(e.key, e.conv) /\ Kind(e.key) = "feedback"
                   /\ e.key \in DOMAIN entries /\ e.key \notin done
                   /\ e.conv = Conversation(entries[e.key].revision)
  BY <1>2 DEF Event
<1> HIDE DEF F
<1>4. \A e \in Assignment(batch, entries) : e = Event(e.key, e.conv) /\ Kind(e.key) = "assignment"
  BY DEF Assignment, Event, Kind
<1>5. \A e \in HumanIssue(<<"issue", 1>>) : e = Event(<<"human", human>>, <<"issue", 1>>)
  BY DEF HumanIssue
<1>6. \A e \in HumanIssue(<<"issue", 1>>) : e = Event(e.key, e.conv) /\ Kind(e.key) = "human"
  BY <1>5 DEF Event, Kind
<1>7. Offers(entries, F \cup Assignment(batch, entries) \cup HumanIssue(<<"issue", 1>>))
  BY <1>3, <1>4, <1>5, <1>6 DEF Offers, Belongs, OnceKinds
<1> QED  BY <1>7 DEF StudentEvents, F, batch

\* What the watcher takes over stays in its conversation.
LEMMA LiveOffers ==
    ASSUME NEW entries, NEW events, Offers(entries, events)
    PROVE  \A e \in LiveEvents(events) :
             Kind(e.key) = "feedback" => Belongs(entries, e.key, turn) /\ e.key \notin done
<1> SUFFICES ASSUME NEW e \in LiveEvents(events), Kind(e.key) = "feedback"
             PROVE  Belongs(entries, e.key, turn) /\ e.key \notin done
  OBVIOUS
<1>1. PICK f \in events : e = Event(f.key, turn) /\ (Kind(f.key) = "feedback" => f.conv = turn)
  BY DEF LiveEvents
<1>2. e.key = f.key
  BY <1>1 DEF Event
<1> QED  BY <1>1, <1>2 DEF Offers

LEMMA StagesHolds ==
    ASSUME NEW entries, NEW events, NEW staged, NEW stored, Holds(entries, stored),
           \A e \in staged : Kind(e.key) = "feedback" =>
               Belongs(entries, e.key, turn) /\ e.key \notin done,
           WatcherStages(events, staged, stored)
    PROVE  Holds(entries, store')
<1> DEFINE added == {e \in staged : e.key \notin known /\ e.key \notin DOMAIN stored}
<1>1. store' = [k \in DOMAIN stored \cup Keys(added) |->
                    IF k \in DOMAIN stored THEN stored[k] ELSE [conv |-> turn, acked |-> FALSE]]
  BY DEF WatcherStages, Keys
<1>2. \A k \in DOMAIN store' \ DOMAIN stored :
        /\ store'[k] = [conv |-> turn, acked |-> FALSE]
        /\ \E e \in staged : k = e.key
  BY <1>1 DEF Keys
<1>3. \A k \in DOMAIN stored : k \in DOMAIN store' => store'[k] = stored[k]
  BY <1>1
<1> QED  BY <1>2, <1>3 DEF Holds, Belongs

-----------------------------------------------------------------------------
(* The inbox.                                                              *)

\* Enqueuing adds rows of events that are not live, and answers nothing.
LEMMA EnqueuedRows ==
    ASSUME NEW events, NEW kinds, \A e \in events : e = Event(e.key, e.conv)
    PROVE  LET later == Enqueued(events, kinds)
           IN  /\ \A r \in DOMAIN later \ DOMAIN rows :
                    \E e \in events :
                        /\ r = <<e.conv, e.key>> /\ Live(e) = {}
                        /\ Kind(e.key) \in EXACT_ONCE_EVENT_KINDS => e.key \notin done
               /\ \A r \in DOMAIN rows :
                    r \in DOMAIN later /\ (rows[r] = "processed" <=> later[r] = "processed")
               /\ \A r \in DOMAIN later : later[r] = "processed" => r \in DOMAIN rows
<1> DEFINE later == Enqueued(events, kinds)
           fresh == {e \in events : Live(e) = {}
                       /\ ~(Kind(e.key) \in EXACT_ONCE_EVENT_KINDS /\ e.key \in done)}
           taken(state) == {f \in events : (f \in fresh \/ <<f.conv, f.key>> \in RowsIn("queued"))
                                           /\ (state = "open") = Steered(f, kinds)}
           mine(state) == {<<e.conv, e.key>> : e \in taken(state)}
<1>1. later = [r \in DOMAIN rows \cup mine("open") \cup mine("queued") |->
                 IF r \in mine("open") THEN "open"
                 ELSE IF r \in DOMAIN rows THEN rows[r] ELSE "queued"]
  BY DEF Enqueued
<1>2. \A state : \A r \in mine(state) :
        \/ r \in RowsIn("queued")
        \/ \E e \in events : r = <<e.conv, e.key>> /\ e \in fresh
  OBVIOUS
<1>3. \A r \in RowsIn("queued") : r \in DOMAIN rows /\ rows[r] = "queued"
  BY DEF RowsIn
<1> HIDE DEF mine, taken
<1>4. \A r \in DOMAIN later \ DOMAIN rows : r \in mine("open") \/ r \in mine("queued")
  BY <1>1
<1>5. \A r \in DOMAIN later \ DOMAIN rows : \E e \in events : r = <<e.conv, e.key>> /\ e \in fresh
  BY <1>2, <1>3, <1>4
<1>6. \A r \in DOMAIN rows : r \in mine("open") => rows[r] = "queued"
  <2> SUFFICES ASSUME NEW r \in DOMAIN rows, r \in mine("open"), rows[r] # "queued"
               PROVE  FALSE
    OBVIOUS
  <2>1. PICK e \in events : r = <<e.conv, e.key>> /\ e \in fresh
    BY <1>2, <1>3
  <2>2. r \in Live(e)
    BY <2>1 DEF Live
  <2> QED  BY <2>1, <2>2
<1>7. \A r \in DOMAIN rows : r \in DOMAIN later /\ (rows[r] = "processed" <=> later[r] = "processed")
  BY <1>1, <1>6
<1>8. \A r \in DOMAIN later : later[r] = "processed" => r \in DOMAIN rows
  BY <1>1
<1> HIDE DEF later
<1> QED  BY <1>5, <1>7, <1>8 DEF later

\* What an enqueuing of offered events keeps.
LEMMA EnqueuingKeeps ==
    ASSUME RowsBelong, RowsOnce, ToldAre, NEW events, Offers(ledger, events), NEW kinds,
           rows' = Enqueued(events, kinds), UNCHANGED <<ledger, done, told>>
    PROVE  (RowsBelong /\ RowsOnce /\ ToldAre)'
<1>0. \A e \in events : e = Event(e.key, e.conv)
  BY DEF Offers
<1>1. \A r \in DOMAIN rows' \ DOMAIN rows :
        \E e \in events : /\ r = <<e.conv, e.key>> /\ Live(e) = {}
                          /\ Kind(e.key) \in EXACT_ONCE_EVENT_KINDS => e.key \notin done
  BY <1>0, EnqueuedRows
<1>2. \A r \in DOMAIN rows : r \in DOMAIN rows' /\ (rows[r] = "processed" <=> rows'[r] = "processed")
  BY <1>0, EnqueuedRows
<1>3. \A r \in DOMAIN rows' \ DOMAIN rows :
        /\ r = <<r[1], r[2]>> /\ Belongs(ledger, r[2], r[1])
        /\ Kind(r[2]) \in OnceKinds => r[2] \notin done
  <2> SUFFICES ASSUME NEW r \in DOMAIN rows' \ DOMAIN rows
               PROVE  /\ r = <<r[1], r[2]>> /\ Belongs(ledger, r[2], r[1])
                      /\ Kind(r[2]) \in OnceKinds => r[2] \notin done
    OBVIOUS
  <2>1. PICK e \in events : /\ r = <<e.conv, e.key>>
                            /\ Kind(e.key) \in EXACT_ONCE_EVENT_KINDS => e.key \notin done
    BY <1>1
  <2>2. r[1] = e.conv /\ r[2] = e.key
    BY <2>1
  <2>3. Belongs(ledger, e.key, e.conv) /\ (Kind(e.key) = "feedback" => e.key \notin done)
    BY DEF Offers
  <2> QED  BY <2>1, <2>2, <2>3 DEF OnceKinds, EXACT_ONCE_EVENT_KINDS
<1>4. RowsBelong'
  BY <1>3 DEF RowsBelong, Belongs
<1>5. ASSUME NEW r \in DOMAIN rows' \ DOMAIN rows, NEW s \in DOMAIN rows',
             Kind(r[2]) \in OnceKinds, r[2] = s[2]
      PROVE  r = s
  <2>1. PICK e \in events : r = <<e.conv, e.key>> /\ Live(e) = {}
    BY <1>1
  <2>2. r[1] = e.conv /\ r[2] = e.key
    BY <2>1
  <2>3. CASE s \in DOMAIN rows
    <3>1. s = <<s[1], s[2]>> /\ Belongs(ledger, s[2], s[1]) /\ Belongs(ledger, e.key, e.conv)
      BY <2>3 DEF RowsBelong, Offers
    <3>2. Kind(e.key) = "feedback" => s[1] = e.conv
      BY <1>5, <2>2, <3>1 DEF Belongs
    <3>3. s \in Live(e)
      BY <1>5, <2>2, <2>3, <3>2 DEF Live, OnceKinds, EXACT_ONCE_EVENT_KINDS
    <3> QED  BY <2>1, <3>3
  <2>4. CASE s \notin DOMAIN rows
    <3>1. PICK f \in events : s = <<f.conv, f.key>>
      BY <1>1, <2>4
    <3>2. f.key = e.key
      BY <1>5, <2>2, <3>1
    <3>3. e = f
      BY <1>5, <2>2, <3>2 DEF Offers
    <3> QED  BY <2>1, <3>1, <3>3
  <2> QED  BY <2>3, <2>4
<1>6. ASSUME NEW r \in DOMAIN rows', NEW s \in DOMAIN rows', Kind(r[2]) \in OnceKinds, r[2] = s[2]
      PROVE  r = s
  <2>1. CASE r \in DOMAIN rows /\ s \in DOMAIN rows
    BY <1>6, <2>1 DEF RowsOnce
  <2>2. CASE r \notin DOMAIN rows
    BY <1>5, <1>6, <2>2
  <2>3. CASE s \notin DOMAIN rows
    BY <1>5, <1>6, <2>3
  <2> QED  BY <2>1, <2>2, <2>3
<1>7. \A r \in DOMAIN rows' : Kind(r[2]) \in OnceKinds => r[2] \notin done
  BY <1>3 DEF RowsOnce
<1>8. RowsOnce'
  BY <1>6, <1>7 DEF RowsOnce
<1>9. ToldAre'
  BY <1>2 DEF ToldAre, Answered
<1> QED  BY <1>4, <1>8, <1>9

-----------------------------------------------------------------------------
(* The steps.                                                              *)

LEMMA InitIInv == Init => IInv
<1> SUFFICES ASSUME Init PROVE IInv
  OBVIOUS
<1>1. DOMAIN version = 1..0 /\ DOMAIN version = {} /\ DOMAIN marker = {} /\ DOMAIN ledger = {}
      /\ DOMAIN store = {} /\ DOMAIN rows = {} /\ DOMAIN told = {}
  BY DEF Init, CycleInit
<1>2. done = {} /\ polled = {} /\ pc = "ack" /\ watcher = "off"
  BY DEF Init, CycleInit
<1> QED
  BY <1>1, <1>2 DEF IInv, CommentsNumbered, Binds, Holds, RowsBelong, PollOffers, Offers, RowsOnce,
                    ToldAre, DoneAcked, AckedFirst, WatcherAtTurn

\* Steps that only move the controller or the watcher.
LEMMA MovingKeeps ==
    ASSUME IInv, UNCHANGED <<version, marker, ledger, rows, done, store, told, polled>>,
           pc # "enqueue", pc' # "acked", WatcherAtTurn'
    PROVE  IInv'
<1>1. polled = {}
  BY DEF IInv, PollOffers
<1>2. (CommentsNumbered /\ Binds(ledger) /\ PollOffers /\ DoneAcked(ledger) /\ AckedFirst)'
  BY <1>1 DEF IInv, CommentsNumbered, Binds, PollOffers, Offers, DoneAcked, AckedFirst
<1>3. (Holds(ledger, store) /\ RowsBelong)'
  BY DEF IInv, Holds, RowsBelong, Belongs
<1>4. (RowsOnce /\ ToldAre)'
  BY DEF IInv, RowsOnce, ToldAre, Answered
<1> QED  BY <1>1, <1>2, <1>3, <1>4 DEF IInv

\* Others on GitHub add comments and versions, and leave the markers alone.
LEMMA GitHubKeeps ==
    ASSUME IInv, GitHub
    PROVE  IInv'
<1>1. UNCHANGED <<cycleVars, ledger>>
  BY DEF GitHub, Submit, Revise, Close, PostComment, EditComment, HumanWrites, BaseMoves,
         AcceptBase, StudentWrites, HumanRemarks
<1>2. (Holds(ledger, store) /\ RowsBelong /\ PollOffers /\ RowsOnce /\ ToldAre
       /\ DoneAcked(ledger) /\ AckedFirst /\ WatcherAtTurn)'
  BY <1>1 DEF IInv, cycleVars, Holds, RowsBelong, PollOffers, Offers, RowsOnce, ToldAre, Answered,
              DoneAcked, AckedFirst, Belongs, ProcessedKeys, Processed, RowsIn, WatcherAtTurn
<1>3. (CommentsNumbered /\ Binds(ledger))'
  <2>1. CASE PostComment
    <3>1. PICK n \in Nat : DOMAIN version = 1..n
      BY DEF IInv, CommentsNumbered
    <3>2. Cardinality(DOMAIN version) = n
      BY <3>1, FS_Interval
    <3>3. /\ version' = [d \in 1..(n + 1) |-> IF d = n + 1 THEN 1 ELSE version[d]]
          /\ marker' = [d \in 1..(n + 1) |-> IF d = n + 1 THEN revision ELSE marker[d]]
      BY <2>1, <3>2 DEF PostComment
    <3>4. DOMAIN version' = 1..(n + 1) /\ DOMAIN marker' = 1..(n + 1)
          /\ \A d \in 1..n : d \in 1..(n + 1) /\ marker'[d] = marker[d]
      BY <3>1, <3>3
    <3>5. CommentsNumbered'
      BY <3>1, <3>4 DEF CommentsNumbered
    <3> QED  BY <1>1, <3>1, <3>4, <3>5 DEF IInv, Binds
  <2>2. CASE EditComment
    <3>1. DOMAIN version' = DOMAIN version /\ UNCHANGED marker
      BY <2>2 DEF EditComment
    <3> QED  BY <1>1, <3>1 DEF IInv, Binds, CommentsNumbered
  <2>3. CASE UNCHANGED <<version, marker>>
    BY <1>1, <2>3 DEF IInv, Binds, CommentsNumbered
  <2> QED
    BY <2>1, <2>2, <2>3 DEF GitHub, Submit, Revise, Close, HumanWrites, BaseMoves,
                            AcceptBase, StudentWrites, HumanRemarks
<1> QED  BY <1>2, <1>3 DEF IInv

\* Acknowledging processed turns.
LEMMA AcknowledgeKeeps ==
    ASSUME IInv, Acknowledge
    PROVE  IInv'
<1>1. /\ pc = "ack" /\ pc' = "acked"
      /\ UNCHANGED <<version, marker, rows, done, told, polled, watcher>>
  BY DEF Acknowledge, AcknowledgeMailboxes, gitHubVars
<1>2. /\ DOMAIN ledger' = DOMAIN ledger
      /\ \A k \in DOMAIN ledger :
           ledger'[k] = IF k \in ProcessedKeys THEN [ledger[k] EXCEPT !.acked = TRUE] ELSE ledger[k]
  BY DEF Acknowledge
<1>3. \A k \in DOMAIN ledger :
        ledger'[k] = [revision |-> ledger[k].revision,
                      acked |-> IF k \in ProcessedKeys THEN TRUE ELSE ledger[k].acked]
  BY <1>2 DEF IInv, Binds
<1>4. /\ DOMAIN store' = DOMAIN store
      /\ \A k \in DOMAIN store :
           store'[k] = IF k \in ProcessedKeys THEN [store[k] EXCEPT !.acked = TRUE] ELSE store[k]
  BY DEF Acknowledge, AcknowledgeMailboxes
<1>5. \A k \in DOMAIN store :
        store'[k] = [conv |-> store[k].conv,
                     acked |-> IF k \in ProcessedKeys THEN TRUE ELSE store[k].acked]
  BY <1>4 DEF IInv, Holds
<1>6. \A k, conv : Belongs(ledger, k, conv) => Belongs(ledger', k, conv)
  BY <1>2, <1>3 DEF Belongs
<1>7. Binds(ledger)' /\ CommentsNumbered'
  BY <1>1, <1>2, <1>3 DEF IInv, Binds, CommentsNumbered
<1>8. Holds(ledger, store)'
  BY <1>1, <1>4, <1>5, <1>6 DEF IInv, Holds
<1>9. RowsBelong' /\ RowsOnce' /\ ToldAre' /\ PollOffers' /\ WatcherAtTurn'
  BY <1>1, <1>6 DEF IInv, RowsBelong, RowsOnce, ToldAre, Answered, PollOffers, Offers, WatcherAtTurn
<1>10. DoneAcked(ledger)'
  BY <1>1, <1>2, <1>3 DEF IInv, DoneAcked
<1>11. \A k \in ProcessedKeys : Kind(k) = "feedback" => k \in DOMAIN ledger
  BY DEF IInv, ProcessedKeys, Processed, RowsIn, RowsBelong, Belongs
<1>12. ProcessedKeys' = ProcessedKeys
  BY <1>1 DEF ProcessedKeys, Processed, RowsIn
<1>13. AckedFirst'
  BY <1>2, <1>3, <1>4, <1>5, <1>11, <1>12 DEF AckedFirst
<1> QED  BY <1>7, <1>8, <1>9, <1>10, <1>13 DEF IInv

LEMMA AcknowledgeInboxKeeps ==
    ASSUME IInv, AcknowledgeInbox, UNCHANGED <<version, marker, ledger>>
    PROVE  IInv'
<1>1. /\ pc = "acked" /\ pc' = "poll" /\ done' = done \cup ProcessedKeys
      /\ UNCHANGED <<store, told, polled, watcher>>
  BY DEF AcknowledgeInbox
<1>2. DOMAIN rows' = DOMAIN rows \ Processed /\ \A r \in DOMAIN rows' : rows'[r] = rows[r]
  BY DEF AcknowledgeInbox, Restrict
<1>3. \A k \in ProcessedKeys : /\ Kind(k) = "feedback" => k \in DOMAIN ledger /\ ledger[k].acked
                               /\ k \in DOMAIN store => store[k].acked
  BY <1>1 DEF IInv, AckedFirst
<1>4. polled = {}
  BY <1>1 DEF IInv, PollOffers
<1>5. Binds(ledger)' /\ CommentsNumbered' /\ PollOffers' /\ AckedFirst' /\ WatcherAtTurn'
  BY <1>1, <1>4 DEF IInv, Binds, CommentsNumbered, PollOffers, Offers, AckedFirst, WatcherAtTurn
<1>6. Holds(ledger, store)' /\ DoneAcked(ledger)'
  BY <1>1, <1>3 DEF IInv, Holds, Belongs, DoneAcked
<1>7. RowsBelong'
  BY <1>2 DEF IInv, RowsBelong, Belongs
<1>8. \A r \in DOMAIN rows' : Kind(r[2]) \in OnceKinds => r[2] \notin ProcessedKeys
  BY <1>2 DEF IInv, RowsOnce, ProcessedKeys, Processed, RowsIn
<1>9. RowsOnce'
  BY <1>1, <1>2, <1>8 DEF IInv, RowsOnce
<1>10. ToldAre'
  BY <1>1 DEF IInv, ToldAre, Answered, ProcessedKeys, Processed, RowsIn
<1> QED  BY <1>5, <1>6, <1>7, <1>9, <1>10 DEF IInv

LEMMA EnqueueEventsKeeps ==
    ASSUME IInv, EnqueueEvents, UNCHANGED <<version, marker, ledger>>
    PROVE  IInv'
<1>1. /\ pc = "enqueue" /\ pc' = "serve" /\ polled' = {}
      /\ rows' = Enqueued(polled, STEERING_PRIORITIES)
      /\ UNCHANGED <<store, told, done, watcher>>
  BY DEF EnqueueEvents
<1>2. (RowsBelong /\ RowsOnce /\ ToldAre)'
  BY <1>1, EnqueuingKeeps DEF IInv, PollOffers
<1>3. (CommentsNumbered /\ Binds(ledger) /\ Holds(ledger, store) /\ PollOffers
       /\ DoneAcked(ledger) /\ AckedFirst /\ WatcherAtTurn)'
  BY <1>1 DEF IInv, CommentsNumbered, Binds, Holds, Belongs, PollOffers, Offers, DoneAcked,
              AckedFirst, WatcherAtTurn
<1> QED  BY <1>2, <1>3 DEF IInv

\* A store in which some events became acknowledged.
LEMMA SettledHolds ==
    ASSUME Holds(ledger, store), NEW keys, UNCHANGED <<ledger, done>>, DOMAIN store' = DOMAIN store,
           \A k \in DOMAIN store :
             store'[k] = IF k \in keys THEN [store[k] EXCEPT !.acked = TRUE] ELSE store[k]
    PROVE  Holds(ledger, store)'
<1>1. \A k \in DOMAIN store :
        store'[k] = [conv |-> store[k].conv, acked |-> IF k \in keys THEN TRUE ELSE store[k].acked]
  BY DEF Holds
<1> QED  BY <1>1 DEF Holds, Belongs

LEMMA StartTurnKeeps ==
    ASSUME IInv, StartTurn, UNCHANGED <<version, marker, ledger>>
    PROVE  IInv'
<1>1. /\ pc = "serve" /\ pc' = "turn" /\ UNCHANGED <<polled, done, told>>
  BY DEF StartTurn
<1>2. PICK conv \in Ready :
        LET keys == {r[2] : r \in Batch(conv)} IN
        /\ rows' = [r \in DOMAIN rows |-> IF r \in Batch(conv) THEN "open" ELSE rows[r]]
        /\ store' = [k \in DOMAIN store |->
                       IF k \in keys THEN [store[k] EXCEPT !.acked = TRUE] ELSE store[k]]
  BY DEF StartTurn
<1>3. \A r \in Batch(conv) : rows[r] # "processed"
  BY DEF Batch, OpenIn, RowsIn
<1>4. /\ DOMAIN rows' = DOMAIN rows
      /\ \A r \in DOMAIN rows : rows'[r] = "processed" <=> rows[r] = "processed"
  BY <1>2, <1>3
<1>5. Holds(ledger, store)'
  BY <1>1, <1>2, SettledHolds DEF IInv
<1>6. (CommentsNumbered /\ Binds(ledger) /\ PollOffers /\ DoneAcked(ledger) /\ AckedFirst
       /\ WatcherAtTurn)'
  BY <1>1 DEF IInv, CommentsNumbered, Binds, Belongs, PollOffers, Offers, DoneAcked, AckedFirst,
              WatcherAtTurn
<1>7. (RowsBelong /\ RowsOnce /\ ToldAre)'
  BY <1>1, <1>4 DEF IInv, RowsBelong, Belongs, RowsOnce, ToldAre, Answered
<1> QED  BY <1>5, <1>6, <1>7 DEF IInv

LEMMA PumpKeeps ==
    ASSUME IInv, Pump, UNCHANGED <<version, marker, ledger>>
    PROVE  IInv'
<1>1. pc = "turn" /\ pc' = "turn" /\ UNCHANGED <<polled, done, told, watcher>>
  BY DEF Pump
<1>2. PICK e \in LocalEvents(store) :
        /\ rows' = Enqueued({e}, ADVISOR_ACTIVE_STEERING_PRIORITIES)
        /\ store' = [store EXCEPT ![e.key].acked = TRUE]
  BY DEF Pump
<1>3. /\ e.key \in DOMAIN store /\ e = Event(e.key, e.conv)
      /\ e.conv = store[e.key].conv /\ ~ store[e.key].acked
  BY DEF LocalEvents, Event
<1>4. Offers(ledger, {e})
  BY <1>3 DEF IInv, Holds, Offers
<1>5. (RowsBelong /\ RowsOnce /\ ToldAre)'
  BY <1>1, <1>2, <1>4, EnqueuingKeeps DEF IInv
<1>6. /\ DOMAIN store' = DOMAIN store
      /\ \A k \in DOMAIN store :
           store'[k] = IF k \in {e.key} THEN [store[k] EXCEPT !.acked = TRUE] ELSE store[k]
  BY <1>2, <1>3
<1>7. Holds(ledger, store)'
  BY <1>1, <1>6, SettledHolds DEF IInv
<1>8. (CommentsNumbered /\ Binds(ledger) /\ PollOffers /\ DoneAcked(ledger) /\ AckedFirst
       /\ WatcherAtTurn)'
  BY <1>1 DEF IInv, CommentsNumbered, Binds, Belongs, PollOffers, Offers, DoneAcked, AckedFirst,
              WatcherAtTurn
<1> QED  BY <1>5, <1>7, <1>8 DEF IInv

\* The rows of a turn are processed: their keys had not been told.
LEMMA TurnProcessedKeeps ==
    ASSUME IInv, TurnProcessed, UNCHANGED <<version, marker, ledger>>
    PROVE  IInv'
<1>1. pc = "turn" /\ pc' = "joining" /\ UNCHANGED <<polled, done, store, watcher>>
  BY DEF TurnProcessed
<1>2. /\ DOMAIN rows' = DOMAIN rows
      /\ \A r \in DOMAIN rows : rows'[r] = IF r \in OpenIn(turn) THEN "processed" ELSE rows[r]
  BY DEF TurnProcessed
<1> DEFINE keys == {r[2] : r \in {q \in OpenIn(turn) : Kind(q[2]) \in TOLD_KINDS}}
<1>3. told' = [k \in DOMAIN told \cup keys |->
                 IF k \notin DOMAIN told THEN 1 ELSE IF k \in keys THEN 2 ELSE told[k]]
  BY DEF TurnProcessed
<1>4. \A k \in keys : \E r \in DOMAIN rows : r[2] = k /\ rows[r] = "open" /\ rows'[r] = "processed"
  BY <1>2 DEF OpenIn, RowsIn
<1> HIDE DEF keys
<1>5. \A k \in keys : Kind(k) \in OnceKinds => k \notin DOMAIN told
  <2> SUFFICES ASSUME NEW k \in keys, Kind(k) \in OnceKinds, k \in DOMAIN told PROVE FALSE
    OBVIOUS
  <2>1. PICK r \in DOMAIN rows : r[2] = k /\ rows[r] = "open"
    BY <1>4
  <2>2. Answered(k)
    BY DEF IInv, ToldAre
  <2> QED  BY <2>1, <2>2 DEF IInv, Answered, RowsOnce
<1>6. \A k \in DOMAIN told : Answered(k) => Answered(k)'
  BY <1>1, <1>2 DEF Answered
<1>7. \A k \in keys : Answered(k)'
  BY <1>2, <1>4 DEF Answered
<1>8. ToldAre'
  BY <1>3, <1>5, <1>6, <1>7 DEF IInv, ToldAre
<1>9. (CommentsNumbered /\ Binds(ledger) /\ Holds(ledger, store) /\ PollOffers
       /\ DoneAcked(ledger) /\ AckedFirst /\ WatcherAtTurn)'
  BY <1>1 DEF IInv, CommentsNumbered, Binds, Holds, Belongs, PollOffers, Offers, DoneAcked,
              AckedFirst, WatcherAtTurn
<1>10. (RowsBelong /\ RowsOnce)'
  BY <1>1, <1>2 DEF IInv, RowsBelong, Belongs, RowsOnce
<1> QED  BY <1>8, <1>9, <1>10 DEF IInv

LEMMA CycleKeeps ==
    ASSUME IInv, Cycle
    PROVE  IInv'
<1>1. UNCHANGED <<version, marker, ledger>>
  BY DEF Cycle, gitHubVars
<1>2. CASE NothingProcessed \/ TurnFails \/ JoinWatcher \/ Sleep \/ NextCycle
  <2>1. /\ UNCHANGED <<rows, done, store, told, polled>>
        /\ pc # "enqueue" /\ pc' # "acked"
    BY <1>2 DEF NothingProcessed, TurnFails, JoinWatcher, Sleep, NextCycle
  <2>2. WatcherAtTurn'
    BY <1>2 DEF IInv, WatcherAtTurn, NothingProcessed, TurnFails, JoinWatcher, Sleep, NextCycle
  <2> QED  BY <1>1, <2>1, <2>2, MovingKeeps
<1> QED
  BY <1>1, <1>2, AcknowledgeInboxKeeps, EnqueueEventsKeeps, StartTurnKeeps, PumpKeeps,
     TurnProcessedKeeps DEF Cycle

LEMMA ReadPullsKeeps ==
    ASSUME IInv, ReadPulls
    PROVE  IInv'
<1>1. /\ UNCHANGED <<version, marker, ledger, rows, done, store, told, polled>>
      /\ pc # "enqueue" /\ pc' # "acked"
  BY DEF ReadPulls, gitHubVars, StartPoll, WatcherPolls
<1>2. WatcherAtTurn'
  BY DEF IInv, WatcherAtTurn, ReadPulls, StartPoll, WatcherPolls
<1> QED  BY <1>1, <1>2, MovingKeeps

LEMMA FaultKeeps ==
    ASSUME IInv, Fault
    PROVE  IInv'
<1>1. UNCHANGED <<version, marker, ledger, rows, done, store, told>>
  BY DEF Fault, gitHubVars, WatcherMisses, Restart
<1>2. CASE WatcherMisses
  <2>1. UNCHANGED <<pc, polled>> /\ pc # "enqueue" /\ pc # "acked"
    BY <1>2 DEF IInv, WatcherAtTurn, WatcherMisses
  <2>2. WatcherAtTurn'
    BY <1>2 DEF IInv, WatcherAtTurn, WatcherMisses
  <2> QED  BY <1>1, <2>1, <2>2, MovingKeeps
<1>3. CASE Restart
  <2>1. pc' = "ack" /\ polled' = {} /\ watcher' = "off"
    BY <1>3 DEF Restart
  <2> QED
    BY <1>1, <2>1 DEF IInv, CommentsNumbered, Binds, Holds, RowsBelong, PollOffers, Offers, RowsOnce,
                      ToldAre, Answered, DoneAcked, AckedFirst, Belongs, WatcherAtTurn
<1> QED  BY <1>2, <1>3 DEF Fault

\* A poll leaves the queue's rows, but for queued ones it withdraws, and the
\* history alone.
LEMMA PollKeeps ==
    ASSUME IInv, UNCHANGED <<version, marker, done, told>>,
           Binds(ledger)', Grows(ledger, ledger'), Holds(ledger, store)', Offers(ledger, polled)',
           DOMAIN rows' \subseteq DOMAIN rows, \A r \in DOMAIN rows' : rows'[r] = rows[r],
           \A r \in DOMAIN rows \ DOMAIN rows' : rows[r] = "queued",
           pc' # "acked", pc' # "enqueue" => polled' = {}, WatcherAtTurn'
    PROVE  IInv'
<1>1. (CommentsNumbered /\ PollOffers /\ AckedFirst)'
  BY DEF IInv, CommentsNumbered, PollOffers, AckedFirst
<1>2. RowsBelong' /\ RowsOnce'
  BY DEF IInv, RowsBelong, RowsOnce, Belongs, Grows
<1>3. DoneAcked(ledger)'
  BY DEF IInv, DoneAcked, Grows
<1>4. \A k : Answered(k) => Answered(k)'
  BY DEF Answered
<1>5. ToldAre'
  BY <1>4 DEF IInv, ToldAre
<1> QED  BY <1>1, <1>2, <1>3, <1>5 DEF IInv

\* The end of a poll by the controller, and by a watcher.
LEMMA PollEndsOffers ==
    ASSUME NEW entries, NEW events, Offers(entries, events), PollEnds(events)
    PROVE  /\ Offers(entries, polled') /\ UNCHANGED <<done, told, watcher>>
           /\ pc = "polling" /\ pc' = "enqueue"
<1>1. polled' \subseteq events
  BY DEF PollEnds, NewEvents
<1> QED  BY <1>1 DEF PollEnds, Offers

LEMMA WatcherStagesFrame ==
    ASSUME IInv, NEW events, NEW staged, NEW stored, WatcherStages(events, staged, stored)
    PROVE  /\ UNCHANGED <<done, told, polled, pc>> /\ pc \in {"turn", "joining"} /\ polled = {}
           /\ WatcherAtTurn'
<1>1. watcher = "polls" /\ UNCHANGED <<done, told, polled, pc>>
  BY DEF WatcherStages
<1> QED  BY <1>1 DEF IInv, WatcherAtTurn, PollOffers

LEMMA StudentPollKeeps ==
    ASSUME IInv, StudentPoll
    PROVE  IInv'
<1> DEFINE entries == Written(Bound)
           events == StudentEvents(entries)
<1>1. /\ ledger' = entries
      /\ UNCHANGED <<version, marker, rows>>
      /\ \/ PollEnds(Merged(events, store)) /\ UNCHANGED store
         \/ WatcherStages(events, LiveEvents(events), store)
  BY DEF StudentPoll, gitHubVars
<1>2. /\ Binds(entries) /\ Grows(ledger, entries)
      /\ \A c \in Candidates : FeedbackKey(c) \in DOMAIN entries
  BY WrittenBinds DEF IInv
<1>3. DoneAcked(entries)
  BY <1>2 DEF IInv, DoneAcked, Grows
<1> HIDE DEF entries
<1>4. Offers(entries, events)
  BY <1>2, <1>3, StudentOffers
<1> HIDE DEF events
<1>5. Holds(entries, store)
  BY <1>2, GrownHolds DEF IInv
<1>6. Binds(ledger)'
  BY <1>1, <1>2 DEF Binds
<1>7. CASE PollEnds(Merged(events, store)) /\ UNCHANGED store
  <2>1. Offers(entries, Merged(events, store))
    BY <1>4, <1>5, MergedOffers
  <2>2. /\ Offers(entries, polled') /\ UNCHANGED <<done, told, watcher>>
        /\ pc = "polling" /\ pc' = "enqueue"
    BY <1>7, <2>1, PollEndsOffers
  <2>3. Offers(ledger, polled)' /\ Holds(ledger, store)'
    BY <1>1, <1>5, <1>7, <2>2 DEF Offers, Holds
  <2>4. WatcherAtTurn'
    BY <2>2 DEF IInv, WatcherAtTurn
  <2> QED  BY <1>1, <1>2, <1>6, <2>2, <2>3, <2>4, PollKeeps
<1>8. CASE WatcherStages(events, LiveEvents(events), store)
  <2>1. Holds(entries, store')
    BY <1>4, <1>5, <1>8, LiveOffers, StagesHolds
  <2>2. /\ UNCHANGED <<done, told, polled, pc>> /\ pc \in {"turn", "joining"} /\ polled = {}
        /\ WatcherAtTurn'
    BY <1>8, WatcherStagesFrame
  <2>3. Offers(ledger, polled)' /\ Holds(ledger, store)'
    BY <1>1, <2>1, <2>2 DEF Offers, Holds
  <2> QED  BY <1>1, <1>2, <1>6, <2>2, <2>3, PollKeeps
<1> QED  BY <1>1, <1>7, <1>8

LEMMA AdvisorPollKeeps ==
    ASSUME IInv, AdvisorPoll
    PROVE  IInv'
<1>1. UNCHANGED <<version, marker, ledger>>
  BY DEF AdvisorPoll, gitHubVars
<1>2. PICK broken :
        LET events == AdvisorEvents(broken)
            stored == DiscardPrefix(events)
        IN  /\ rows' = RetractPending(events)
            /\ \/ PollEnds(Merged(events, stored)) /\ store' = stored
               \/ WatcherStages(events, AdvisorLiveEvents(events), stored)
  BY DEF AdvisorPoll
<1> DEFINE events == AdvisorEvents(broken)
           stored == DiscardPrefix(events)
<1>3. Offers(ledger, events)
  BY AdvisorOffers
<1>4. DOMAIN stored \subseteq DOMAIN store /\ \A k \in DOMAIN stored : stored[k] = store[k]
  BY DEF DiscardPrefix, Restrict
<1>5. /\ DOMAIN rows' \subseteq DOMAIN rows /\ \A r \in DOMAIN rows' : rows'[r] = rows[r]
      /\ \A r \in DOMAIN rows \ DOMAIN rows' : rows[r] = "queued"
  BY <1>2 DEF RetractPending, Restrict
<1> HIDE DEF events, stored
<1>6. Holds(ledger, stored)
  BY <1>4 DEF IInv, Holds
<1>7. Binds(ledger)' /\ Grows(ledger, ledger')
  BY <1>1 DEF IInv, Binds, Grows
<1>8. CASE PollEnds(Merged(events, stored)) /\ store' = stored
  <2>1. Offers(ledger, Merged(events, stored))
    BY <1>3, <1>6, MergedOffers
  <2>2. /\ Offers(ledger, polled') /\ UNCHANGED <<done, told, watcher>>
        /\ pc = "polling" /\ pc' = "enqueue"
    BY <1>8, <2>1, PollEndsOffers
  <2>3. Offers(ledger, polled)' /\ Holds(ledger, store)'
    BY <1>1, <1>6, <1>8, <2>2 DEF Offers, Holds
  <2>4. WatcherAtTurn'
    BY <2>2 DEF IInv, WatcherAtTurn
  <2> QED  BY <1>1, <1>5, <1>7, <2>2, <2>3, <2>4, PollKeeps
<1>9. CASE WatcherStages(events, AdvisorLiveEvents(events), stored)
  <2>1. \A e \in AdvisorLiveEvents(events) : Kind(e.key) # "feedback"
    BY DEF AdvisorLiveEvents, events, AdvisorEvents, ReviewReady, Available, ResearchBase,
           StudentComments, HumanComments, HumanIssue, Event, Kind
  <2>2. Holds(ledger, store')
    BY <1>6, <1>9, <2>1, StagesHolds
  <2>3. /\ UNCHANGED <<done, told, polled, pc>> /\ pc \in {"turn", "joining"} /\ polled = {}
        /\ WatcherAtTurn'
    BY <1>9, WatcherStagesFrame
  <2>4. Offers(ledger, polled)' /\ Holds(ledger, store)'
    BY <1>1, <2>2, <2>3 DEF Offers, Holds
  <2> QED  BY <1>1, <1>5, <1>7, <2>3, <2>4, PollKeeps
<1> QED  BY <1>2, <1>8, <1>9 DEF events, stored

\* Without GitHub the local events are polled alone.
LEMMA GitHubFailsKeeps ==
    ASSUME IInv, GitHubFails
    PROVE  IInv'
<1>1. UNCHANGED <<version, marker, ledger, rows, store>> /\ PollEnds(LocalEvents(store))
  BY DEF GitHubFails, gitHubVars
<1>2. Offers(ledger, {})
  BY DEF Offers
<1>3. LocalEvents(store) = Merged({}, store)
  BY DEF Merged, Keys
<1>4. Offers(ledger, LocalEvents(store))
  BY <1>2, <1>3, MergedOffers DEF IInv
<1>5. /\ Offers(ledger, polled') /\ UNCHANGED <<done, told, watcher>>
      /\ pc = "polling" /\ pc' = "enqueue"
  BY <1>1, <1>4, PollEndsOffers
<1>6. Offers(ledger, polled)' /\ Holds(ledger, store)'
  BY <1>1, <1>5 DEF IInv, Offers, Holds, Belongs
<1>7. Binds(ledger)' /\ Grows(ledger, ledger')
  BY <1>1 DEF IInv, Binds, Grows
<1>8. WatcherAtTurn'
  BY <1>5 DEF IInv, WatcherAtTurn
<1> QED  BY <1>1, <1>5, <1>6, <1>7, <1>8, PollKeeps

LEMMA StutterKeeps == IInv /\ UNCHANGED vars => IInv'
BY DEF vars, cycleVars, gitHubVars, IInv, CommentsNumbered, Binds, Holds, RowsBelong, PollOffers,
       Offers, RowsOnce, ToldAre, Answered, DoneAcked, AckedFirst, Belongs, WatcherAtTurn,
       ProcessedKeys, Processed, RowsIn

-----------------------------------------------------------------------------
(* The theorems.                                                           *)

\* The inductive invariant holds of every behaviour: what the ledger, the
\* store, the queue and the controller's memory agree on.
THEOREM MailboxInvariant == Spec => []IInv
<1>1. IInv /\ [Next]_vars => IInv'
  BY GitHubKeeps, AcknowledgeKeeps, CycleKeeps, ReadPullsKeeps, FaultKeeps, StudentPollKeeps,
     AdvisorPollKeeps, GitHubFailsKeeps, StutterKeeps DEF Next
<1> QED  BY InitIInv, <1>1, PTL DEF Spec

\* Feedback stays with the revision it was first bound to and reaches the inbox
\* only in that revision's conversation (github/mailbox/feedback.py).
THEOREM FeedbackStaysBound == Spec => []FeedbackKeepsRevision
<1>1. IInv => FeedbackKeepsRevision
  BY DEF IInv, Binds, RowsBelong, Belongs, FeedbackKeepsRevision
<1> QED  BY MailboxInvariant, <1>1, PTL

\* A version of feedback, a human message and a human comment are processed
\* once, wherever the worker dies and whatever polls fail (controller.py,
\* github/mailbox, inbox.py).
THEOREM InputsToldOnce == Spec => []ToldOnce
<1>1. IInv => ToldOnce
  BY DEF IInv, ToldAre, OnceKinds, ToldOnce
<1> QED  BY MailboxInvariant, <1>1, PTL
=============================================================================
