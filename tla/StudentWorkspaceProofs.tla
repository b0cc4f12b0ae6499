----------------------- MODULE StudentWorkspaceProofs -----------------------
(***************************************************************************)
(* What holds in every behaviour of StudentWorkspace, whatever the numbers *)
(* of assignments, revisions, commits, messages, deaths and states of the  *)
(* worktree are: uncommitted work stays on its branch, and the ledger of   *)
(* divergences keeps an assignment from a conversation exactly when the    *)
(* conversation was told why.                                              *)
(*                                                                         *)
(* The first is not inductive: between the look at the checkout and git    *)
(* checkout itself it has to be known that the branch to come is the one   *)
(* the work is on, or that there is none, unless a helper wrote.  For the  *)
(* second it has to be known what the ledger holds while a processed turn  *)
(* waits to be recorded, and that no batch is reconciled meanwhile.        *)
(***************************************************************************)
EXTENDS StudentWorkspace, FiniteSetTheorems, WellFoundedInduction, TLAPS

\* The controller has decided to change the checkout.
Deciding == ctl.at \in {"create", "checkout"}

\* The control of a reconciliation or a turn has a conversation.
ControlType ==
  /\ "at" \in DOMAIN ctl
  /\ ctl.at # "idle" => "conv" \in DOMAIN ctl

WorkInv ==
  /\ ControlType
  /\ late \in BOOLEAN
  /\ WorkStaysOnItsBranch
  /\ Deciding /\ work # 0 /\ late = FALSE => on = ctl.conv[1]

-----------------------------------------------------------------------------
(* What is done to uncommitted work.                                       *)

\* Editing and committing leave work on the branch that is checked out.
LEMMA WritingStays ==
  ASSUME Edit \/ CommitWork, WorkStaysOnItsBranch, late \in BOOLEAN, late = TRUE => late' = TRUE
  PROVE  on' = on /\ WorkStaysOnItsBranch'
  BY DEF Edit, CommitWork, WorkStaysOnItsBranch

LEMMA StudentStep == WorkInv /\ Student => WorkInv'
<1> SUFFICES ASSUME WorkInv, Student PROVE WorkInv'
  OBVIOUS
<1>1. ctl' = ctl /\ late' = late /\ ~ Deciding
  BY DEF Student, Deciding
<1>2. ControlType' /\ ~ Deciding' /\ late' \in BOOLEAN
  BY <1>1 DEF WorkInv, ControlType, Deciding
<1>3. WorkStaysOnItsBranch'
  <2>1. CASE Edit \/ CommitWork
    BY <1>1, <2>1, WritingStays DEF WorkInv
  <2>2. CASE Rewrite \/ Push
    BY <1>1, <2>2 DEF WorkInv, WorkStaysOnItsBranch, Rewrite, Push, checkout
  <2>3. CASE Switch
    BY <2>3 DEF WorkStaysOnItsBranch, Switch
  <2> QED
    BY <2>1, <2>2, <2>3 DEF Student
<1> QED
  BY <1>2, <1>3 DEF WorkInv

LEMMA HelperStep == WorkInv /\ Helper => WorkInv'
<1> SUFFICES ASSUME WorkInv, Helper PROVE WorkInv'
  OBVIOUS
<1>1. ctl' = ctl /\ late' = (late \/ Deciding)
  BY DEF Helper, Deciding
<1>2. late' \in BOOLEAN /\ (late = TRUE => late' = TRUE) /\ (Deciding => late' = TRUE)
  BY <1>1 DEF WorkInv
<1>3. ControlType' /\ (Deciding' <=> Deciding)
  BY <1>1 DEF WorkInv, ControlType, Deciding
<1>4. WorkStaysOnItsBranch'
  BY <1>2, WritingStays DEF Helper, WorkInv
<1> QED
  BY <1>2, <1>3, <1>4 DEF WorkInv

-----------------------------------------------------------------------------
(* What the controller does.                                               *)

\* The look at the checkout allows another branch only for a clean worktree.
LEMMA InspectStep == WorkInv /\ Inspect => WorkInv'
<1> SUFFICES ASSUME WorkInv, Inspect PROVE WorkInv'
  OBVIOUS
<1>1. /\ ctl.at = "inspect" /\ UNCHANGED <<on, work, workOf, late>>
  BY DEF Inspect, checkout
<1>2. WorkStaysOnItsBranch' /\ late' \in BOOLEAN
  BY <1>1 DEF WorkInv, WorkStaysOnItsBranch
<1>3. CASE \E expected, head : Conflict(expected, head)
  <2>1. ControlType' /\ ctl'.at = "tell"
    BY <1>3 DEF Conflict, ControlType
  <2> QED
    BY <1>2, <2>1 DEF WorkInv, Deciding
<1>4. CASE /\ ~ Stays(ctl.conv[1])
           /\ \E at \in {"create", "checkout"} : ctl' = [ctl EXCEPT !.at = at]
  <2>1. "conv" \in DOMAIN ctl /\ "at" \in DOMAIN ctl
    BY <1>1 DEF WorkInv, ControlType
  <2>2. ctl'.conv = ctl.conv /\ DOMAIN ctl' = DOMAIN ctl
    BY <1>4, <2>1
  <2>3. work # 0 => on = ctl.conv[1]
    BY <1>4 DEF Stays
  <2> QED
    BY <1>1, <1>2, <2>1, <2>2, <2>3 DEF WorkInv, ControlType
<1> QED
  BY <1>3, <1>4 DEF Inspect

LEMMA CheckoutStep == WorkInv /\ Checkout => WorkInv'
<1> SUFFICES ASSUME WorkInv, Checkout PROVE WorkInv'
  OBVIOUS
<1>1. /\ on' = ctl.conv[1] /\ UNCHANGED <<work, workOf, late>>
      /\ ctl' = [ctl EXCEPT !.at = "queue"] /\ Deciding
  BY DEF Checkout, Deciding
<1>2. ControlType' /\ ~ Deciding'
  BY <1>1 DEF WorkInv, ControlType, Deciding
<1>3. WorkStaysOnItsBranch'
  BY <1>1 DEF WorkInv, WorkStaysOnItsBranch
<1> QED
  BY <1>1, <1>2, <1>3 DEF WorkInv

\* The other steps of the controller leave the checkout alone.
LEMMA ControllerStep == WorkInv /\ Controller => WorkInv'
<1> SUFFICES ASSUME WorkInv, Controller PROVE WorkInv'
  OBVIOUS
<1>1. CASE Inspect
  BY <1>1, InspectStep
<1>2. CASE Checkout
  BY <1>2, CheckoutStep
<1>3. ASSUME UNCHANGED <<on, work, workOf, late>>, ControlType', ~ Deciding'
      PROVE  WorkInv'
  BY <1>3 DEF WorkInv, WorkStaysOnItsBranch
<1>4. ASSUME ctl' = Idle PROVE ControlType' /\ ~ Deciding'
  BY <1>4 DEF Idle, ControlType, Deciding
<1>5. CASE Poll
  <2>1. PICK a, rev, events :
          ctl' = [at |-> "hydrate", conv |-> <<a, rev>>, events |-> events,
                  assigned |-> Head(events).head]
    BY <1>5 DEF Poll
  <2>2. ControlType' /\ ~ Deciding'
    BY <2>1 DEF ControlType, Deciding
  <2> QED
    BY <1>3, <1>5, <2>2 DEF Poll, checkout
<1>6. CASE Hydrate
  <2>1. ControlType' /\ ~ Deciding'
    BY <1>6 DEF Hydrate, ControlType, Deciding
  <2> QED
    BY <1>3, <1>6, <2>1 DEF Hydrate, checkout
<1>7. CASE Tell
  <2>1. ctl' = Idle \/ \E events : ctl' = [ctl EXCEPT !.at = "queue", !.events = events]
    BY <1>7 DEF Tell
  <2>2. "conv" \in DOMAIN ctl /\ "at" \in DOMAIN ctl
    BY <1>7 DEF Tell, WorkInv, ControlType
  <2>3. ControlType' /\ ~ Deciding'
    BY <1>4, <2>1, <2>2 DEF ControlType, Deciding
  <2> QED
    BY <1>3, <1>7, <2>3 DEF Tell, checkout
<1>8. CASE Enqueue
  <2>1. ctl' = Idle \/ ctl' = [ctl EXCEPT !.events = Tail(@)]
    BY <1>8 DEF Enqueue
  <2>2. "conv" \in DOMAIN ctl /\ "at" \in DOMAIN ctl /\ ctl.at = "queue"
    BY <1>8 DEF Enqueue, WorkInv, ControlType
  <2>3. ControlType' /\ ~ Deciding'
    BY <1>4, <2>1, <2>2 DEF ControlType, Deciding
  <2> QED
    BY <1>3, <1>8, <2>3 DEF Enqueue, checkout
<1>9. ASSUME NEW c \in Conversations, StartTurn(c) PROVE WorkInv'
  <2>1. ctl' = [at |-> "turn", conv |-> c]
    BY <1>9 DEF StartTurn
  <2>2. ControlType' /\ ~ Deciding'
    BY <2>1 DEF ControlType, Deciding
  <2> QED
    BY <1>3, <1>9, <2>2 DEF StartTurn, checkout
<1>10. ASSUME NEW c \in Conversations, Acknowledge(c) PROVE WorkInv'
  <2>1. ctl' = [at |-> "acknowledge", conv |-> c]
    BY <1>10 DEF Acknowledge
  <2>2. ControlType' /\ ~ Deciding'
    BY <2>1 DEF ControlType, Deciding
  <2> QED
    BY <1>3, <1>10, <2>2 DEF Acknowledge, checkout
<1>11. ASSUME NEW processed \in BOOLEAN, EndTurn(processed) PROVE WorkInv'
  BY <1>3, <1>4, <1>11 DEF EndTurn, checkout
<1>12. CASE AcknowledgeInbox
  BY <1>3, <1>4, <1>12 DEF AcknowledgeInbox, checkout
<1>13. CASE Dies
  BY <1>3, <1>4, <1>13 DEF Dies, checkout
<1> QED
  BY <1>1, <1>2, <1>5, <1>6, <1>7, <1>8, <1>9, <1>10, <1>11, <1>12, <1>13 DEF Controller

-----------------------------------------------------------------------------
(* The theorem.                                                            *)

\* Reconciling a checkout never takes uncommitted work to the branch of another
\* assignment, unless a helper wrote between the look and the checkout
\* (workspace.py:120-260, controller.py:660-705).
THEOREM UncommittedWorkStays == Spec => []WorkStaysOnItsBranch
<1>1. Init => WorkInv
  <2> SUFFICES ASSUME Init PROVE WorkInv
    OBVIOUS
  <2>1. ctl = [at |-> "idle"] /\ work = 0 /\ late = FALSE
    BY DEF Init, Idle
  <2>2. ControlType /\ late \in BOOLEAN
    BY <2>1 DEF ControlType
  <2>3. WorkStaysOnItsBranch
    BY <2>1 DEF WorkStaysOnItsBranch
  <2> QED
    BY <2>1, <2>2, <2>3 DEF WorkInv
<1>2. WorkInv /\ [Next]_vars => WorkInv'
  <2> SUFFICES ASSUME WorkInv, [Next]_vars PROVE WorkInv'
    OBVIOUS
  <2>1. ASSUME UNCHANGED <<checkout, ctl, late>> PROVE WorkInv'
    BY <2>1 DEF checkout, WorkInv, ControlType, Deciding, WorkStaysOnItsBranch
  <2>2. CASE GitHub
    BY <2>1, <2>2 DEF GitHub
  <2>3. CASE Student
    BY <2>3, StudentStep
  <2>4. CASE Helper
    BY <2>4, HelperStep
  <2>5. CASE Controller
    BY <2>5, ControllerStep
  <2>6. CASE UNCHANGED vars
    BY <2>1, <2>6 DEF vars
  <2> QED
    BY <2>2, <2>3, <2>4, <2>5, <2>6 DEF Next
<1>3. WorkInv => WorkStaysOnItsBranch
  BY DEF WorkInv
<1> QED
  BY <1>1, <1>2, <1>3, PTL DEF Spec

-----------------------------------------------------------------------------
(* The divergence ledger.                                                  *)

\* What the inbox and a batch hold are sequences.
IsSeq(s) == s \in Seq(ToSet(s))

InboxType ==
  /\ DOMAIN inbox = Conversations /\ DOMAIN ledger = Conversations /\ DOMAIN last = Conversations
  /\ \A c \in Conversations :
       /\ {"turn", "processed", "queue"} \subseteq DOMAIN inbox[c]
       /\ inbox[c].processed \in BOOLEAN
       /\ IsSeq(inbox[c].turn) /\ IsSeq(inbox[c].queue)

\* No turn waits for its acknowledgement while the controller polls, reconciles or
\* runs a turn.
BatchType ==
  /\ "at" \in DOMAIN ctl
  /\ ctl.at # "idle" => "conv" \in DOMAIN ctl /\ ctl.conv \in Conversations
  /\ ctl.at \notin {"idle", "acknowledge"} => \A c \in Conversations : inbox[c].processed = FALSE
  /\ ctl.at \in {"hydrate", "inspect", "tell"} => "events" \in DOMAIN ctl /\ IsSeq(ctl.events)
  /\ ctl.at = "tell" => "kind" \in DOMAIN ctl.key

\* The ledger has one of the divergences told last, and none when none was.
Recorded(c) == IF last[c] = {} THEN ledger[c] = None ELSE ledger[c] \in last[c]

\* A processed turn that told of some has still to be recorded.
LedgerOf(c) ==
  IF inbox[c].processed /\ Divergences(inbox[c].turn) # {}
    THEN last[c] = Divergences(inbox[c].turn)
    ELSE Recorded(c)

ToldInv ==
  /\ IsFiniteSet(feedback)
  /\ InboxType /\ BatchType
  /\ \A c \in Conversations : LedgerOf(c)
  /\ ctl.at = "acknowledge" => Recorded(ctl.conv)

-----------------------------------------------------------------------------
LEMMA SeqIsSeq == ASSUME NEW S, NEW s \in Seq(S) PROVE IsSeq(s)
<1>1. s \in [1..Len(s) -> ToSet(s)] /\ Len(s) \in Nat
  BY DEF ToSet
<1> QED  BY <1>1 DEF IsSeq

LEMMA EmptyIsSeq == IsSeq(<<>>)
<1>1. <<>> \in Seq({})
  OBVIOUS
<1> QED  BY <1>1, SeqIsSeq

LEMMA AppendIsSeq ==
  ASSUME NEW s, NEW e, IsSeq(s)
  PROVE  IsSeq(Append(s, e)) /\ ToSet(s) \subseteq ToSet(Append(s, e))
<1> DEFINE S == ToSet(s) \cup {e}
<1>1. s \in Seq(S) /\ e \in S
  <2>1. s \in Seq(ToSet(s))
    BY DEF IsSeq
  <2>2. s \in [1..Len(s) -> ToSet(s)] /\ Len(s) \in Nat
    BY <2>1
  <2> QED  BY <2>2
<1> HIDE DEF S
<1>2. /\ Append(s, e) \in Seq(S) /\ Len(Append(s, e)) = Len(s) + 1 /\ Len(s) \in Nat
      /\ \A i \in 1..Len(s) : Append(s, e)[i] = s[i]
      /\ DOMAIN s = 1..Len(s) /\ DOMAIN Append(s, e) = 1..(Len(s) + 1)
  BY <1>1
<1>3. ToSet(s) \subseteq ToSet(Append(s, e))
  BY <1>2 DEF ToSet
<1> QED  BY <1>2, <1>3, SeqIsSeq

LEMMA InOrderIsSeq == ASSUME NEW S, IsFiniteSet(S) PROVE IsSeq(InOrder(S))
<1>1. Cardinality(S) \in Nat
  BY FS_CardinalityType
<1> DEFINE n == Cardinality(S)
           Before(e, f) == ~ IsAssignment(f) /\ (IsAssignment(e) \/ e.n < f.n)
           At(i) == CHOOSE f \in S : Cardinality({e \in S : Before(e, f)}) = i - 1
           T == {At(i) : i \in 1..n}
<1>2. InOrder(S) = [i \in 1..n |-> At(i)]
  BY DEF InOrder
<1> HIDE DEF At, n
<1>3. [i \in 1..n |-> At(i)] \in [1..n -> T] /\ n \in Nat
  BY <1>1 DEF n
<1>4. [i \in 1..n |-> At(i)] \in Seq(T)
  BY <1>3
<1> QED  BY <1>2, <1>4, SeqIsSeq

\* next(...) finds the first divergence of a turn that has one.
LEMMA FirstIsDivergence ==
  ASSUME NEW s, IsSeq(s), Divergences(s) # {}
  PROVE  FirstDivergence(s) \in Divergences(s)
<1>1. s \in [1..Len(s) -> ToSet(s)] /\ Len(s) \in Nat
  BY DEF IsSeq
<1> DEFINE I == {i \in 1..Len(s) : IsDivergence(s[i])}
<1>2. I # {} /\ I \subseteq Nat
  BY <1>1 DEF Divergences, ToSet
<1>3. SelectInSeq(s, IsDivergence) = Min(I)
  BY <1>2 DEF SelectInSeq
<1> HIDE DEF I
<1>4. Min(I) \in I
  <2>1. PICK x \in I : \A y \in I : ~(<<y, x>> \in OpToRel(<, Nat))
    BY <1>2, NatLessThanWellFounded, WFMin
  <2>2. \A y \in I : x =< y
    <3> SUFFICES ASSUME NEW y \in I PROVE x =< y
      OBVIOUS
    <3>1. x \in Nat /\ y \in Nat
      BY <1>2
    <3>2. ~(y < x)
      BY <2>1, <3>1 DEF OpToRel
    <3> QED  BY <3>1, <3>2
  <2> QED  BY <2>2 DEF Min
<1>5. \A i \in I : s[i] \in ToSet(s) /\ IsDivergence(s[i])
  BY <1>1 DEF I
<1> QED  BY <1>3, <1>4, <1>5 DEF FirstDivergence, Divergences

-----------------------------------------------------------------------------
\* A step outside of the inbox, the ledger and the controller.
LEMMA OutsideTold ==
  ASSUME ToldInv, UNCHANGED <<scope, inbox, ledger, last, ctl>>, IsFiniteSet(feedback')
  PROVE  ToldInv'
<1>1. Conversations' = Conversations
  BY DEF Conversations, Assignments
<1>2. InboxType' /\ BatchType'
  BY <1>1 DEF ToldInv, InboxType, BatchType
<1>3. (\A c \in Conversations : LedgerOf(c)) => (\A c \in Conversations : LedgerOf(c))'
  BY <1>1 DEF LedgerOf, Recorded
<1>4. ctl'.at = "acknowledge" => Recorded(ctl.conv)'
  BY DEF ToldInv, Recorded
<1> QED  BY <1>1, <1>2, <1>3, <1>4 DEF ToldInv

\* A step of the controller that leaves the ledger and the inbox alone.
LEMMA BatchTold ==
  ASSUME ToldInv, UNCHANGED <<scope, inbox, ledger, last, feedback>>, BatchType',
         ctl'.at # "acknowledge"
  PROVE  ToldInv'
<1>1. Conversations' = Conversations
  BY DEF Conversations, Assignments
<1>2. InboxType'
  BY <1>1 DEF ToldInv, InboxType
<1>3. (\A c \in Conversations : LedgerOf(c)) => (\A c \in Conversations : LedgerOf(c))'
  BY <1>1 DEF LedgerOf, Recorded
<1> QED  BY <1>2, <1>3 DEF ToldInv

LEMMA IdleBatch == ASSUME ctl' = Idle PROVE BatchType' /\ ctl'.at # "acknowledge"
BY DEF Idle, BatchType

LEMMA OutsideStep == ToldInv /\ (GitHub \/ Student \/ Helper) => ToldInv'
<1> SUFFICES ASSUME ToldInv, GitHub \/ Student \/ Helper PROVE ToldInv'
  OBVIOUS
<1>1. UNCHANGED <<scope, inbox, ledger, last, ctl>>
  BY DEF GitHub, Student, Helper, store
<1>2. feedback' = feedback \/ \E e : feedback' = feedback \cup {e}
  BY DEF GitHub, Student, Helper, gitHub, Assign, CloseOrRevise, SendFeedback, RemoteMoves,
     PullFollows, Push
<1>3. IsFiniteSet(feedback')
  BY <1>2, FS_AddElement DEF ToldInv
<1> QED  BY <1>1, <1>3, OutsideTold

LEMMA PollTold == ToldInv /\ Poll => ToldInv'
<1> SUFFICES ASSUME ToldInv, Poll PROVE ToldInv'
  OBVIOUS
<1>1. PICK a \in Open, remind \in BOOLEAN, rev \in 1..scope.revs :
        LET events == InOrder({e \in PolledOf(a) : e.rev = rev /\ (remind \/ e \notin visible)})
        IN  ctl' = [at |-> "hydrate", conv |-> <<a, rev>>, events |-> events,
                    assigned |-> Head(events).head]
  BY DEF Poll
<1> DEFINE new == {e \in PolledOf(a) : e.rev = rev /\ (remind \/ e \notin visible)}
<1>2. /\ UNCHANGED <<scope, inbox, ledger, last, feedback>>
      /\ \A c \in Conversations : ~ inbox[c].processed
  BY DEF Poll, store, gitHub
<1>3. IsFiniteSet(new)
  <2>1. new \subseteq feedback \cup {Assignment(a)}
    BY DEF PolledOf
  <2>2. IsFiniteSet(feedback \cup {Assignment(a)})
    BY FS_AddElement DEF ToldInv
  <2> HIDE DEF new
  <2> QED  BY <2>1, <2>2, FS_Subset
<1> HIDE DEF new
<1>4. IsSeq(InOrder(new))
  BY <1>3, InOrderIsSeq
<1>5. /\ ctl'.at = "hydrate" /\ ctl'.conv = <<a, rev>> /\ ctl'.events = InOrder(new)
      /\ {"at", "conv", "events"} \subseteq DOMAIN ctl'
  BY <1>1 DEF new
<1>6. IsSeq(ctl.events)'
  BY <1>4, <1>5 DEF IsSeq, ToSet
<1>7. ctl'.conv \in Conversations'
  BY <1>2, <1>5 DEF Conversations, Assignments, Open
<1>8. \A c \in Conversations' : inbox'[c].processed = FALSE
  BY <1>2 DEF Conversations, Assignments, ToldInv, InboxType
<1>9. BatchType'
  BY <1>5, <1>6, <1>7, <1>8 DEF BatchType
<1> QED  BY <1>2, <1>5, <1>9, BatchTold

\* The batch goes on to the next step of its reconciliation.
LEMMA GoesOnTold ==
  ASSUME ToldInv, UNCHANGED <<scope, inbox, ledger, last, feedback>>,
         ctl.at \notin {"idle", "acknowledge"}, ctl'.at # "acknowledge",
         {"at", "conv"} \subseteq DOMAIN ctl', ctl'.conv = ctl.conv,
         ctl'.at \in {"hydrate", "inspect", "tell"} =>
           /\ ctl.at \in {"hydrate", "inspect", "tell"}
           /\ "events" \in DOMAIN ctl' /\ ctl'.events = ctl.events,
         ctl'.at = "tell" => "kind" \in DOMAIN ctl'.key
  PROVE  ToldInv'
<1>1. Conversations' = Conversations
  BY DEF Conversations, Assignments
<1>2. ctl'.at \in {"hydrate", "inspect", "tell"} => IsSeq(ctl.events)'
  BY DEF ToldInv, BatchType, IsSeq, ToSet
<1>3. BatchType'
  BY <1>1, <1>2 DEF ToldInv, BatchType
<1> QED  BY <1>3, BatchTold

LEMMA HydrateTold == ToldInv /\ Hydrate => ToldInv'
<1> SUFFICES ASSUME ToldInv, Hydrate PROVE ToldInv'
  OBVIOUS
<1>1. ctl'.at = "inspect" /\ ctl'.conv = ctl.conv /\ ctl'.events = ctl.events
      /\ {"at", "conv", "events"} \subseteq DOMAIN ctl' /\ ctl.at = "hydrate"
  BY DEF Hydrate
<1> QED  BY <1>1, GoesOnTold DEF Hydrate, store, gitHub

LEMMA InspectTold == ToldInv /\ Inspect => ToldInv'
<1> SUFFICES ASSUME ToldInv, Inspect PROVE ToldInv'
  OBVIOUS
<1>1. /\ ctl.at = "inspect" /\ UNCHANGED <<scope, inbox, ledger, last, feedback>>
      /\ {"at", "conv", "events"} \subseteq DOMAIN ctl
  BY DEF Inspect, store, gitHub, ToldInv, BatchType
<1>2. CASE \E expected, head : Conflict(expected, head)
  <2>1. /\ ctl'.at = "tell" /\ ctl'.conv = ctl.conv /\ ctl'.events = ctl.events
        /\ {"at", "conv", "events"} \subseteq DOMAIN ctl'
        /\ "kind" \in DOMAIN ctl'.key
    BY <1>2 DEF Conflict, Divergence
  <2> QED  BY <1>1, <2>1, GoesOnTold
<1>3. CASE \E at \in {"create", "checkout"} : ctl' = [ctl EXCEPT !.at = at]
  <2>1. /\ ctl'.at \in {"create", "checkout"} /\ ctl'.conv = ctl.conv
        /\ {"at", "conv"} \subseteq DOMAIN ctl'
    BY <1>1, <1>3
  <2> QED  BY <1>1, <2>1, GoesOnTold
<1> QED  BY <1>2, <1>3 DEF Inspect

LEMMA TellTold == ToldInv /\ Tell => ToldInv'
<1> SUFFICES ASSUME ToldInv, Tell PROVE ToldInv'
  OBVIOUS
<1>1. /\ ctl.at = "tell" /\ UNCHANGED <<scope, inbox, ledger, last, feedback>>
      /\ {"at", "conv", "events"} \subseteq DOMAIN ctl
  BY DEF Tell, store, gitHub, ToldInv, BatchType
<1>2. CASE ctl' = Idle
  BY <1>1, <1>2, IdleBatch, BatchTold
<1>3. CASE \E events : ctl' = [ctl EXCEPT !.at = "queue", !.events = events]
  <2>1. /\ ctl'.at = "queue" /\ ctl'.conv = ctl.conv /\ {"at", "conv"} \subseteq DOMAIN ctl'
    BY <1>1, <1>3
  <2> QED  BY <1>1, <2>1, GoesOnTold
<1> QED  BY <1>2, <1>3 DEF Tell

LEMMA CheckoutTold == ToldInv /\ Checkout => ToldInv'
<1> SUFFICES ASSUME ToldInv, Checkout PROVE ToldInv'
  OBVIOUS
<1>1. /\ ctl.at \in {"create", "checkout"} /\ UNCHANGED <<scope, inbox, feedback>>
      /\ {"at", "conv"} \subseteq DOMAIN ctl /\ ctl.conv \in Conversations
      /\ \A c \in Conversations : inbox[c].processed = FALSE
  BY DEF Checkout, gitHub, ToldInv, BatchType
<1>2. ctl'.at = "queue" /\ ctl'.conv = ctl.conv /\ {"at", "conv"} \subseteq DOMAIN ctl'
  BY <1>1 DEF Checkout
<1>3. Conversations' = Conversations
  BY <1>1 DEF Conversations, Assignments
<1>4. /\ DOMAIN ledger' = Conversations /\ DOMAIN last' = Conversations
      /\ \A c \in Conversations : Recorded(c)'
  <2>1. \A c \in Conversations : Recorded(c)
    BY <1>1 DEF ToldInv, LedgerOf
  <2>2. CASE UNCHANGED <<ledger, last>>
    BY <2>1, <2>2 DEF ToldInv, InboxType, Recorded
  <2>3. CASE /\ ledger' = [ledger EXCEPT ![ctl.conv] = None]
             /\ last' = [last EXCEPT ![ctl.conv] = {}]
    BY <1>1, <2>1, <2>3 DEF ToldInv, InboxType, Recorded
  <2> QED  BY <2>2, <2>3 DEF Checkout
<1>5. InboxType'
  BY <1>1, <1>3, <1>4 DEF ToldInv, InboxType
<1>6. BatchType'
  BY <1>1, <1>2, <1>3 DEF BatchType
<1>7. (\A c \in Conversations : LedgerOf(c))'
  BY <1>1, <1>3, <1>4 DEF LedgerOf
<1> QED  BY <1>1, <1>2, <1>5, <1>6, <1>7 DEF ToldInv

-----------------------------------------------------------------------------
(* The batch is queued, and its turn runs.                                 *)

\* What a step has to keep of the inbox.
LEMMA InboxStays ==
  ASSUME ToldInv, scope' = scope, DOMAIN inbox' = Conversations,
         DOMAIN ledger' = Conversations, DOMAIN last' = Conversations,
         \A c \in Conversations :
           /\ DOMAIN inbox'[c] = DOMAIN inbox[c] /\ inbox'[c].processed \in BOOLEAN
           /\ IsSeq(inbox'[c].turn) /\ IsSeq(inbox'[c].queue)
  PROVE  Conversations' = Conversations /\ InboxType'
<1>1. Conversations' = Conversations
  BY DEF Conversations, Assignments
<1>2. ASSUME NEW c \in Conversations
      PROVE  (/\ {"turn", "processed", "queue"} \subseteq DOMAIN inbox[c]
              /\ inbox[c].processed \in BOOLEAN
              /\ IsSeq(inbox[c].turn) /\ IsSeq(inbox[c].queue))'
  <2>1. IsSeq(inbox[c].turn)' = IsSeq(inbox'[c].turn)
    BY DEF IsSeq, ToSet
  <2>2. IsSeq(inbox[c].queue)' = IsSeq(inbox'[c].queue)
    BY DEF IsSeq, ToSet
  <2> QED  BY <2>1, <2>2 DEF ToldInv, InboxType
<1> QED  BY <1>1, <1>2 DEF InboxType

LEMMA EnqueueTold == ToldInv /\ Enqueue => ToldInv'
<1> SUFFICES ASSUME ToldInv, Enqueue PROVE ToldInv'
  OBVIOUS
<1>1. /\ ctl.at = "queue" /\ UNCHANGED <<scope, ledger, last, feedback>>
      /\ {"at", "conv"} \subseteq DOMAIN ctl /\ ctl.conv \in Conversations
  BY DEF Enqueue, gitHub, ToldInv, BatchType
<1>2. Conversations' = Conversations
  BY <1>1 DEF Conversations, Assignments
<1>3. PICK e : inbox' = inbox \/ inbox' = [inbox EXCEPT ![ctl.conv].queue = Append(@, e)]
  BY DEF Enqueue, Queued
<1>4. /\ DOMAIN inbox' = Conversations
      /\ \A c \in Conversations :
           /\ DOMAIN inbox'[c] = DOMAIN inbox[c]
           /\ inbox'[c].turn = inbox[c].turn /\ inbox'[c].processed = inbox[c].processed
           /\ \/ inbox'[c].queue = inbox[c].queue
              \/ inbox'[c].queue = Append(inbox[c].queue, e)
  BY <1>1, <1>3 DEF ToldInv, InboxType
<1>5. \A c \in Conversations : IsSeq(inbox'[c].queue)
  BY <1>4, AppendIsSeq DEF ToldInv, InboxType
<1>6. InboxType'
  <2>1. \A c \in Conversations : inbox'[c].processed \in BOOLEAN /\ IsSeq(inbox'[c].turn)
    BY <1>4 DEF ToldInv, InboxType
  <2> QED  BY <1>1, <1>4, <1>5, <2>1, InboxStays DEF ToldInv, InboxType
<1>7. (\A c \in Conversations : LedgerOf(c))'
  <2>1. \A c \in Conversations : Recorded(c) /\ inbox'[c].processed = FALSE
    BY <1>1, <1>4 DEF ToldInv, BatchType, LedgerOf
  <2> QED  BY <1>1, <1>2, <2>1 DEF LedgerOf, Recorded
<1>8. BatchType' /\ ctl'.at # "acknowledge"
  <2>1. CASE ctl' = Idle
    BY <2>1, IdleBatch
  <2>2. CASE ctl' = [ctl EXCEPT !.events = Tail(@)]
    <3>1. ctl'.at = "queue" /\ ctl'.conv = ctl.conv /\ {"at", "conv"} \subseteq DOMAIN ctl'
      BY <1>1, <2>2
    <3>2. \A c \in Conversations : inbox'[c].processed = FALSE
      BY <1>1, <1>4 DEF ToldInv, BatchType
    <3> QED  BY <1>1, <1>2, <3>1, <3>2 DEF BatchType
  <2> QED  BY <2>1, <2>2 DEF Enqueue
<1> QED  BY <1>1, <1>6, <1>7, <1>8 DEF ToldInv

LEMMA StartTurnTold == ToldInv /\ (\E c \in Conversations : StartTurn(c)) => ToldInv'
<1> SUFFICES ASSUME ToldInv, NEW c \in Conversations, StartTurn(c) PROVE ToldInv'
  OBVIOUS
<1>1. /\ UNCHANGED <<scope, ledger, last, feedback>>
      /\ \A d \in Conversations : inbox[d].processed = FALSE
      /\ ctl' = [at |-> "turn", conv |-> c]
  BY DEF StartTurn, gitHub, ToldInv, InboxType
<1>2. Conversations' = Conversations
  BY <1>1 DEF Conversations, Assignments
<1>3. inbox' = inbox \/ inbox' = [inbox EXCEPT ![c].turn = inbox[c].queue, ![c].queue = <<>>]
  BY DEF StartTurn
<1>4. /\ DOMAIN inbox' = Conversations
      /\ \A d \in Conversations :
           /\ DOMAIN inbox'[d] = DOMAIN inbox[d] /\ inbox'[d].processed = FALSE
           /\ inbox'[d].turn \in {inbox[d].turn, inbox[d].queue}
           /\ inbox'[d].queue \in {inbox[d].queue, <<>>}
  BY <1>1, <1>3 DEF ToldInv, InboxType
<1>5. \A d \in Conversations : IsSeq(inbox'[d].turn) /\ IsSeq(inbox'[d].queue)
  BY <1>4, EmptyIsSeq DEF ToldInv, InboxType
<1>6. InboxType'
  BY <1>1, <1>2, <1>4, <1>5 DEF ToldInv, InboxType, IsSeq, ToSet
<1>7. (\A d \in Conversations : LedgerOf(d))'
  <2>1. \A d \in Conversations : Recorded(d)
    BY <1>1 DEF ToldInv, LedgerOf
  <2> QED  BY <1>1, <1>2, <1>4, <2>1 DEF LedgerOf, Recorded
<1>8. BatchType' /\ ctl'.at # "acknowledge"
  BY <1>1, <1>2, <1>4 DEF BatchType
<1> QED  BY <1>1, <1>6, <1>7, <1>8 DEF ToldInv

LEMMA EndTurnTold == ToldInv /\ (\E processed \in BOOLEAN : EndTurn(processed)) => ToldInv'
<1> SUFFICES ASSUME ToldInv, NEW processed \in BOOLEAN, EndTurn(processed) PROVE ToldInv'
  OBVIOUS
<1> DEFINE c == ctl.conv  keys == Divergences(inbox[c].turn)
<1>1. /\ ctl.at = "turn" /\ c \in Conversations /\ UNCHANGED <<scope, ledger, feedback>>
      /\ ctl' = Idle /\ \A d \in Conversations : inbox[d].processed = FALSE
  BY DEF EndTurn, gitHub, ToldInv, BatchType
<1>2. Conversations' = Conversations
  BY <1>1 DEF Conversations, Assignments
<1>3. BatchType' /\ ctl'.at # "acknowledge"
  BY <1>1, IdleBatch
<1>4. \A d \in Conversations : Recorded(d)
  BY <1>1 DEF ToldInv, LedgerOf
<1>5. CASE UNCHANGED <<inbox, last>>
  BY <1>1, <1>3, <1>5, OutsideTold, BatchTold
<1>6. CASE /\ inbox' = [inbox EXCEPT ![c].processed = TRUE]
           /\ last' = IF keys = {} THEN last ELSE [last EXCEPT ![c] = keys]
  <2>1. /\ DOMAIN inbox' = Conversations /\ DOMAIN last' = Conversations
        /\ \A d \in Conversations :
             /\ DOMAIN inbox'[d] = DOMAIN inbox[d] /\ inbox'[d].processed = (d = c)
             /\ inbox'[d].turn = inbox[d].turn /\ inbox'[d].queue = inbox[d].queue
             /\ last'[d] = IF d = c /\ keys # {} THEN keys ELSE last[d]
    BY <1>1, <1>6 DEF ToldInv, InboxType
  <2>2. InboxType'
    <3>1. \A d \in Conversations :
            inbox'[d].processed \in BOOLEAN /\ IsSeq(inbox'[d].turn) /\ IsSeq(inbox'[d].queue)
      BY <2>1 DEF ToldInv, InboxType
    <3> QED  BY <1>1, <2>1, <3>1, InboxStays DEF ToldInv, InboxType
  <2>3. ASSUME NEW d \in Conversations PROVE LedgerOf(d)'
    <3>1. Divergences(inbox[d].turn)' = Divergences(inbox[d].turn)
      BY <2>1 DEF Divergences, IsDivergence, ToSet
    <3>2. CASE d = c /\ keys # {}
      BY <2>1, <3>1, <3>2 DEF LedgerOf
    <3>3. CASE ~ (d = c /\ keys # {})
      <4>1. Recorded(d)'
        BY <1>1, <1>4, <2>1, <3>3 DEF Recorded
      <4> QED  BY <2>1, <3>1, <3>3, <4>1 DEF LedgerOf
    <3> QED  BY <3>2, <3>3
  <2> QED  BY <1>1, <1>2, <1>3, <2>2, <2>3 DEF ToldInv
<1> QED  BY <1>5, <1>6 DEF EndTurn

-----------------------------------------------------------------------------
(* The acknowledgement: the ledger, and then the inbox.                    *)

LEMMA AcknowledgeTold == ToldInv /\ (\E c \in Conversations : Acknowledge(c)) => ToldInv'
<1> SUFFICES ASSUME ToldInv, NEW c \in Conversations, Acknowledge(c) PROVE ToldInv'
  OBVIOUS
<1> DEFINE keys == Divergences(inbox[c].turn)
<1>1. /\ UNCHANGED <<scope, inbox, last>> /\ ctl' = [at |-> "acknowledge", conv |-> c]
      /\ inbox[c].processed = TRUE /\ feedback' = feedback \ ToSet(inbox[c].turn)
      /\ ledger' = Record(c)
  BY DEF Acknowledge, ToldInv, InboxType
<1>2. Conversations' = Conversations
  BY <1>1 DEF Conversations, Assignments
<1>3. IsFiniteSet(feedback')
  BY <1>1, FS_Difference DEF ToldInv
<1>4. /\ DOMAIN ledger' = Conversations
      /\ \A d \in Conversations :
           ledger'[d] = IF d = c /\ keys # {} THEN FirstDivergence(inbox[c].turn) ELSE ledger[d]
  BY <1>1 DEF Record, ToldInv, InboxType
<1>5. InboxType'
  BY <1>1, <1>2, <1>4 DEF ToldInv, InboxType
<1>6. BatchType'
  BY <1>1, <1>2 DEF BatchType
<1>7. Recorded(c)'
  <2>1. CASE keys = {}
    <3>1. Recorded(c)
      BY <2>1 DEF ToldInv, LedgerOf
    <3> QED  BY <1>1, <1>4, <2>1, <3>1 DEF Recorded
  <2>2. CASE keys # {}
    <3>1. last[c] = keys
      BY <1>1, <2>2 DEF ToldInv, LedgerOf
    <3>2. FirstDivergence(inbox[c].turn) \in keys
      BY <2>2, FirstIsDivergence DEF ToldInv, InboxType
    <3> QED  BY <1>1, <1>4, <2>2, <3>1, <3>2 DEF Recorded
  <2> QED  BY <2>1, <2>2
<1>8. ASSUME NEW d \in Conversations PROVE LedgerOf(d)'
  <2>1. CASE d = c
    <3>1. keys # {} => last[c] = keys
      BY <1>1 DEF ToldInv, LedgerOf
    <3> QED  BY <1>1, <1>7, <2>1, <3>1 DEF LedgerOf, Divergences, IsDivergence, ToSet
  <2>2. CASE d # c
    <3>1. LedgerOf(d) /\ ledger'[d] = ledger[d]
      BY <1>4, <2>2 DEF ToldInv
    <3> QED  BY <1>1, <3>1 DEF LedgerOf, Recorded, Divergences, IsDivergence, ToSet
  <2> QED  BY <2>1, <2>2
<1>9. Recorded(ctl.conv)'
  BY <1>1, <1>7 DEF Recorded
<1> QED  BY <1>2, <1>3, <1>5, <1>6, <1>8, <1>9 DEF ToldInv

LEMMA AcknowledgeInboxTold == ToldInv /\ AcknowledgeInbox => ToldInv'
<1> SUFFICES ASSUME ToldInv, AcknowledgeInbox PROVE ToldInv'
  OBVIOUS
<1> DEFINE c == ctl.conv
<1>1. /\ UNCHANGED <<scope, feedback, ledger, last>> /\ ctl' = Idle
      /\ c \in Conversations /\ Recorded(c)
      /\ inbox' = [inbox EXCEPT ![c].turn = <<>>, ![c].processed = FALSE]
  BY DEF AcknowledgeInbox, gitHub, ToldInv, BatchType
<1>2. Conversations' = Conversations
  BY <1>1 DEF Conversations, Assignments
<1>3. BatchType' /\ ctl'.at # "acknowledge"
  BY <1>1, IdleBatch
<1>4. /\ DOMAIN inbox' = Conversations
      /\ \A d \in Conversations :
           /\ DOMAIN inbox'[d] = DOMAIN inbox[d]
           /\ inbox'[d].queue = inbox[d].queue
           /\ inbox'[d].turn = IF d = c THEN <<>> ELSE inbox[d].turn
           /\ inbox'[d].processed = IF d = c THEN FALSE ELSE inbox[d].processed
  BY <1>1 DEF ToldInv, InboxType
<1>5. \A d \in Conversations : IsSeq(inbox'[d].turn) /\ IsSeq(inbox'[d].queue)
  BY <1>4, EmptyIsSeq DEF ToldInv, InboxType
<1>6. InboxType'
  BY <1>1, <1>2, <1>4, <1>5 DEF ToldInv, InboxType, IsSeq, ToSet
<1>7. ASSUME NEW d \in Conversations PROVE LedgerOf(d)'
  <2>1. Recorded(d)' <=> Recorded(d)
    BY <1>1 DEF Recorded
  <2>2. CASE d = c
    BY <1>1, <1>4, <2>1, <2>2 DEF LedgerOf
  <2>3. CASE d # c
    <3>1. LedgerOf(d) /\ inbox'[d].turn = inbox[d].turn
          /\ inbox'[d].processed = inbox[d].processed
      BY <1>4, <2>3 DEF ToldInv
    <3>2. Divergences(inbox[d].turn)' = Divergences(inbox[d].turn)
      BY <3>1 DEF Divergences, IsDivergence, ToSet
    <3> QED  BY <1>1, <2>1, <3>1, <3>2 DEF LedgerOf
  <2> QED  BY <2>2, <2>3
<1> QED  BY <1>1, <1>2, <1>3, <1>6, <1>7 DEF ToldInv

\* Whatever the controller was doing, the ledger and the inbox stay.
LEMMA DiesTold == ToldInv /\ Dies => ToldInv'
BY IdleBatch, BatchTold DEF Dies, gitHub, store

-----------------------------------------------------------------------------
(* The theorems.                                                           *)

LEMMA ToldInit == Init => ToldInv
<1> SUFFICES ASSUME Init PROVE ToldInv
  OBVIOUS
<1>1. /\ feedback = {} /\ ctl = [at |-> "idle"]
      /\ inbox = [c \in Conversations |-> EmptyInbox]
      /\ ledger = [c \in Conversations |-> None] /\ last = [c \in Conversations |-> {}]
  BY DEF Init, Idle
<1>2. IsFiniteSet(feedback)
  BY <1>1, FS_EmptySet
<1>3. InboxType /\ BatchType
  BY <1>1, EmptyIsSeq DEF InboxType, BatchType, EmptyInbox
<1>4. \A c \in Conversations : LedgerOf(c)
  BY <1>1 DEF LedgerOf, Recorded, EmptyInbox
<1> QED  BY <1>1, <1>2, <1>3, <1>4 DEF ToldInv

LEMMA ToldStep == ToldInv /\ [Next]_vars => ToldInv'
<1> SUFFICES ASSUME ToldInv, [Next]_vars PROVE ToldInv'
  OBVIOUS
<1>1. CASE UNCHANGED vars
  BY <1>1, OutsideTold DEF vars, gitHub, store, ToldInv
<1>2. CASE GitHub \/ Student \/ Helper
  BY <1>2, OutsideStep
<1>3. CASE Controller
  BY <1>3, PollTold, HydrateTold, InspectTold, CheckoutTold, TellTold, EnqueueTold,
     StartTurnTold, EndTurnTold, AcknowledgeTold, AcknowledgeInboxTold, DiesTold
     DEF Controller
<1> QED  BY <1>1, <1>2, <1>3 DEF Next

\* Except while a processed turn is acknowledged, a conversation's ledger holds a
\* divergence of the turn that told it some last, and nothing when there is none
\* or its assignment was checked out since (controller.py:676-705, 764-779).
THEOREM LedgerHoldsWhatWasTold == Spec => []ToldInv
BY ToldInit, ToldStep, PTL DEF Spec

\* A known divergence is one of those told last.
LEMMA KnownWasTold ==
  ASSUME ToldInv, ctl.at = "tell", Known(ctl.conv, ctl.key)
  PROVE  ctl.key \in last[ctl.conv]
<1>1. ctl.conv \in Conversations /\ inbox[ctl.conv].processed = FALSE
  BY DEF ToldInv, BatchType
<1>2. Recorded(ctl.conv)
  BY <1>1 DEF ToldInv, LedgerOf
<1>3. ctl.key # None
  BY DEF ToldInv, BatchType, None
<1> QED  BY <1>2, <1>3 DEF Known, Recorded

\* What was told last and alone is known.
LEMMA ToldIsKnown ==
  ASSUME ToldInv, ctl.at = "tell", last[ctl.conv] = {ctl.key}
  PROVE  Known(ctl.conv, ctl.key)
<1>1. ctl.conv \in Conversations /\ inbox[ctl.conv].processed = FALSE
  BY DEF ToldInv, BatchType
<1>2. Recorded(ctl.conv)
  BY <1>1 DEF ToldInv, LedgerOf
<1> QED  BY <1>2 DEF Known, Recorded

\* Of the steps a batch with a divergence can meet, only its own changes it.
LEMMA TellOrNothing ==
  ASSUME [Next]_vars, ctl.at = "tell", deaths' = deaths, deaths \in Nat
  PROVE  Tell \/ ctl' = ctl
<1>1. ctl # Idle
  BY DEF Idle
<1>2. ~ Dies
  BY DEF Dies
<1> QED  BY <1>1, <1>2 DEF Next, vars, GitHub, Student, Helper, Controller, Poll, Hydrate,
            Inspect, Checkout, Enqueue, StartTurn, Acknowledge, EndTurn, AcknowledgeInbox

DeathsInv == deaths \in Nat

LEMMA DeathsType == Spec => []DeathsInv
<1>1. Init => DeathsInv
  BY DEF Init, DeathsInv
<1>2. DeathsInv /\ [Next]_vars => DeathsInv'
  <2> SUFFICES ASSUME DeathsInv, [Next]_vars PROVE DeathsInv'
    OBVIOUS
  <2>1. CASE deaths' = deaths
    BY <2>1 DEF DeathsInv
  <2>2. CASE Dies
    BY <2>2 DEF DeathsInv, Dies
  <2>3. deaths' = deaths \/ Dies
    <3>1. GitHub \/ Student \/ Helper => deaths' = deaths
      BY DEF GitHub, Student, Helper
    <3>2. (\E processed \in BOOLEAN : EndTurn(processed)) => deaths' = deaths
      BY DEF EndTurn
    <3>3. Poll \/ Hydrate \/ Inspect \/ Checkout \/ Tell \/ Enqueue \/ AcknowledgeInbox
            => deaths' = deaths
      BY DEF Poll, Hydrate, Inspect, Checkout, Tell, Enqueue, AcknowledgeInbox
    <3>4. (\E c \in Conversations : StartTurn(c) \/ Acknowledge(c)) => deaths' = deaths
      BY DEF StartTurn, Acknowledge
    <3>5. UNCHANGED vars => deaths' = deaths
      BY DEF vars
    <3> QED  BY <3>1, <3>2, <3>3, <3>4, <3>5 DEF Next, Controller
  <2> QED  BY <2>1, <2>2, <2>3
<1> QED  BY <1>1, <1>2, PTL DEF Spec

\* What SuppressedWasTold and ReminderIsQuiet say of a step.
Suppresses ==
  /\ ctl.at = "tell" /\ HasAssignment(ctl.events) /\ deaths' = deaths
  /\ (ctl' = Idle \/ ~ HasAssignment(ctl'.events))
Reminds ==
  /\ ctl.at = "tell" /\ ctl' # ctl /\ deaths' = deaths
  /\ \A e \in ToSet(ctl.events) : IsAssignment(e)
  /\ last[ctl.conv] = {ctl.key}

LEMMA SuppressedIsKnown ==
  ASSUME ToldInv, [Next]_vars, deaths \in Nat, Suppresses
  PROVE  Known(ctl.conv, ctl.key)
<1> SUFFICES ASSUME ~ Known(ctl.conv, ctl.key) PROVE FALSE
  OBVIOUS
<1>1. ctl # Idle /\ ctl.at = "tell" /\ {"at", "events"} \subseteq DOMAIN ctl /\ IsSeq(ctl.events)
  BY DEF Suppresses, Idle, ToldInv, BatchType
<1>2. Tell
  BY <1>1, TellOrNothing DEF Suppresses
<1>3. ctl' = [ctl EXCEPT !.at = "queue", !.events = Append(ctl.events, ctl.key)]
  BY <1>2 DEF Tell
<1>4. ctl' # Idle /\ ctl'.events = Append(ctl.events, ctl.key)
  BY <1>1, <1>3 DEF Idle
<1>5. HasAssignment(ctl'.events)
  BY <1>1, <1>4, AppendIsSeq DEF Suppresses, HasAssignment
<1> QED  BY <1>4, <1>5 DEF Suppresses

\* An assignment is kept from a conversation only for a divergence its last telling
\* turn told, whatever is polled, queued, run, acknowledged or crashes in between
\* (controller.py:676-705, 764-779).
THEOREM AssignmentIsKeptForWhatWasTold == Spec => SuppressedWasTold
<1>1. ToldInv /\ DeathsInv /\ [Next]_vars => (Suppresses => ctl.key \in last[ctl.conv])
  BY SuppressedIsKnown, KnownWasTold DEF Suppresses, DeathsInv
<1>2. ToldInv /\ DeathsInv /\ [Next]_vars =>
        [(ctl.at = "tell" /\ HasAssignment(ctl.events) /\ deaths' = deaths
          /\ (ctl' = Idle \/ ~ HasAssignment(ctl'.events)))
            => ctl.key \in last[ctl.conv]]_vars
  BY <1>1 DEF Suppresses
<1> QED  BY <1>2, LedgerHoldsWhatWasTold, DeathsType, PTL DEF Spec, SuppressedWasTold

\* A reminder of an assignment whose divergence was told last and alone wakes
\* nobody, however often the batch is polled and whatever restarts (controller.py:686-699).
THEOREM ReminderWakesNobody == Spec => ReminderIsQuiet
<1>1. ToldInv /\ DeathsInv /\ [Next]_vars => (Reminds => ctl' = Idle)
  <2> SUFFICES ASSUME ToldInv, DeathsInv, [Next]_vars, Reminds PROVE ctl' = Idle
    OBVIOUS
  <2>1. Tell
    BY TellOrNothing DEF Reminds, DeathsInv
  <2>2. Known(ctl.conv, ctl.key)
    BY ToldIsKnown DEF Reminds
  <2> QED  BY <2>1, <2>2 DEF Tell, Reminds
<1>2. ToldInv /\ DeathsInv /\ [Next]_vars =>
        [(/\ ctl.at = "tell" /\ ctl' # ctl /\ deaths' = deaths
          /\ \A e \in ToSet(ctl.events) : IsAssignment(e)
          /\ last[ctl.conv] = {ctl.key}) => ctl' = Idle]_vars
  BY <1>1 DEF Reminds
<1> QED  BY <1>2, LedgerHoldsWhatWasTold, DeathsType, PTL DEF Spec, ReminderIsQuiet
=============================================================================
