------------------------ MODULE MailboxAccess_proofs ------------------------
(***************************************************************************)
(* Proofs about MailboxAccess, for any devices, indices and clients, any   *)
(* size of the ring and any number of events pushed: the inductive         *)
(* invariant, that no event is lost or counted twice, and that the backend *)
(* implements MailboxService.                                              *)
(*                                                                         *)
(* The heart of it is that the list is empty when an SDO or FoE access     *)
(* begins its transfer, so that everything it finds afterwards is its own. *)
(* Counting needs what a push, a drain and a removal do to the number of   *)
(* events of one class on a list of any length.                            *)
(***************************************************************************)
EXTENDS MailboxAccess, SequenceTheorems, FunctionTheorems, FiniteSetTheorems, TLAPS

USE IndexAssumption, ThreadsAssumption, BoundsAssumption

\* The vocabulary every step is written in.
USE DEF At, Goto, Threads, Labels, AccessKinds, SdoKinds

\* No event is the absence of one, and no access either.
LEMMA Absence ==
    /\ \A e \in Events : e.kind # "None" /\ e # NoEvent
    /\ \A a \in Accesses : a.kind # "none" /\ a # NoAccess
    /\ NoAccess.kind = "none" /\ NoAccess.id = 0
BY DEF Events, Accesses, NoEvent, NoAccess

\* What SOEM pushes during an access carries the access and its device.
LEMMA PushedEvents ==
    ASSUME NEW a \in Accesses
    PROVE  \A e \in EventsOf(a) : e \in Events /\ e.access = a.id /\ e.device = a.device
<1> SUFFICES ASSUME NEW e \in EventsOf(a)
             PROVE  e \in Events /\ e.access = a.id /\ e.device = a.device
  OBVIOUS
<1>1. PICK r \in RawTypes :
        e = [kind |-> Kind[r], device |-> a.device, access |-> a.id,
             index |-> IF r = "SDO_ERROR" THEN a.index ELSE NoIndex]
  BY DEF EventsOf
<1>2. Kind[r] \in {"Abort", "Emergency", "MailboxLayerError", "ProtocolViolation"}
  BY DEF RawTypes, Kind
<1> QED BY <1>1, <1>2 DEF Events, Accesses

\* A push leaves a list of events that fits the ring, and on an empty list nothing but
\* what was pushed.
LEMMA PushResult ==
    ASSUME elist \in Seq(Events), NEW S \in SUBSET Events,
           NEW events \in BoundedSeq(S, MaxPush), Push(events)
    PROVE  /\ elist' \in Seq(Events) /\ Len(elist') <= ListSize
           /\ elist = <<>> => \A i \in 1..Len(elist') : elist'[i] \in S
<1>1. events \in Seq(S) /\ events \in Seq(Events)
  BY SeqDef, SeqMonotonic DEF BoundedSeq, SeqOf
<1> DEFINE all == elist \o events
           lost == IF Len(all) > ListSize THEN Len(all) - ListSize ELSE 0
<1>2. all \in Seq(Events) /\ Len(all) \in Nat
  BY <1>1, ConcatProperties, LenProperties
<1>3. elist' = SubSeq(all, lost + 1, Len(all))
  BY DEF Push
<1>4. lost \in Nat
  BY <1>2
<1> HIDE DEF all, lost
<1>5. \A i \in (lost + 1)..Len(all) : all[i] \in Events
  BY <1>2, <1>4, ElementOfSeq
<1>6. /\ elist' \in Seq(Events)
      /\ Len(elist') = IF lost + 1 <= Len(all) THEN Len(all) - (lost + 1) + 1 ELSE 0
  BY <1>2, <1>3, <1>4, <1>5, SubSeqProperties
<1>7. Len(elist') <= ListSize
  BY <1>2, <1>6 DEF lost
<1>8. ASSUME elist = <<>>
      PROVE  \A i \in 1..Len(elist') : elist'[i] \in S
  <2>1. all = events
    BY <1>1, <1>8, ConcatEmptySeq DEF all
  <2>2. \A i \in (lost + 1)..Len(all) : all[i] \in S
    BY <1>1, <1>2, <1>4, <2>1, ElementOfSeq
  <2>3. elist' \in Seq(S)
    BY <1>2, <1>3, <1>4, <2>2, SubSeqProperties
  <2> QED BY <2>3, ElementOfSeq
<1> QED BY <1>6, <1>7, <1>8

-----------------------------------------------------------------------------
(* AccessInv is inductive.                                                 *)

\* AccessInv holds initially.
LEMMA InitEstablishesAccessInv == Init => AccessInv
<1> SUFFICES ASSUME Init
             PROVE  AccessInv
  OBVIOUS
<1> USE DEF Init
<1>1. TypeOK
  BY EmptySeq DEF TypeOK
<1> QED BY <1>1 DEF AccessInv, LockOK, StepsOK, EventsOwn, FailureIsExplained

\* Asking for an access preserves AccessInv.
LEMMA AccessPreservesAccessInv ==
    ASSUME AccessInv, NEW t \in Clients, Access(t)
    PROVE  AccessInv'
<1> USE DEF AccessInv, Access
<1>1. TypeOK'              BY DEF TypeOK, Accesses
<1>2. acc'[t] # NoAccess   BY DEF TypeOK, NoAccess
<1>3. LockOK'              BY DEF TypeOK, LockOK
<1>4. StepsOK'             BY <1>2 DEF TypeOK, StepsOK
<1>5. EventsOwn'           BY DEF TypeOK, StepsOK, EventsOwn
<1>6. FailureIsExplained'  BY DEF TypeOK, FailureIsExplained
<1> QED BY <1>1, <1>3, <1>4, <1>5, <1>6

\* Taking the mutex preserves AccessInv, by a client or by the service thread.
LEMMA LockPreservesAccessInv ==
    ASSUME AccessInv, (\E t \in Clients : Lock(t)) \/ Tick
    PROVE  AccessInv'
<1> USE DEF AccessInv, TypeOK, LockOK, StepsOK, EventsOwn, FailureIsExplained
<1>1. ASSUME NEW t \in Clients, Lock(t)
      PROVE  AccessInv'
  BY <1>1 DEF Lock
<1>2. CASE Tick
  BY <1>2 DEF Tick
<1> QED BY <1>1, <1>2

\* Taking the first event off the list.
LEMMA ShorterList ==
    ASSUME elist \in Seq(Events), elist # <<>>, elist' = Tail(elist)
    PROVE  /\ elist' \in Seq(Events)
           /\ Len(elist) \in Nat \ {0} /\ Len(elist') = Len(elist) - 1
           /\ \A i \in 1..Len(elist') : elist'[i] = elist[i + 1]
           /\ Head(elist) = elist[1] /\ Head(elist) \in Events
<1>1. Len(elist) \in Nat \ {0}
  BY EmptySeq
<1>2. /\ Head(elist) \in Events /\ Tail(elist) \in Seq(Events)
      /\ Len(Tail(elist)) = Len(elist) - 1
      /\ \A i \in 1..Len(Tail(elist)) : Tail(elist)[i] = elist[i + 1]
  BY HeadTailProperties
<1>3. Head(elist) = elist[1]
  OBVIOUS
<1> QED BY <1>1, <1>2, <1>3

\* Draining an event, or finding none, preserves AccessInv: nobody looks for events meanwhile.
LEMMA DrainPreservesAccessInv ==
    ASSUME AccessInv, NEW t \in Threads, Drain(t)
    PROVE  AccessInv'
<1> USE DEF AccessInv, Drain
<1>1. \A u \in Threads : pc[u] \notin {"idle", "lock"} => u = t
  BY DEF LockOK
<1>2. CASE elist = <<>>
  BY <1>1, <1>2 DEF TypeOK, LockOK, StepsOK, EventsOwn, FailureIsExplained
<1>3. CASE elist # <<>>
  <2>1. elist' \in Seq(Events) /\ Len(elist') <= ListSize
    BY <1>3, ShorterList DEF TypeOK
  <2>2. TypeOK'
    BY <1>3, <2>1 DEF TypeOK
  <2>3. LockOK' /\ StepsOK' /\ FailureIsExplained'
    BY <1>3 DEF LockOK, StepsOK, FailureIsExplained
  <2>4. \A u \in Clients : pc[u] \notin {"transfer", "attribute"}
    BY <1>1
  <2>5. EventsOwn'
    BY <1>3, <2>4 DEF EventsOwn
  <2> QED BY <2>2, <2>3, <2>5
<1> QED BY <1>2, <1>3

\* A transfer preserves AccessInv: on an empty list it leaves its own events only.
LEMMA TransferPreservesAccessInv ==
    ASSUME AccessInv, NEW t \in Clients, Transfer(t)
    PROVE  AccessInv'
<1> USE DEF AccessInv, Transfer
<1>1. acc[t] \in Accesses
  BY DEF TypeOK, StepsOK
<1>2. EventsOf(acc[t]) \in SUBSET Events
  BY <1>1, PushedEvents
<1>3. PICK events \in BoundedSeq(EventsOf(acc[t]), MaxPush) : Push(events)
  OBVIOUS
<1>4. /\ elist' \in Seq(Events) /\ Len(elist') <= ListSize
      /\ elist = <<>> => \A i \in 1..Len(elist') : elist'[i] \in EventsOf(acc[t])
  BY <1>2, <1>3, PushResult DEF TypeOK
<1>5. TypeOK'
  BY <1>4 DEF TypeOK
<1>6. LockOK' /\ StepsOK' /\ FailureIsExplained'
  BY DEF TypeOK, LockOK, StepsOK, FailureIsExplained
<1>7. EventsOwn'
  <2>1. \A u \in Clients \ {t} : pc[u] \in {"idle", "lock"} /\ pc'[u] = pc[u]
    BY DEF LockOK, TypeOK
  <2>2. acc[t].kind # "od" => elist = <<>>
    BY DEF EventsOwn
  <2>3. pc'[t] = "attribute" =>
          \A i \in 1..Len(elist') :
             elist'[i].access = acc[t].id /\ elist'[i].device = acc[t].device
    BY <1>1, <1>4, <2>2, PushedEvents DEF TypeOK
  <2> QED BY <2>1, <2>3 DEF TypeOK, EventsOwn
<1> QED BY <1>5, <1>6, <1>7

\* Looking for the event of an access preserves AccessInv: the one it keeps is its own.
LEMMA AttributePreservesAccessInv ==
    ASSUME AccessInv, NEW t \in Clients, Attribute(t)
    PROVE  AccessInv'
<1> USE DEF AccessInv, Attribute
<1>1. CASE elist = <<>>
  BY <1>1 DEF TypeOK, LockOK, StepsOK, EventsOwn, FailureIsExplained
<1>2. CASE elist # <<>>
  <2>1. /\ elist' \in Seq(Events) /\ Len(elist') <= ListSize
        /\ \A i \in 1..Len(elist') : elist'[i] = elist[i + 1]
        /\ Len(elist') = Len(elist) - 1 /\ Len(elist) \in Nat
        /\ Head(elist) \in Events /\ Head(elist) = elist[1] /\ Len(elist) >= 1
    BY <1>2, ShorterList DEF TypeOK
  <2>2. \A i \in 1..Len(elist) :
           elist[i].access = acc[t].id /\ elist[i].device = acc[t].device
    BY DEF EventsOwn
  <2>3. TypeOK'
    BY <1>2, <2>1 DEF TypeOK
  <2>4. LockOK' /\ StepsOK' /\ FailureIsExplained'
    <3>1. pc' = pc /\ t \in Threads /\ pc[t] = "attribute"
      BY <1>2 DEF Threads
    <3>2. \A u \in Clients \ {t} : attributed'[u] = attributed[u]
      BY <1>2 DEF TypeOK
    <3> QED BY <1>2, <3>1, <3>2 DEF LockOK, StepsOK, FailureIsExplained
  <2>5. \A i \in 1..Len(elist') :
           elist'[i].access = acc[t].id /\ elist'[i].device = acc[t].device
    <3> TAKE i \in 1..Len(elist')
    <3>1. i + 1 \in 1..Len(elist) /\ elist'[i] = elist[i + 1]
      BY <2>1
    <3> HIDE DEF Attribute
    <3> QED BY <2>2, <3>1
  <2>6. \A u \in Clients \ {t} : pc[u] \in {"idle", "lock"} /\ attributed'[u] = attributed[u]
    BY <1>2 DEF LockOK, TypeOK
  <2>7. attributed'[t] # NoEvent =>
          /\ attributed'[t].access = acc[t].id /\ attributed'[t].device = acc[t].device
          /\ attributed'[t].kind # "Emergency"
    <3>1. CASE attributed[t] = NoEvent /\ BelongsTo(Head(elist), acc[t])
      <4>1. attributed'[t] = Head(elist)
        BY <1>2, <3>1 DEF TypeOK
      <4>2. Head(elist).kind # "Emergency"
        BY <3>1 DEF BelongsTo
      <4>3. Head(elist).access = acc[t].id /\ Head(elist).device = acc[t].device
        BY <2>1, <2>2
      <4> QED BY <4>1, <4>2, <4>3
    <3>2. CASE ~(attributed[t] = NoEvent /\ BelongsTo(Head(elist), acc[t]))
      BY <1>2, <3>2 DEF EventsOwn
    <3> QED BY <3>1, <3>2
  <2> QED BY <1>2, <2>3, <2>4, <2>5, <2>6, <2>7 DEF EventsOwn
<1> QED BY <1>1, <1>2

\* What the backend makes itself is an event of the access, and no emergency.
LEMMA SynthesizedEvent ==
    ASSUME NEW a \in Accesses, NEW kind \in {"Timeout", "FoE"}
    PROVE  /\ Synthesized(kind, a) \in Events /\ Synthesized(kind, a) # NoEvent
           /\ Synthesized(kind, a).access = a.id /\ Synthesized(kind, a).device = a.device
           /\ Synthesized(kind, a).kind = kind
BY DEF Synthesized, Accesses, Events, NoEvent

\* The end of an access preserves AccessInv: a failure takes its event along.
LEMMA FinishPreservesAccessInv ==
    ASSUME AccessInv, NEW t \in Clients, FinishSdo(t) \/ FinishFoe(t) \/ ListObjects(t)
    PROVE  AccessInv'
<1> USE DEF AccessInv
<1>1. acc[t] \in Accesses
  BY DEF TypeOK, StepsOK, FinishSdo, FinishFoe, ListObjects
<1>2. CASE FinishSdo(t)
  BY <1>1, <1>2, SynthesizedEvent
  DEF FinishSdo, Answers, TypeOK, LockOK, StepsOK, EventsOwn, FailureIsExplained
<1>3. CASE FinishFoe(t)
  <2>1. FoeKind(wkc[t]) \in {"Timeout", "FoE"}
    BY DEF FoeKind
  <2> QED
    BY <1>1, <1>3, <2>1, SynthesizedEvent
    DEF FinishFoe, Answers, TypeOK, LockOK, StepsOK, EventsOwn, FailureIsExplained
<1>4. CASE ListObjects(t)
  BY <1>4 DEF ListObjects, TypeOK, LockOK, StepsOK, EventsOwn, FailureIsExplained
<1> QED BY <1>2, <1>3, <1>4

\* Returning, or releasing the mutex after a drain, preserves AccessInv.
LEMMA ReturnPreservesAccessInv ==
    ASSUME AccessInv, NEW t \in Threads, Return(t)
    PROVE  AccessInv'
BY DEF Return, AccessInv, TypeOK, LockOK, StepsOK, EventsOwn, FailureIsExplained

\* Every step preserves AccessInv.
LEMMA NextPreservesAccessInv == AccessInv /\ [Next]_vars => AccessInv'
<1> SUFFICES ASSUME AccessInv, [Next]_vars
             PROVE  AccessInv'
  OBVIOUS
<1>1. CASE UNCHANGED vars
  BY <1>1 DEF vars, history, AccessInv, TypeOK, LockOK, StepsOK, EventsOwn, FailureIsExplained
<1> QED
  BY <1>1, AccessPreservesAccessInv, LockPreservesAccessInv, DrainPreservesAccessInv,
     TransferPreservesAccessInv, AttributePreservesAccessInv, FinishPreservesAccessInv,
     ReturnPreservesAccessInv
  DEF Next, Call

\* An SDO or FoE access that looks for its events finds only its own on the shared list,
\* whatever earlier accesses have left there and whoever drains it in between.
THEOREM AccessInvHolds == Spec => []AccessInv
BY InitEstablishesAccessInv, NextPreservesAccessInv, PTL DEF Spec

\* Every failed access carries the event that explains it, the decoded code for FoE.
THEOREM Explained == Spec => []FailureIsExplained
BY AccessInvHolds, PTL DEF AccessInv

-----------------------------------------------------------------------------
(* Counting the events of a class on a list.                               *)

\* The positions of a class on a list are finitely many.
LEMMA OfClassFinite ==
    ASSUME NEW s \in Seq(Events), NEW c
    PROVE  /\ OfClass(s, c) \in SUBSET (1..Len(s)) /\ IsFiniteSet(OfClass(s, c))
           /\ Cardinality(OfClass(s, c)) \in Nat
<1>1. DOMAIN s = 1..Len(s) /\ Len(s) \in Nat
  BY LenProperties
<1>2. OfClass(s, c) \in SUBSET (1..Len(s))
  BY <1>1 DEF OfClass
<1>3. IsFiniteSet(1..Len(s))
  BY <1>1, FS_Interval
<1>4. IsFiniteSet(OfClass(s, c))
  BY <1>2, <1>3, FS_Subset
<1> QED BY <1>2, <1>4, FS_CardinalityType

\* Moving a finite set of positions does not change their number.
LEMMA ShiftedPositions ==
    ASSUME NEW S \in SUBSET Int, IsFiniteSet(S), NEW k \in Int
    PROVE  LET T == {i + k : i \in S}
           IN  IsFiniteSet(T) /\ Cardinality(T) = Cardinality(S)
<1> DEFINE T == {i + k : i \in S}
           F == [i \in S |-> i + k]
<1>1. F \in [S -> T] /\ \A a, b \in S : F[a] = F[b] => a = b
  OBVIOUS
<1>2. \A j \in T : \E i \in S : F[i] = j
  OBVIOUS
<1> HIDE DEF T, F
<1>3. F \in Bijection(S, T)
  BY <1>1, <1>2, Fun_IsBij
<1>4. ExistsBijection(S, T)
  BY <1>3, Fun_ExistsBij
<1>5. IsFiniteSet(T) /\ Cardinality(T) = Cardinality(S)
  BY <1>4, FS_Bijection
<1> QED BY <1>5 DEF T

\* The events of two lists put one after the other are those of both.
LEMMA CountConcat ==
    ASSUME NEW s \in Seq(Events), NEW u \in Seq(Events), NEW c
    PROVE  Cardinality(OfClass(s \o u, c)) =
               Cardinality(OfClass(s, c)) + Cardinality(OfClass(u, c))
<1> DEFINE moved == {i + Len(s) : i \in OfClass(u, c)}
<1>1. /\ s \o u \in Seq(Events) /\ Len(s \o u) = Len(s) + Len(u)
      /\ \A i \in 1..(Len(s) + Len(u)) :
           (s \o u)[i] = IF i <= Len(s) THEN s[i] ELSE u[i - Len(s)]
  BY ConcatProperties
<1>2. /\ Len(s) \in Nat /\ Len(u) \in Nat
      /\ DOMAIN s = 1..Len(s) /\ DOMAIN u = 1..Len(u)
      /\ DOMAIN (s \o u) = 1..(Len(s) + Len(u))
  BY <1>1, LenProperties
<1>3. /\ OfClass(s, c) \in SUBSET (1..Len(s)) /\ IsFiniteSet(OfClass(s, c))
      /\ OfClass(u, c) \in SUBSET (1..Len(u)) /\ IsFiniteSet(OfClass(u, c))
  BY OfClassFinite
<1>4. IsFiniteSet(moved) /\ Cardinality(moved) = Cardinality(OfClass(u, c))
  <2>1. OfClass(u, c) \in SUBSET Int /\ Len(s) \in Int
    BY <1>2, <1>3
  <2> QED BY <1>3, <2>1, ShiftedPositions
<1> DEFINE both == s \o u
<1>5. /\ DOMAIN both = 1..(Len(s) + Len(u))
      /\ \A i \in 1..(Len(s) + Len(u)) :
           both[i] = IF i <= Len(s) THEN s[i] ELSE u[i - Len(s)]
  BY <1>1, <1>2
<1> HIDE DEF both
<1>6. OfClass(both, c) = OfClass(s, c) \cup moved
  <2>1. ASSUME NEW i \in OfClass(both, c)
        PROVE  i \in OfClass(s, c) \cup moved
    <3>1. i \in 1..(Len(s) + Len(u)) /\ Class(both[i].kind) = c
      BY <1>5 DEF OfClass
    <3>2. CASE i <= Len(s)
      BY <1>2, <1>5, <3>1, <3>2 DEF OfClass
    <3>3. CASE ~(i <= Len(s))
      <4>1. i - Len(s) \in 1..Len(u) /\ (i - Len(s)) + Len(s) = i
        BY <1>2, <3>1, <3>3
      <4>2. i - Len(s) \in OfClass(u, c)
        BY <1>2, <1>5, <3>1, <3>3, <4>1 DEF OfClass
      <4> QED BY <4>1, <4>2
    <3> QED BY <3>2, <3>3
  <2>2. ASSUME NEW i \in OfClass(s, c)
        PROVE  i \in OfClass(both, c)
    <3>1. i \in 1..Len(s) /\ Class(s[i].kind) = c
      BY <1>2 DEF OfClass
    <3>2. i \in 1..(Len(s) + Len(u)) /\ both[i] = s[i]
      BY <1>2, <1>5, <3>1
    <3> QED BY <1>5, <3>1, <3>2 DEF OfClass
  <2>3. ASSUME NEW j \in OfClass(u, c)
        PROVE  j + Len(s) \in OfClass(both, c)
    <3>1. j \in 1..Len(u) /\ Class(u[j].kind) = c
      BY <1>2 DEF OfClass
    <3>2. j + Len(s) \in 1..(Len(s) + Len(u)) /\ ~(j + Len(s) <= Len(s))
          /\ (j + Len(s)) - Len(s) = j
      BY <1>2, <3>1
    <3>3. both[j + Len(s)] = u[j]
      BY <1>5, <3>2
    <3> QED BY <1>5, <3>1, <3>2, <3>3 DEF OfClass
  <2> QED BY <2>1, <2>2, <2>3
<1>7. OfClass(s, c) \cap moved = {}
  BY <1>2, <1>3
<1> HIDE DEF moved
<1>8. Cardinality(OfClass(s, c)) \in Nat /\ Cardinality(OfClass(u, c)) \in Nat
  BY OfClassFinite
<1>9. Cardinality(OfClass(both, c)) =
          Cardinality(OfClass(s, c)) + Cardinality(moved) - Cardinality({})
  BY <1>3, <1>4, <1>6, <1>7, FS_Union
<1> QED BY <1>4, <1>8, <1>9, FS_EmptySet DEF both

\* One event counts once, in its class.
One(kind, c) == IF Class(kind) = c THEN 1 ELSE 0

\* A list of one event has one position of its class and none of another.
LEMMA CountSingle ==
    ASSUME NEW e \in Events, NEW c
    PROVE  <<e>> \in Seq(Events) /\ Cardinality(OfClass(<<e>>, c)) = One(e.kind, c)
<1>1. OfClass(<<e>>, c) = IF Class(e.kind) = c THEN {1} ELSE {}
  BY DEF OfClass
<1>2. Cardinality({1}) = 1 /\ Cardinality({}) = 0
  BY FS_EmptySet, FS_Singleton
<1>3. <<e>> \in Seq(Events)
  OBVIOUS
<1> QED BY <1>1, <1>2, <1>3 DEF One

\* Taking the first event off a list takes one event of its class off.
LEMMA CountTail ==
    ASSUME NEW s \in Seq(Events), s # <<>>, NEW c
    PROVE  Cardinality(OfClass(s, c)) =
               One(Head(s).kind, c) + Cardinality(OfClass(Tail(s), c))
<1>1. Head(s) \in Events /\ Tail(s) \in Seq(Events) /\ s = <<Head(s)>> \o Tail(s)
  BY HeadTailProperties
<1>2. /\ <<Head(s)>> \in Seq(Events)
      /\ Cardinality(OfClass(<<Head(s)>>, c)) = One(Head(s).kind, c)
  BY <1>1, CountSingle
<1>3. Cardinality(OfClass(<<Head(s)>> \o Tail(s), c)) =
          Cardinality(OfClass(<<Head(s)>>, c)) + Cardinality(OfClass(Tail(s), c))
  BY <1>1, <1>2, CountConcat
<1> QED BY <1>1, <1>2, <1>3

\* A push loses nothing that is not counted as overwritten.
LEMMA CountPush ==
    ASSUME elist \in Seq(Events), NEW S \in SUBSET Events,
           NEW events \in BoundedSeq(S, MaxPush), Push(events),
           \A counts \in {pushed, dropped} : counts \in [Classes -> Nat]
    PROVE  /\ pushed' \in [Classes -> Nat] /\ dropped' \in [Classes -> Nat]
           /\ \A c \in Classes :
                Cardinality(OfClass(elist', c)) + (dropped'[c] - dropped[c]) =
                    Cardinality(OfClass(elist, c)) + (pushed'[c] - pushed[c])
<1>1. events \in Seq(Events)
  BY SeqDef, SeqMonotonic DEF BoundedSeq, SeqOf
<1> DEFINE all == elist \o events
           lost == IF Len(all) > ListSize THEN Len(all) - ListSize ELSE 0
           old == SubSeq(all, 1, lost)
<1>2. all \in Seq(Events) /\ Len(all) \in Nat
  BY <1>1, ConcatProperties, LenProperties
<1>3. /\ elist' = SubSeq(all, lost + 1, Len(all))
      /\ dropped' = PlusAll(dropped, old)
      /\ pushed' = PlusAll(pushed, events)
  BY DEF Push
<1>4. lost \in 0..Len(all)
  BY <1>2
<1>5. \A c \in Classes : Cardinality(OfClass(all, c)) =
          Cardinality(OfClass(elist, c)) + Cardinality(OfClass(events, c))
  BY <1>1, CountConcat
<1> HIDE DEF all, lost
<1>6. old \in Seq(Events)
  <2>1. \A i \in 1..lost : all[i] \in Events
    BY <1>2, <1>4, ElementOfSeq
  <2> QED BY <1>2, <1>4, <2>1, SubSeqProperties
<1>7. elist' \in Seq(Events)
  <2>1. \A i \in (lost + 1)..Len(all) : all[i] \in Events
    BY <1>2, <1>4, ElementOfSeq
  <2>2. lost + 1 \in Nat
    BY <1>2, <1>4
  <2> QED BY <1>2, <1>3, <2>1, <2>2, SubSeqProperties
<1>8. all = old \o elist'
  <2>1. 1 \in 1..(Len(all) + 1) /\ lost \in (1 - 1)..Len(all) /\ Len(all) \in lost..Len(all)
    BY <1>2, <1>4
  <2>2. old \o elist' = SubSeq(all, 1, Len(all))
    BY <1>2, <1>3, <2>1, ConcatAdjacentSubSeq
  <2> QED BY <1>2, <2>2, SubSeqFull
<1> HIDE DEF old
<1>9. \A c \in Classes : Cardinality(OfClass(all, c)) =
          Cardinality(OfClass(old, c)) + Cardinality(OfClass(elist', c))
  BY <1>6, <1>7, <1>8, CountConcat
<1>10. \A c \in Classes :
         /\ Cardinality(OfClass(events, c)) \in Nat /\ Cardinality(OfClass(old, c)) \in Nat
         /\ Cardinality(OfClass(elist, c)) \in Nat /\ Cardinality(OfClass(elist', c)) \in Nat
  BY <1>1, <1>6, <1>7, OfClassFinite
<1>11. \A c \in Classes :
         /\ dropped'[c] = dropped[c] + Cardinality(OfClass(old, c))
         /\ pushed'[c] = pushed[c] + Cardinality(OfClass(events, c))
  BY <1>3 DEF PlusAll
<1>12. pushed' \in [Classes -> Nat] /\ dropped' \in [Classes -> Nat]
  BY <1>3, <1>10 DEF PlusAll
<1>13. ASSUME NEW c \in Classes
       PROVE  Cardinality(OfClass(elist', c)) + (dropped'[c] - dropped[c]) =
                  Cardinality(OfClass(elist, c)) + (pushed'[c] - pushed[c])
  <2>1. pushed[c] \in Nat /\ dropped[c] \in Nat
    OBVIOUS
  <2> QED BY <2>1, <1>5, <1>9, <1>10, <1>11
<1> QED BY <1>12, <1>13

\* Counting an event of a kind adds one to its class.
LEMMA PlusEffect ==
    ASSUME NEW counts \in [Classes -> Nat], NEW kind
    PROVE  /\ Plus(counts, kind) \in [Classes -> Nat]
           /\ \A c \in Classes : Plus(counts, kind)[c] = counts[c] + One(kind, c)
<1>1. Class(kind) \in Classes
  BY DEF Class, Classes
<1> QED BY <1>1 DEF Plus, One

\* EventsConserved, class by class, without the sequence operators.
Listed(c) == Cardinality(OfClass(elist, c))
Balanced ==
    \A c \in Classes :
        status[c] + Listed(c) + dropped[c] + handedOut[c] = pushed[c] + synthesized[c]
BalanceSaysConserved == CountersOK => (Balanced <=> EventsConserved)

\* Both say the same while the list holds events.
LEMMA BalanceIsConservation == AccessInv => BalanceSaysConserved
<1> SUFFICES ASSUME AccessInv, CountersOK
             PROVE  Balanced <=> EventsConserved
  BY DEF BalanceSaysConserved
<1>1. \A c \in Classes : Listed(c) \in Nat
  BY OfClassFinite DEF AccessInv, TypeOK, Listed
<1>2. \A c \in Classes : OnList[c] = Listed(c)
  BY <1>1 DEF OnList, PlusAll, Nothing, Listed
<1>3. \A c \in Classes : handedOut[c] >= 0
  BY DEF CountersOK
<1> QED BY <1>2, <1>3 DEF Balanced, EventsConserved

\* In the next state too.
LEMMA BalanceIsConservationNext == AccessInv' => BalanceSaysConserved'
BY BalanceIsConservation, PTL

\* Nothing has been counted initially, and nothing is on the list.
LEMMA InitIsBalanced == Init => CountersOK /\ Balanced
<1> SUFFICES ASSUME Init
             PROVE  CountersOK /\ Balanced
  OBVIOUS
<1>1. \A c \in Classes : Nothing[c] = 0
  BY DEF Nothing
<1>2. OfClass(elist, "aborts") = {} /\ \A c \in Classes : OfClass(elist, c) = {}
  BY DEF Init, OfClass
<1>3. \A c \in Classes : Listed(c) = 0
  BY <1>2, FS_EmptySet DEF Listed
<1> QED BY <1>1, <1>3 DEF Init, CountersOK, Balanced, Nothing

\* Each counter counts in Nat.
LEMMA CountersTyped ==
    ASSUME CountersOK
    PROVE  /\ status \in [Classes -> Nat] /\ handedOut \in [Classes -> Nat]
           /\ pushed \in [Classes -> Nat] /\ dropped \in [Classes -> Nat]
           /\ synthesized \in [Classes -> Nat]
BY DEF CountersOK

\* Steps that count nothing keep the balance.
LEMMA UncountedStaysBalanced ==
    ASSUME AccessInv, CountersOK, Balanced,
           \/ \E t \in Clients : Access(t) \/ Lock(t) \/ ListObjects(t)
           \/ \E t \in Threads : Return(t)
           \/ Tick
           \/ UNCHANGED vars
    PROVE  CountersOK' /\ Balanced'
<1>1. UNCHANGED <<elist, status, history>>
  BY DEF Access, Lock, ListObjects, Return, Tick, vars, history
<1>2. Balanced'
  BY <1>1 DEF Balanced, Listed, history
<1>3. \A t \in Clients :
        pc'[t] \in {"attribute", "finish"} /\ attributed'[t] # NoEvent =>
           pc[t] \in {"attribute", "finish"} /\ attributed'[t] = attributed[t]
  BY DEF AccessInv, TypeOK, Access, Lock, ListObjects, Return, Tick, vars
<1> QED BY <1>1, <1>2, <1>3 DEF CountersOK, history

\* A drained event moves from the list to its counter.
LEMMA DrainStaysBalanced ==
    ASSUME AccessInv, CountersOK, Balanced, NEW t \in Threads, Drain(t)
    PROVE  CountersOK' /\ Balanced'
<1> USE DEF Drain, AccessInv
<1>1. \A u \in Clients : pc'[u] \in {"attribute", "finish"} => pc'[u] = pc[u]
  BY DEF TypeOK
<1>2. CASE elist = <<>>
  BY <1>1, <1>2 DEF CountersOK, Balanced, Listed, history
<1>3. CASE elist # <<>>
  <2>1. /\ elist \in Seq(Events) /\ elist' = Tail(elist)
        /\ status' = Plus(status, Head(elist).kind) /\ UNCHANGED <<history, pc, attributed>>
    BY <1>3 DEF TypeOK
  <2>2. \A c \in Classes : Listed(c) = One(Head(elist).kind, c) + Listed(c)'
    BY <1>3, <2>1, CountTail DEF Listed
  <2>3. \A c \in Classes : Listed(c) \in Nat /\ Listed(c)' \in Nat
    <3>1. elist' \in Seq(Events)
      BY <1>3, <2>1, HeadTailProperties
    <3> QED BY <2>1, <3>1, OfClassFinite DEF Listed
  <2>4. /\ status' \in [Classes -> Nat]
        /\ \A c \in Classes : status'[c] = status[c] + One(Head(elist).kind, c)
    <3>1. status \in [Classes -> Nat]
      BY CountersTyped
    <3> HIDE DEF Drain, AccessInv
    <3> QED BY <2>1, <3>1, PlusEffect
  <2>5. CountersOK'
    BY <2>1, <2>4 DEF CountersOK, history
  <2>6. Balanced'
    <3> SUFFICES ASSUME NEW c \in Classes
                 PROVE  (status[c] + Listed(c) + dropped[c] + handedOut[c]
                            = pushed[c] + synthesized[c])'
      BY DEF Balanced
    <3>1. /\ status[c] \in Nat /\ dropped[c] \in Nat /\ handedOut[c] \in Nat
          /\ pushed[c] \in Nat /\ synthesized[c] \in Nat
          /\ status[c] + Listed(c) + dropped[c] + handedOut[c] = pushed[c] + synthesized[c]
      BY DEF CountersOK, Balanced
    <3>2. One(Head(elist).kind, c) \in Nat
      BY DEF One
    <3> QED BY <2>1, <2>2, <2>3, <2>4, <3>1, <3>2 DEF history
  <2> QED BY <2>5, <2>6
<1> QED BY <1>2, <1>3

\* What a transfer pushes is on the list, or counted as overwritten.
LEMMA TransferStaysBalanced ==
    ASSUME AccessInv, CountersOK, Balanced, NEW t \in Clients, Transfer(t)
    PROVE  CountersOK' /\ Balanced'
<1> USE DEF Transfer, AccessInv
<1>1. acc[t] \in Accesses /\ EventsOf(acc[t]) \in SUBSET Events
  BY PushedEvents DEF TypeOK, StepsOK
<1>2. PICK events \in BoundedSeq(EventsOf(acc[t]), MaxPush) : Push(events)
  OBVIOUS
<1>3. /\ pushed' \in [Classes -> Nat] /\ dropped' \in [Classes -> Nat]
      /\ \A c \in Classes :
           Listed(c)' + (dropped'[c] - dropped[c]) = Listed(c) + (pushed'[c] - pushed[c])
  BY <1>1, <1>2, CountPush DEF TypeOK, CountersOK, Listed
<1>4. \A c \in Classes : Listed(c) \in Nat /\ Listed(c)' \in Nat
  <2>1. elist' \in Seq(Events)
    BY <1>1, <1>2, PushResult DEF TypeOK
  <2> QED BY <2>1, OfClassFinite DEF TypeOK, Listed
<1>5. attributed[t] = NoEvent
  BY DEF StepsOK
<1>6. UNCHANGED <<status, handedOut, synthesized, attributed>>
  OBVIOUS
<1>7. \A u \in Clients \ {t} : pc'[u] = pc[u]
  BY DEF TypeOK
<1>8. CountersOK'
  BY <1>3, <1>5, <1>6, <1>7 DEF CountersOK
<1>9. Balanced'
  <2> SUFFICES ASSUME NEW c \in Classes
               PROVE  (status[c] + Listed(c) + dropped[c] + handedOut[c]
                          = pushed[c] + synthesized[c])'
    BY DEF Balanced
  <2>1. /\ status[c] \in Nat /\ dropped[c] \in Nat /\ handedOut[c] \in Nat
        /\ pushed[c] \in Nat /\ synthesized[c] \in Nat
        /\ pushed'[c] \in Nat /\ dropped'[c] \in Nat
        /\ status[c] + Listed(c) + dropped[c] + handedOut[c] = pushed[c] + synthesized[c]
    BY <1>3 DEF CountersOK, Balanced
  <2> QED BY <1>3, <1>4, <1>6, <2>1
<1> QED BY <1>8, <1>9

\* An event that is looked at moves from the list to the access, or to its counter.
LEMMA AttributeStaysBalanced ==
    ASSUME AccessInv, CountersOK, Balanced, NEW t \in Clients, Attribute(t)
    PROVE  CountersOK' /\ Balanced'
<1> USE DEF Attribute, AccessInv
<1>1. CASE elist = <<>>
  <2>1. UNCHANGED <<elist, status, history, attributed>>
    BY <1>1 DEF history
  <2>2. \A u \in Clients :
          pc'[u] \in {"attribute", "finish"} => pc[u] \in {"attribute", "finish"}
    BY <1>1 DEF TypeOK
  <2> QED BY <2>1, <2>2 DEF CountersOK, Balanced, Listed, history
<1>2. CASE elist # <<>>
  <2> DEFINE kind == Head(elist).kind
             keeps == attributed[t] = NoEvent /\ BelongsTo(Head(elist), acc[t])
  <2>1. /\ elist \in Seq(Events) /\ elist' = Tail(elist)
        /\ UNCHANGED <<pc, pushed, dropped, synthesized>>
    BY <1>2 DEF TypeOK
  <2>2. \A c \in Classes : Listed(c) = One(kind, c) + Listed(c)'
    BY <1>2, <2>1, CountTail DEF Listed
  <2>3. \A c \in Classes : Listed(c) \in Nat /\ Listed(c)' \in Nat
    <3>1. elist' \in Seq(Events)
      BY <1>2, <2>1, HeadTailProperties
    <3> QED BY <2>1, <3>1, OfClassFinite DEF Listed
  <2>4. /\ status' \in [Classes -> Nat] /\ handedOut' \in [Classes -> Nat]
        /\ \A c \in Classes :
             /\ status'[c] + handedOut'[c] = status[c] + handedOut[c] + One(kind, c)
             /\ handedOut'[c] >= handedOut[c]
    <3>1. status \in [Classes -> Nat] /\ handedOut \in [Classes -> Nat]
      BY CountersTyped
    <3>2. \A c : One(kind, c) \in Nat
      BY DEF One
    <3>3. \/ status' = status /\ handedOut' = Plus(handedOut, kind)
          \/ status' = Plus(status, kind) /\ handedOut' = handedOut
      BY <1>2
    <3>4. \A counts \in {status, handedOut} :
            /\ Plus(counts, kind) \in [Classes -> Nat]
            /\ \A c \in Classes : Plus(counts, kind)[c] = counts[c] + One(kind, c)
      BY <3>1, PlusEffect
    <3> HIDE DEF Attribute, kind, AccessInv
    <3> QED BY <3>1, <3>2, <3>3, <3>4
  <2>5. ASSUME NEW u \in Clients, pc'[u] \in {"attribute", "finish"}, attributed'[u] # NoEvent
        PROVE  handedOut'[Class(attributed'[u].kind)] > 0
    <3>1. \A k : Class(k) \in Classes
      BY DEF Class, Classes
    <3>2. CASE attributed'[u] = attributed[u]
      <4>1. handedOut[Class(attributed[u].kind)] > 0
        BY <2>1, <2>5, <3>2 DEF CountersOK
      <4>2. handedOut \in [Classes -> Nat]
        BY DEF CountersOK
      <4> HIDE DEF Attribute
      <4> QED BY <2>4, <3>1, <3>2, <4>1, <4>2
    <3>3. CASE attributed'[u] # attributed[u]
      <4>1. keeps /\ u = t /\ attributed'[u] = Head(elist)
            /\ handedOut' = Plus(handedOut, kind)
        BY <1>2, <3>3 DEF TypeOK
      <4>2. handedOut'[Class(kind)] = handedOut[Class(kind)] + One(kind, Class(kind))
        <5>1. handedOut \in [Classes -> Nat]
          BY CountersTyped
        <5> HIDE DEF Attribute, kind, AccessInv
        <5> QED BY <3>1, <4>1, <5>1, PlusEffect
      <4>3. handedOut[Class(kind)] \in Nat
        BY <3>1 DEF CountersOK
      <4> QED BY <4>1, <4>2, <4>3 DEF One
    <3> QED BY <3>2, <3>3
  <2>6. CountersOK'
    <3>1. /\ pushed' \in [Classes -> Nat] /\ dropped' \in [Classes -> Nat]
          /\ synthesized' \in [Classes -> Nat]
      BY <2>1 DEF CountersOK
    <3> QED BY <2>4, <2>5, <3>1 DEF CountersOK
  <2>7. Balanced'
    <3> SUFFICES ASSUME NEW c \in Classes
                 PROVE  (status[c] + Listed(c) + dropped[c] + handedOut[c]
                            = pushed[c] + synthesized[c])'
      BY DEF Balanced
    <3>1. /\ status[c] \in Nat /\ dropped[c] \in Nat /\ handedOut[c] \in Nat
          /\ pushed[c] \in Nat /\ synthesized[c] \in Nat
          /\ status'[c] \in Nat /\ handedOut'[c] \in Nat
          /\ status[c] + Listed(c) + dropped[c] + handedOut[c] = pushed[c] + synthesized[c]
      BY <2>4 DEF CountersOK, Balanced
    <3>2. One(kind, c) \in Nat
      BY DEF One
    <3>3. PICK n \in Nat :
            /\ Listed(c) = n + Listed(c)'
            /\ status'[c] + handedOut'[c] = status[c] + handedOut[c] + n
      BY <2>2, <2>4, <3>2
    <3>4. Listed(c) \in Nat /\ Listed(c)' \in Nat
      BY <2>3
    <3>5. pushed'[c] = pushed[c] /\ dropped'[c] = dropped[c] /\ synthesized'[c] = synthesized[c]
      BY <2>1
    <3> HIDE DEF Attribute, kind, keeps, AccessInv
    <3>6. status'[c] + Listed(c)' + handedOut'[c] = status[c] + Listed(c) + handedOut[c]
      <4>1. status'[c] + handedOut'[c] = status[c] + handedOut[c] + n
        BY <3>3
      <4>2. Listed(c) = n + Listed(c)'
        BY <3>3
      <4>3. n \in Nat /\ Listed(c)' \in Nat
        BY <3>4
      <4>4. status[c] \in Nat /\ handedOut[c] \in Nat /\ status'[c] \in Nat /\ handedOut'[c] \in Nat
        BY <3>1
      <4> QED BY <4>1, <4>2, <4>3, <4>4
    <3>7. status'[c] + Listed(c)' + dropped'[c] + handedOut'[c] = pushed'[c] + synthesized'[c]
      BY <3>1, <3>4, <3>5, <3>6
    <3> QED BY <3>7
  <2> QED BY <2>6, <2>7
<1> QED BY <1>1, <1>2

\* What the backend makes itself is counted, and so is the event it replaces, which is
\* not handed out then.
LEMMA FinishStaysBalanced ==
    ASSUME AccessInv, CountersOK, Balanced, NEW t \in Clients, FinishSdo(t) \/ FinishFoe(t)
    PROVE  CountersOK' /\ Balanced'
<1> USE DEF AccessInv
<1>1. \A k : Class(k) \in Classes
  BY DEF Class, Classes
<1>2. \A u \in Clients :
        pc'[u] \in {"attribute", "finish"} => u # t /\ pc[u] \in {"attribute", "finish"}
  BY DEF TypeOK, FinishSdo, FinishFoe
<1>3. \A u \in Clients : pc[u] \in {"attribute", "finish"} => u = t
  BY DEF LockOK, FinishSdo, FinishFoe
<1>4. UNCHANGED <<elist, pushed, dropped>>
  BY DEF FinishSdo, FinishFoe
<1>5. /\ status' \in [Classes -> Nat] /\ handedOut' \in [Classes -> Nat]
      /\ synthesized' \in [Classes -> Nat]
      /\ \A c \in Classes :
           status'[c] + handedOut'[c] - synthesized'[c] =
               status[c] + handedOut[c] - synthesized[c]
  <2> USE DEF CountersOK
  <2>1. CASE UNCHANGED <<status, handedOut, synthesized>>
    BY <2>1
  <2>2. ASSUME NEW kind, status' = Plus(status, kind), synthesized' = Plus(synthesized, kind),
               UNCHANGED handedOut
        PROVE  <1>5
    <3>1. /\ status' \in [Classes -> Nat] /\ synthesized' \in [Classes -> Nat]
          /\ \A c \in Classes : /\ status'[c] = status[c] + One(kind, c)
                                /\ synthesized'[c] = synthesized[c] + One(kind, c)
      BY <2>2, PlusEffect
    <3>2. \A c : One(kind, c) \in Nat
      BY DEF One
    <3> QED BY <2>2, <3>1, <3>2
  <2>3. ASSUME NEW kind, NEW old,
               status' = Plus(Plus(status, old), kind), synthesized' = Plus(synthesized, kind),
               handedOut[Class(old)] > 0,
               handedOut' = [handedOut EXCEPT ![Class(old)] = @ - 1]
        PROVE  <1>5
    <3>1. /\ Plus(status, old) \in [Classes -> Nat]
          /\ \A c \in Classes : Plus(status, old)[c] = status[c] + One(old, c)
      BY PlusEffect
    <3>2. /\ status' \in [Classes -> Nat] /\ synthesized' \in [Classes -> Nat]
          /\ \A c \in Classes : /\ status'[c] = status[c] + One(old, c) + One(kind, c)
                                /\ synthesized'[c] = synthesized[c] + One(kind, c)
      BY <2>3, <3>1, PlusEffect
    <3>3. \A c \in Classes : handedOut'[c] = handedOut[c] - One(old, c)
      BY <1>1, <2>3 DEF One
    <3>4. handedOut' \in [Classes -> Nat]
      BY <1>1, <2>3
    <3>5. \A c : One(kind, c) \in Nat /\ One(old, c) \in Nat
      BY DEF One
    <3> QED BY <3>2, <3>3, <3>4, <3>5
  <2>4. CASE FinishSdo(t)
    BY <2>1, <2>2, <2>4 DEF FinishSdo
  <2>5. CASE FinishFoe(t)
    <3>1. pc[t] = "finish"
      BY <2>5 DEF FinishFoe
    <3> QED BY <2>1, <2>2, <2>3, <2>5, <3>1 DEF FinishFoe
  <2> QED BY <2>4, <2>5
<1>6. CountersOK'
  <2>1. pushed' \in [Classes -> Nat] /\ dropped' \in [Classes -> Nat]
    BY <1>4 DEF CountersOK
  <2> QED BY <1>2, <1>3, <1>5, <2>1 DEF CountersOK
<1>7. Balanced'
  <2> SUFFICES ASSUME NEW c \in Classes
               PROVE  (status[c] + Listed(c) + dropped[c] + handedOut[c]
                          = pushed[c] + synthesized[c])'
    BY DEF Balanced
  <2>1. /\ status[c] \in Nat /\ dropped[c] \in Nat /\ handedOut[c] \in Nat
        /\ pushed[c] \in Nat /\ synthesized[c] \in Nat
        /\ status'[c] \in Nat /\ handedOut'[c] \in Nat /\ synthesized'[c] \in Nat
        /\ status[c] + Listed(c) + dropped[c] + handedOut[c] = pushed[c] + synthesized[c]
    BY <1>5 DEF CountersOK, Balanced
  <2>2. Listed(c)' = Listed(c) /\ Listed(c) \in Nat
    BY <1>4, OfClassFinite DEF Listed, TypeOK
  <2>3. /\ status'[c] + handedOut'[c] - synthesized'[c] =
               status[c] + handedOut[c] - synthesized[c]
        /\ pushed'[c] = pushed[c] /\ dropped'[c] = dropped[c]
    BY <1>4, <1>5
  <2> HIDE DEF AccessInv
  <2> QED BY <2>1, <2>2, <2>3
<1> QED BY <1>6, <1>7

\* IInv holds initially, and every step preserves it.
LEMMA ConservationIsInductive ==
    /\ Init => IInv
    /\ IInv /\ [Next]_vars => IInv'
<1>1. Init => IInv
  BY InitEstablishesAccessInv, InitIsBalanced, BalanceIsConservation
  DEF IInv, BalanceSaysConserved
<1>2. ASSUME IInv, [Next]_vars
      PROVE  IInv'
  <2>1. AccessInv /\ CountersOK /\ Balanced
    BY <1>2, BalanceIsConservation DEF IInv, BalanceSaysConserved
  <2>2. AccessInv'
    BY <1>2, <2>1, NextPreservesAccessInv
  <2>3. CountersOK' /\ Balanced'
    BY <1>2, <2>1, UncountedStaysBalanced, DrainStaysBalanced, TransferStaysBalanced,
       AttributeStaysBalanced, FinishStaysBalanced
    DEF Next, Call
  <2>4. EventsConserved'
    BY <2>2, <2>3, BalanceIsConservationNext DEF BalanceSaysConserved
  <2> QED BY <2>2, <2>3, <2>4 DEF IInv
<1> QED BY <1>1, <1>2

\* The inductive invariant: the accesses with their events, and the balance of the counters.
THEOREM IInvHolds == Spec => []IInv
BY ConservationIsInductive, PTL DEF Spec

\* Whatever the interleaving and however often the ring overflows, no mailbox event is lost
\* or counted twice: it is on the list, overwritten there, counted in mailbox_status_, or
\* in the result of exactly one access.
THEOREM Conserved == Spec => []EventsConserved
BY IInvHolds, PTL DEF IInv

-----------------------------------------------------------------------------
(* The backend implements MailboxService.                                  *)

\* What a step of the backend is to its callers: a step of the service, or nothing.
ServiceStep == [Promise!ServiceNext]_Promise!serviceVars

USE DEF Promise!serviceVars

\* An access is a request: it has a kind, a device and a number of its own.
LEMMA AccessRefines ==
    ASSUME AccessInv, NEW t \in Clients, Access(t)
    PROVE  ServiceStep
<1> USE DEF AccessInv, TypeOK, StepsOK, Access
<1>1. PICK k \in AccessKinds, d \in Devices, i \in Indices :
        acc' = [acc EXCEPT ![t] = [kind |-> k, device |-> d,
                                   index |-> IF k = "foe" THEN NoIndex ELSE i,
                                   id |-> accesses + 1]]
  OBVIOUS
<1>2. acc[t] = NoAccess
  OBVIOUS
<1>3. Promise!Ask(t, [kind |-> k, device |-> d])
  BY <1>1, <1>2 DEF Promise!Ask
<1>4. [kind |-> k, device |-> d] \in [kind : AccessKinds, device : Devices]
  OBVIOUS
<1> QED BY <1>3, <1>4 DEF ServiceStep, Promise!ServiceNext

\* Taking the mutex is being served; the service thread serves itself.
LEMMA LockRefines ==
    ASSUME AccessInv, (\E t \in Clients : Lock(t)) \/ Tick
    PROVE  ServiceStep
<1> USE DEF AccessInv, TypeOK, StepsOK
<1>1. ASSUME NEW t \in Clients, Lock(t)
      PROVE  ServiceStep
  <2>1. acc[t] \in Accesses
    BY <1>1 DEF Lock
  <2>2. acc[t].kind # NoAccess.kind
    BY <2>1, Absence
  <2>3. Promise!Serve(t)
    BY <1>1, <2>2 DEF Lock, Promise!Serve
  <2> QED BY <2>3 DEF ServiceStep, Promise!ServiceNext
<1>2. CASE Tick
  BY <1>2 DEF Tick, ServiceStep, Promise!ServiceNext, Promise!Maintain
<1> QED BY <1>1, <1>2

\* Neither the transfer nor the search for events shows.
LEMMA InsideIsInvisible ==
    ASSUME AccessInv, (\E t \in Threads : Drain(t))
                 \/ (\E t \in Clients : Transfer(t) \/ Attribute(t))
    PROVE  ServiceStep
<1> USE DEF AccessInv, TypeOK, StepsOK
<1>1. acc' = acc /\ accesses' = accesses /\ mailboxHolder' = mailboxHolder /\ outcome' = outcome
  BY DEF Drain, Transfer, Attribute
<1>2. \A u \in Clients : outcome[u] # "none" => attributed'[u] = attributed[u]
  BY DEF Drain, Transfer, Attribute
<1> QED BY <1>1, <1>2 DEF ServiceStep

\* The end of an access is its answer, which MailboxService allows for its kind.
LEMMA FinishRefines ==
    ASSUME AccessInv, NEW t \in Clients, FinishSdo(t) \/ FinishFoe(t) \/ ListObjects(t)
    PROVE  ServiceStep
<1> USE DEF AccessInv, TypeOK, StepsOK
<1>1. /\ acc[t] \in Accesses /\ mailboxHolder = t /\ outcome[t] = "none"
      /\ acc' = acc /\ accesses' = accesses /\ mailboxHolder' = mailboxHolder
  BY DEF FinishSdo, FinishFoe, ListObjects, LockOK
<1>2. \A u \in Clients \ {t} : outcome'[u] = outcome[u] /\ attributed'[u] = attributed[u]
  BY DEF FinishSdo, FinishFoe, ListObjects, Answers
<1>3. \/ outcome'[t] = "value" /\ attributed'[t] = NoEvent
      \/ outcome'[t] = "thrown" /\ attributed'[t] = NoEvent /\ acc[t].kind \in {"read", "od"}
      \/ /\ outcome'[t] = "failure" /\ acc[t].kind # "od"
         /\ attributed'[t].access = acc[t].id
         /\ attributed'[t].device = acc[t].device
         /\ attributed'[t].kind # "Emergency"
  <2>1. CASE FinishSdo(t)
    BY <1>1, <2>1, SynthesizedEvent DEF FinishSdo, Answers, Failed, EventsOwn
  <2>2. CASE FinishFoe(t)
    <3>1. FoeKind(wkc[t]) \in {"Timeout", "FoE"}
      BY DEF FoeKind
    <3> QED
      BY <1>1, <2>2, <3>1, SynthesizedEvent DEF FinishFoe, Answers, Failed, EventsOwn
  <2>3. CASE ListObjects(t)
    BY <2>3 DEF ListObjects
  <2> QED BY <2>1, <2>2, <2>3
<1> HIDE DEF AccessInv, TypeOK, StepsOK
<1> DEFINE seen == [u \in Clients |->
                     [outcome |-> outcome[u],
                      event |-> IF outcome[u] = "none" THEN NoEvent ELSE attributed[u]]]
<1>4. seen' = [seen EXCEPT ![t] = seen'[t]]
  <2>1. \A u \in Clients \ {t} : seen'[u] = seen[u]
    BY <1>2
  <2> QED BY <2>1
<1>5. Promise!Answers(seen'[t], [kind |-> acc[t].kind, device |-> acc[t].device], acc[t].id)
  BY <1>3 DEF Promise!Answers
<1>6. seen[t] = Promise!NoAnswer
  BY <1>1 DEF Promise!NoAnswer
<1>7. Promise!Answer(t)
  BY <1>1, <1>4, <1>5, <1>6 DEF Promise!Answer
<1> QED BY <1>7 DEF ServiceStep, Promise!ServiceNext

\* Returning is taking the answer; the service thread ends its maintenance.
LEMMA ReturnRefines ==
    ASSUME AccessInv, NEW t \in Threads, Return(t)
    PROVE  ServiceStep
<1> USE DEF AccessInv, TypeOK, StepsOK, LockOK, Return
<1>1. CASE t \in Clients
  <2>1. Promise!Take(t)
    BY <1>1 DEF Promise!Take, Promise!NoAnswer, NoAccess
  <2> QED BY <1>1, <2>1 DEF ServiceStep, Promise!ServiceNext
<1>2. CASE t = Service
  <2>1. Promise!Maintain
    BY <1>2 DEF Promise!Maintain
  <2> QED BY <2>1 DEF ServiceStep, Promise!ServiceNext
<1> QED BY <1>1, <1>2

\* Every step is a step of the service.
LEMMA NextRefines == AccessInv /\ [Next]_vars => ServiceStep
<1> SUFFICES ASSUME AccessInv, [Next]_vars
             PROVE  ServiceStep
  OBVIOUS
<1>1. CASE UNCHANGED vars
  BY <1>1 DEF vars, ServiceStep
<1>2. CASE Next
  BY <1>2, AccessRefines, LockRefines, InsideIsInvisible, FinishRefines, ReturnRefines
  DEF Next, Call
<1> QED BY <1>1, <1>2

\* The mailbox functions, with the error list they share with read_od() and the service
\* thread, implement the service their callers are promised: one access at a time, one
\* answer each, and an event in it only if it is the access's own.
THEOREM ServiceImplemented == Spec => ImplementsService
<1>1. Init => Promise!ServiceInit
  BY DEF Init, Promise!ServiceInit, Promise!NoAnswer, NoAccess
<1>2. AccessInv /\ [Next]_vars => [Promise!ServiceNext]_Promise!serviceVars
  BY NextRefines DEF ServiceStep
<1> HIDE DEF Promise!serviceVars
<1> QED
  BY <1>1, <1>2, AccessInvHolds, PTL DEF Spec, ImplementsService, Promise!ServiceSpec
=============================================================================
