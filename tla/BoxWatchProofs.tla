--------------------------- MODULE BoxWatchProofs ---------------------------
(***************************************************************************)
(* The order of watch events, what they and a snapshot lead to, and the    *)
(* metadata of calls made one after another, for any number of handles,    *)
(* calls, keys, events and deaths of the isolate.                          *)
(***************************************************************************)
EXTENDS BoxWatchCalls, SequenceTheorems, FoldTheorems

-----------------------------------------------------------------------------
(* Sequences.                                                              *)

\* The keys of a call can be listed, each of them once.
LEMMA ListedOnce ==
  ASSUME NEW S, IsFiniteSet(S)
  PROVE  /\ SetToSeq(S) \in Seq(S) /\ \A k \in S : \E i \in DOMAIN SetToSeq(S) : SetToSeq(S)[i] = k
         /\ \A i, j \in DOMAIN SetToSeq(S) : SetToSeq(S)[i] = SetToSeq(S)[j] => i = j
<1> DEFINE n == Cardinality(S)
           f == SetToSeq(S)
<1>1. n \in Nat /\ ExistsBijection(1..n, S) BY FS_CardinalityType
<1>2. \E g \in [1..n -> S] : IsInjective(g)
  BY <1>1 DEF ExistsBijection, Bijection, Injection, IsInjective
<1>3. f \in [1..n -> S] /\ IsInjective(f) BY <1>2 DEF SetToSeq
<1>4. f \in Injection(1..n, S) /\ \A i, j \in 1..n : f[i] = f[j] => i = j
  BY <1>3 DEF Injection, IsInjective
<1>5. IsFiniteSet(1..n) /\ Cardinality(1..n) = n BY <1>1, FS_Interval
<1>6. f \in Seq(S) /\ DOMAIN f = 1..n BY <1>1, <1>3, SeqDef
<1> HIDE DEF f
<1>7. f \in Surjection(1..n, S) BY <1>4, <1>5, FS_Injection
<1>8. \A k \in S : \E i \in 1..n : f[i] = k BY <1>7 DEF Surjection
<1> QED BY <1>4, <1>6, <1>8 DEF f

LEMMA EventsListed ==
  ASSUME NEW type \in {"put", "delete"}, NEW ks \in SUBSET Keys
  PROVE  EventsOf(type, ks) \in Seq(Events)
<1>1. SetToSeq(ks) \in Seq(ks)
  BY WatchAssumption, FS_Subset, ListedOnce
<1>2. \A n \in DOMAIN SetToSeq(ks) : Event(type, SetToSeq(ks)[n]) \in Events
  BY <1>1 DEF Event, Events
<1> DEFINE s == SetToSeq(ks)
<1>3. DOMAIN s = 1..Len(s) /\ Len(s) \in Nat
  BY <1>1
<1>4. EventsOf(type, ks) \in [1..Len(s) -> Events]
  BY <1>2, <1>3 DEF EventsOf
<1> QED BY <1>3, <1>4, SeqDef

\* What is appended to a log is appended to its tail.
LEMMA TailGrows ==
  ASSUME NEW S, NEW s \in Seq(S), NEW t \in Seq(S), NEW i \in 1..(Len(s) + 1)
  PROVE  SubSeq(s \o t, i, Len(s \o t)) = SubSeq(s, i, Len(s)) \o t
<1>1. /\ Len(s) \in Nat /\ Len(t) \in Nat /\ s \o t \in Seq(S)
      /\ Len(s \o t) = Len(s) + Len(t)
      /\ \A j \in 1..(Len(s) + Len(t)) :
           (s \o t)[j] = IF j <= Len(s) THEN s[j] ELSE t[j - Len(s)]
  BY ConcatProperties, LenProperties
<1> DEFINE u == s \o t
           a == SubSeq(u, i, Len(u))
           b == SubSeq(s, i, Len(s))
<1>2. /\ a \in Seq(S) /\ Len(a) = Len(s) + Len(t) - i + 1
      /\ \A j \in 1..(Len(s) + Len(t) - i + 1) : a[j] = u[i + j - 1]
  <2>1. \A j \in i..Len(u) : u[j] \in S BY <1>1, ElementOfSeq
  <2> QED BY <1>1, <2>1, SubSeqProperties
<1>3. /\ b \in Seq(S) /\ Len(b) = Len(s) - i + 1
      /\ \A j \in 1..(Len(s) - i + 1) : b[j] = s[i + j - 1]
  <2>1. \A j \in i..Len(s) : s[j] \in S BY <1>1, ElementOfSeq
  <2> QED BY <1>1, <2>1, SubSeqProperties
<1> HIDE DEF u, a, b
<1>4. /\ b \o t \in Seq(S) /\ Len(b \o t) = Len(b) + Len(t)
      /\ \A j \in 1..(Len(b) + Len(t)) :
           (b \o t)[j] = IF j <= Len(b) THEN b[j] ELSE t[j - Len(b)]
  BY <1>3, ConcatProperties
<1>5. ASSUME NEW j \in 1..Len(a) PROVE a[j] = (b \o t)[j]
  <2>1. a[j] = IF i + j - 1 <= Len(s) THEN s[i + j - 1] ELSE t[(i + j - 1) - Len(s)]
    BY <1>1, <1>2, <1>5 DEF u
  <2>2. CASE i + j - 1 <= Len(s)
    BY <1>1, <1>2, <1>3, <1>4, <1>5, <2>1, <2>2
  <2>3. CASE ~(i + j - 1 <= Len(s))
    <3>1. (b \o t)[j] = t[j - Len(b)] BY <1>1, <1>2, <1>3, <1>4, <1>5, <2>3
    <3>2. j - Len(b) = (i + j - 1) - Len(s) BY <1>1, <1>2, <1>3, <1>5
    <3> QED BY <2>1, <2>3, <3>1, <3>2
  <2> QED BY <2>2, <2>3
<1>6. Len(a) = Len(b \o t) BY <1>1, <1>2, <1>3, <1>4
<1>7. a = b \o t BY <1>2, <1>4, <1>5, <1>6, SeqEqual
<1> QED BY <1>7 DEF a, b, u

\* The rest of a log, when its head is taken.
LEMMA HeadTaken ==
  ASSUME NEW S, NEW l \in Seq(S), NEW s \in Seq(S), NEW u \in Seq(S), s # <<>>,
         NEW i \in 1..(Len(l) + 1), s \o u = SubSeq(l, i, Len(l))
  PROVE  i <= Len(l) /\ Tail(s) \o u = SubSeq(l, i + 1, Len(l))
<1>1. /\ Len(l) \in Nat /\ Len(u) \in Nat /\ Len(s) \in Nat \ {0}
      /\ Len(s \o u) = Len(s) + Len(u)
  BY ConcatProperties, LenProperties, EmptySeq
<1>2. i <= Len(l)
  <2> SUFFICES ASSUME ~(i <= Len(l)) PROVE FALSE OBVIOUS
  <2>1. SubSeq(l, i, Len(l)) = <<>> BY <1>1, SubSeqEmpty
  <2> QED BY <1>1, <2>1, EmptySeq
<1>3. Tail(SubSeq(l, i, Len(l))) = SubSeq(l, i + 1, Len(l))
  BY <1>1, <1>2, HeadTailOfSubSeq
<1>4. Tail(s \o u) = Tail(s) \o u
  <2> DEFINE a == Tail(s \o u)
             b == Tail(s) \o u
  <2>1. /\ s \o u \in Seq(S)
        /\ \A j \in 1..(Len(s) + Len(u)) :
             (s \o u)[j] = IF j <= Len(s) THEN s[j] ELSE u[j - Len(s)]
    BY ConcatProperties
  <2>2. s \o u # <<>>
    <3> SUFFICES ASSUME s \o u = <<>> PROVE FALSE OBVIOUS
    <3>1. Len(s \o u) = 0 OBVIOUS
    <3> QED BY <1>1, <3>1
  <2>3. /\ a \in Seq(S) /\ Len(a) = Len(s) + Len(u) - 1
        /\ \A j \in 1..Len(a) : a[j] = (s \o u)[j + 1]
    BY <1>1, <2>1, <2>2, HeadTailProperties
  <2>4. /\ Tail(s) \in Seq(S) /\ Len(Tail(s)) = Len(s) - 1
        /\ \A j \in 1..Len(Tail(s)) : Tail(s)[j] = s[j + 1]
    BY HeadTailProperties
  <2>5. /\ b \in Seq(S) /\ Len(b) = Len(Tail(s)) + Len(u)
        /\ \A j \in 1..(Len(Tail(s)) + Len(u)) :
             b[j] = IF j <= Len(Tail(s)) THEN Tail(s)[j] ELSE u[j - Len(Tail(s))]
    BY <2>4, ConcatProperties
  <2> HIDE DEF a, b
  <2>6. ASSUME NEW j \in 1..Len(a) PROVE a[j] = b[j]
    <3>1. a[j] = IF j + 1 <= Len(s) THEN s[j + 1] ELSE u[(j + 1) - Len(s)]
      BY <1>1, <2>1, <2>3
    <3>2. b[j] = IF j <= Len(s) - 1 THEN s[j + 1] ELSE u[j - (Len(s) - 1)]
      BY <1>1, <2>3, <2>4, <2>5
    <3>3. (j + 1) - Len(s) = j - (Len(s) - 1) BY <1>1, <2>3
    <3> QED BY <1>1, <2>3, <3>1, <3>2, <3>3
  <2>7. Len(a) = Len(b) BY <1>1, <2>3, <2>4, <2>5
  <2>8. a = b BY <2>3, <2>5, <2>6, <2>7, SeqEqual
  <2> QED BY <2>8 DEF a, b
<1> QED BY <1>2, <1>3, <1>4

-----------------------------------------------------------------------------
(* The invariant.                                                          *)

\* The events of a commit.
LEMMA UtteredListed ==
  ASSUME WatchTyped, NEW c \in Calls
  PROVE  Uttered(c) \in Seq(Events) /\ \A op \in Ops, ks \in SUBSET Keys : Emitted(op, ks) \in Seq(Events)
<1>1. <<Event("clear", None)>> \in Seq(Events) BY DEF Events
<1>2. call[c].keys \in SUBSET Keys /\ call[c].deleted \in SUBSET Keys BY DEF WatchTyped
<1>3. Uttered(c) \in Seq(Events)
  BY <1>1, <1>2, EventsListed DEF Uttered
<1>4. \A op \in Ops, ks \in SUBSET Keys : Emitted(op, ks) \in Seq(Events)
  BY <1>1, EventsListed DEF Emitted, Ops
<1> QED BY <1>3, <1>4

LEMMA InitWatch == Init => WatchInv
<1> SUFFICES ASSUME Init PROVE WatchInv OBVIOUS
<1>1. WatchTyped BY DEF Init, WatchTyped, NoCall, Ops, Stages
<1>2. LockIsEmitting BY WatchAssumption DEF Init, LockIsEmitting, NoCall
<1>3. StreamsStartEmpty BY DEF Init, StreamsStartEmpty
<1> QED BY <1>1, <1>2, <1>3 DEF Init, WatchInv, EventsFollowCommits

\* What is still to be sent depends on the lock and the call that holds it.
LEMMA UnsentSame ==
  ASSUME UNCHANGED lock, lock \in Calls => call'[lock] = call[lock], lock \in Calls \cup {None}
  PROVE  Unsent' = Unsent
  BY DEF Unsent, Uttered

\* A call under way that is not between commit and emission.
LEMMA CallAside ==
  ASSUME WatchInv, NEW c \in Calls, call[c].pc # "emit", WatchTyped', call'[c].pc # "emit",
         \A d \in Calls \ {c} : call'[d] = call[d],
         UNCHANGED <<lock, log, stream, watchers, stage, seen>>
  PROVE  WatchInv'
<1>1. lock # c BY DEF WatchInv, LockIsEmitting
<1>2. Unsent' = Unsent BY <1>1, UnsentSame DEF WatchInv, WatchTyped
<1>3. LockIsEmitting' BY <1>1 DEF WatchInv, LockIsEmitting
<1> QED BY <1>2, <1>3 DEF WatchInv, StreamsStartEmpty, EventsFollowCommits

LEMMA SendWatch ==
  ASSUME WatchInv, NEW c \in Calls, NEW op \in Ops, NEW ks \in SUBSET Keys, Send(c, op, ks)
  PROVE  WatchInv'
<1>1. WatchTyped' BY DEF Send, WatchInv, WatchTyped, handleVars
<1> QED BY <1>1, CallAside DEF Send, handleVars, WatchInv, WatchTyped

LEMMA FailWatch ==
  ASSUME WatchInv, NEW c \in Calls, Fail(c) \/ Reply(c)
  PROVE  WatchInv'
<1>1. call' = [call EXCEPT ![c] = NoCall] /\ call[c].pc # "emit"
      /\ UNCHANGED <<data, lock, log, stream, watchers, stage, seen>>
  BY DEF Fail, Reply, handleVars
<1>2. WatchTyped' BY <1>1 DEF WatchInv, WatchTyped, NoCall, Ops
<1> QED BY <1>1, <1>2, CallAside DEF NoCall, WatchInv, WatchTyped

\* The log grows by the events the lock holder has to send.
LEMMA CommitWatch ==
  ASSUME WatchInv, NEW c \in Calls, Commit(c)
  PROVE  WatchInv'
<1> DEFINE op == call[c].op
           ks == call[c].keys
           es == Emitted(op, ks)
<1>1. /\ lock = None /\ lock' = c /\ call[c].pc = "sent" /\ log' = log \o es
      /\ data' = Stored(op, ks)
      /\ call' = [call EXCEPT ![c].pc = "emit",
                              ![c].deleted = IF op = "deleteAll" THEN ks \cap data ELSE ks]
      /\ UNCHANGED <<stream, watchers, stage, seen>>
  BY DEF Commit, handleVars
<1>2. op \in Ops /\ ks \in SUBSET Keys /\ es \in Seq(Events) /\ log \in Seq(Events) /\ c # None
  BY UtteredListed, WatchAssumption DEF WatchInv, WatchTyped
<1>3. WatchTyped'
  <2>1. data' \subseteq Keys BY <1>1, <1>2 DEF Stored, Ops, WatchInv, WatchTyped
  <2>2. log' \in Seq(Events) BY <1>1, <1>2, ConcatProperties
  <2> QED BY <1>1, <1>2, <2>1, <2>2 DEF WatchInv, WatchTyped
<1>4. LockIsEmitting'
  BY <1>1, <1>2, WatchAssumption DEF WatchInv, WatchTyped, LockIsEmitting
<1>5. Unsent = <<>> BY <1>1 DEF Unsent
<1>6. Unsent' = es
  <2>1. /\ call'[c].op = op /\ call'[c].keys = ks
        /\ call'[c].deleted = IF op = "deleteAll" THEN ks \cap data ELSE ks
    BY <1>1 DEF WatchInv, WatchTyped
  <2>2. Unsent' = Uttered(c)' BY <1>1, <1>2 DEF Unsent, Uttered
  <2> QED BY <1>2, <2>1, <2>2 DEF Uttered, Emitted, Ops
<1>7. ASSUME NEW h \in watchers
      PROVE  seen[h] <= Len(log') /\ stream[h] \o es = SubSeq(log', seen[h] + 1, Len(log'))
  <2>1. seen[h] \in Nat /\ seen[h] <= Len(log) /\ stream[h] \in Seq(Events)
    BY DEF WatchInv, WatchTyped
  <2>2. stream[h] = SubSeq(log, seen[h] + 1, Len(log))
    BY <1>5, <2>1, ConcatEmptySeq DEF WatchInv, EventsFollowCommits
  <2>3. Len(log) \in Nat /\ Len(es) \in Nat /\ Len(log') = Len(log) + Len(es)
    BY <1>1, <1>2, ConcatProperties, LenProperties
  <2>4. seen[h] + 1 \in 1..(Len(log) + 1) BY <2>1, <2>3
  <2>5. SubSeq(log \o es, seen[h] + 1, Len(log \o es)) = SubSeq(log, seen[h] + 1, Len(log)) \o es
    BY <1>2, <2>4, TailGrows
  <2>6. SubSeq(log', seen[h] + 1, Len(log')) = stream[h] \o es
    BY <1>1, <2>2, <2>5
  <2>7. seen[h] <= Len(log')
    <3>1. \A a, b, d \in Nat : a <= b => a <= b + d OBVIOUS
    <3> QED BY <2>1, <2>3, <3>1
  <2> QED BY <2>6, <2>7
<1> QED BY <1>1, <1>3, <1>4, <1>6, <1>7
        DEF WatchInv, StreamsStartEmpty, EventsFollowCommits

\* Every watcher is sent what the commit left unsent.
LEMMA EmitWatch ==
  ASSUME WatchInv, NEW c \in Calls, Emit(c)
  PROVE  WatchInv'
<1>1. /\ call[c].pc = "emit" /\ lock' = None
      /\ stream' = [h \in Handles |-> IF h \in watchers THEN stream[h] \o Uttered(c)
                                      ELSE stream[h]]
      /\ call' = Answered(c)
      /\ UNCHANGED <<data, log, watchers, stage, seen>>
  BY DEF Emit, EmitTo
<1>2. lock = c /\ c # None /\ Uttered(c) \in Seq(Events)
  BY <1>1, UtteredListed, WatchAssumption DEF WatchInv, LockIsEmitting
<1>3. stream' \in [Handles -> Seq(Events)]
  BY <1>1, <1>2, ConcatProperties DEF WatchInv, WatchTyped
<1>4. WatchTyped'
  BY <1>1, <1>3 DEF WatchInv, WatchTyped, Answered, NoCall, Ops
<1>5. LockIsEmitting'
  <2>1. ASSUME NEW d \in Calls PROVE call'[d].pc # "emit" /\ d # None
    BY <1>1, <1>2, WatchAssumption DEF WatchInv, WatchTyped, LockIsEmitting, Answered, NoCall
  <2> QED BY <1>1, <2>1 DEF LockIsEmitting
<1>6. StreamsStartEmpty'
  BY <1>1 DEF WatchInv, StreamsStartEmpty
<1>7. EventsFollowCommits'
  <2>1. Unsent = Uttered(c) /\ Unsent' = <<>> BY <1>1, <1>2 DEF Unsent
  <2>2. ASSUME NEW h \in watchers
        PROVE  stream'[h] \o <<>> = SubSeq(log, seen[h] + 1, Len(log))
    <3>1. h \in Handles BY DEF WatchInv, WatchTyped
    <3>2. stream'[h] = stream[h] \o Uttered(c) BY <1>1, <3>1
    <3>3. stream'[h] \o <<>> = stream'[h] BY <1>3, <3>1, ConcatEmptySeq
    <3> QED BY <2>1, <3>2, <3>3 DEF WatchInv, EventsFollowCommits
  <2> QED BY <1>1, <2>1, <2>2 DEF EventsFollowCommits
<1> QED BY <1>1, <1>4, <1>5, <1>6, <1>7 DEF WatchInv

-----------------------------------------------------------------------------
(* Handles.                                                                *)

\* A handle moves on; its stream and its sink stay as they are.
LEMMA StageWatch ==
  ASSUME WatchInv, NEW h \in Handles, NEW s \in Stages, stage' = [stage EXCEPT ![h] = s],
         s \in {"closed", "opened"} => stream[h] = <<>>,
         s \in {"closed", "opened", "unwatched"} => h \notin watchers,
         UNCHANGED <<data, lock, call, log, watchers, stream, seen>>
  PROVE  WatchInv'
<1>1. WatchTyped' BY DEF WatchInv, WatchTyped
<1>2. Unsent' = Unsent BY UnsentSame DEF WatchInv, WatchTyped
<1>3. StreamsStartEmpty' BY DEF WatchInv, WatchTyped, StreamsStartEmpty
<1> QED BY <1>1, <1>2, <1>3 DEF WatchInv, LockIsEmitting, EventsFollowCommits

LEMMA MoveWatch ==
  ASSUME WatchInv, NEW h \in Handles,
         OpenBox(h) \/ ReadKeys(h) \/ Hydrate(h) \/ StartClose(h)
  PROVE  WatchInv'
<1>1. CASE OpenBox(h)
  BY <1>1, StageWatch DEF OpenBox, Reach, WatchInv, StreamsStartEmpty, Stages
<1>2. CASE ReadKeys(h)
  BY <1>2, StageWatch DEF ReadKeys, Reach, Stages, WatchInv, WatchTyped
<1>3. CASE Hydrate(h)
  BY <1>3, StageWatch DEF Hydrate, Reach, Stages, WatchInv, WatchTyped
<1>4. CASE StartClose(h)
  BY <1>4, StageWatch DEF StartClose, Reach, Stages, WatchInv, WatchTyped, StreamsStartEmpty
<1> QED BY <1>1, <1>2, <1>3, <1>4

LEMMA RegisterWatch ==
  ASSUME WatchInv, NEW h \in Handles, Watch(h)
  PROVE  WatchInv'
<1>1. /\ stage[h] = "opened" /\ lock = None /\ watchers' = watchers \cup {h}
      /\ seen' = [seen EXCEPT ![h] = Len(log)] /\ stage' = [stage EXCEPT ![h] = "watching"]
      /\ UNCHANGED <<data, lock, call, log, stream>>
  BY DEF Watch, Reach
<1>2. Len(log) \in Nat BY LenProperties DEF WatchInv, WatchTyped
<1>3. WatchTyped' BY <1>1, <1>2 DEF WatchInv, WatchTyped, Stages
<1>4. StreamsStartEmpty' BY <1>1 DEF WatchInv, WatchTyped, StreamsStartEmpty
<1>5. Unsent = <<>> /\ Unsent' = <<>> BY <1>1 DEF Unsent
<1>6. ASSUME NEW u \in watchers'
      PROVE  seen'[u] <= Len(log) /\ stream[u] \o <<>> = SubSeq(log, seen'[u] + 1, Len(log))
  <2>1. CASE u = h
    <3>1. seen'[u] = Len(log) BY <1>1, <2>1 DEF WatchInv, WatchTyped
    <3>2. stream[u] = <<>> BY <1>1, <2>1 DEF WatchInv, StreamsStartEmpty
    <3>3. SubSeq(log, Len(log) + 1, Len(log)) = <<>> BY <1>2, SubSeqEmpty
    <3>4. <<>> \o <<>> = <<>> BY ConcatEmptySeq, EmptySeq
    <3> QED BY <1>2, <3>1, <3>2, <3>3, <3>4
  <2>2. CASE u # h
    <3>1. u \in watchers /\ seen'[u] = seen[u] BY <1>1, <2>2 DEF WatchInv, WatchTyped
    <3> QED BY <1>5, <3>1 DEF WatchInv, EventsFollowCommits
  <2> QED BY <2>1, <2>2
<1> QED BY <1>1, <1>3, <1>4, <1>5, <1>6 DEF WatchInv, LockIsEmitting, EventsFollowCommits

LEMMA DeliverWatch ==
  ASSUME WatchInv, NEW h \in Handles, Deliver(h)
  PROVE  WatchInv'
<1>1. /\ stage[h] \in Stages \ {"closed", "opened"} /\ stream[h] # <<>>
      /\ stream' = [stream EXCEPT ![h] = Tail(stream[h])]
      /\ seen' = [seen EXCEPT ![h] = seen[h] + 1]
      /\ UNCHANGED <<data, lock, call, log, watchers, stage>>
  BY DEF Deliver
<1>2. /\ stream[h] \in Seq(Events) /\ seen[h] \in Nat /\ log \in Seq(Events)
      /\ Tail(stream[h]) \in Seq(Events)
  BY <1>1, HeadTailProperties DEF WatchInv, WatchTyped
<1>3. WatchTyped' BY <1>1, <1>2 DEF WatchInv, WatchTyped
<1>4. StreamsStartEmpty' BY <1>1 DEF WatchInv, WatchTyped, StreamsStartEmpty
<1>5. Unsent' = Unsent BY <1>1, UnsentSame DEF WatchInv, WatchTyped
<1>6. Unsent \in Seq(Events) BY UtteredListed, EmptySeq DEF Unsent, WatchInv, WatchTyped
<1>7. ASSUME NEW u \in watchers
      PROVE  /\ seen'[u] <= Len(log)
             /\ stream'[u] \o Unsent = SubSeq(log, seen'[u] + 1, Len(log))
  <2>1. CASE u = h
    <3>1. Len(log) \in Nat /\ seen[h] <= Len(log) BY <1>2, <2>1, LenProperties DEF WatchInv
    <3>2. seen[h] + 1 \in 1..(Len(log) + 1) BY <1>2, <3>1
    <3>3. stream[h] \o Unsent = SubSeq(log, seen[h] + 1, Len(log))
      BY <2>1 DEF WatchInv, EventsFollowCommits
    <3>4. /\ seen[h] + 1 <= Len(log)
          /\ Tail(stream[h]) \o Unsent = SubSeq(log, (seen[h] + 1) + 1, Len(log))
      BY <1>1, <1>2, <1>6, <3>2, <3>3, HeadTaken
    <3>5. seen'[u] = seen[h] + 1 /\ stream'[u] = Tail(stream[h])
      BY <1>1, <2>1 DEF WatchInv, WatchTyped
    <3> QED BY <3>4, <3>5
  <2>2. CASE u # h
    <3>1. seen'[u] = seen[u] /\ stream'[u] = stream[u]
      BY <1>1, <2>2 DEF WatchInv, WatchTyped
    <3> QED BY <3>1 DEF WatchInv, EventsFollowCommits
  <2> QED BY <2>1, <2>2
<1> QED BY <1>1, <1>3, <1>4, <1>5, <1>7 DEF WatchInv, LockIsEmitting, EventsFollowCommits

LEMMA LeaveWatch ==
  ASSUME WatchInv, NEW h \in Handles, Unwatch(h) \/ CloseBox(h)
  PROVE  WatchInv'
<1>1. /\ watchers' \subseteq watchers /\ h \notin watchers'
      /\ \A u \in Handles \ {h} : stream'[u] = stream[u] /\ seen'[u] = seen[u]
                                  /\ stage'[u] = stage[u]
      /\ UNCHANGED <<data, lock, call, log>>
  BY DEF Unwatch, CloseBox, Reach, WatchInv, WatchTyped, StreamsStartEmpty
<1>2. stage'[h] = "unwatched" \/ (stage'[h] = "closed" /\ stream'[h] = <<>>)
  BY DEF Unwatch, CloseBox, Reach, WatchInv, WatchTyped
<1>3. WatchTyped'
  <2>1. CASE Unwatch(h)
    BY <2>1 DEF Unwatch, Reach, WatchInv, WatchTyped, Stages
  <2>2. CASE CloseBox(h)
    BY <2>2, EmptySeq DEF CloseBox, Reach, WatchInv, WatchTyped, Stages
  <2> QED BY <2>1, <2>2
<1>4. Unsent' = Unsent BY <1>1, UnsentSame DEF WatchInv, WatchTyped
<1>5. StreamsStartEmpty'
  <2> SUFFICES ASSUME NEW u \in Handles
               PROVE  /\ stage'[u] \in {"closed", "opened"} => stream'[u] = <<>>
                      /\ stage'[u] \in {"closed", "opened", "unwatched"} => u \notin watchers'
    BY DEF StreamsStartEmpty
  <2>1. CASE u = h BY <1>1, <1>2, <2>1
  <2>2. CASE u # h BY <1>1, <2>2 DEF WatchInv, StreamsStartEmpty
  <2> QED BY <2>1, <2>2
<1>6. ASSUME NEW u \in watchers'
      PROVE  u \in watchers /\ seen'[u] = seen[u] /\ stream'[u] = stream[u]
  BY <1>1 DEF WatchInv, WatchTyped
<1> QED BY <1>1, <1>3, <1>4, <1>5, <1>6 DEF WatchInv, LockIsEmitting, EventsFollowCommits

-----------------------------------------------------------------------------
(* The box goes, or the isolate does.                                      *)

LEMMA GoneWatch ==
  ASSUME WatchInv, DeleteBox \/ IsolateDies
  PROVE  WatchInv'
<1>1. watchers' = {} /\ UNCHANGED <<lock, log>> BY DEF DeleteBox, IsolateDies
<1>2. WatchTyped'
  <2>1. call' \in [Calls -> [pc : {"idle", "sent", "emit", "reply"}, op : Ops,
                             keys : SUBSET Keys, deleted : SUBSET Keys]]
    BY DEF DeleteBox, IsolateDies, WatchInv, WatchTyped, NoCall, Ops
  <2>2. CASE DeleteBox BY <2>1, <2>2 DEF DeleteBox, WatchInv, WatchTyped
  <2>3. CASE IsolateDies
    BY <2>1, <2>3, EmptySeq DEF IsolateDies, WatchInv, WatchTyped, Stages
  <2> QED BY <2>2, <2>3
<1>3. \A c \in Calls : call'[c].pc = "emit" <=> call[c].pc = "emit"
  BY DEF DeleteBox, IsolateDies, NoCall
<1>4. StreamsStartEmpty'
  BY <1>1 DEF DeleteBox, IsolateDies, WatchInv, StreamsStartEmpty
<1> QED BY <1>1, <1>2, <1>3, <1>4 DEF WatchInv, LockIsEmitting, EventsFollowCommits

LEMMA WatchInvariance == WatchInv /\ [Next]_vars => WatchInv'
<1> SUFFICES ASSUME WatchInv, [Next]_vars PROVE WatchInv' OBVIOUS
<1>1. ASSUME NEW c \in Calls, NEW op \in Ops, NEW ks \in SUBSET Keys, Send(c, op, ks)
      PROVE  WatchInv'
  BY <1>1, SendWatch
<1>2. ASSUME NEW c \in Calls, CallStep(c) PROVE WatchInv'
  BY <1>2, CommitWatch, EmitWatch, FailWatch DEF CallStep
<1>3. ASSUME NEW h \in Handles, HandleStep(h) PROVE WatchInv'
  BY <1>3, MoveWatch, RegisterWatch, DeliverWatch, LeaveWatch DEF HandleStep
<1>4. CASE UNCHANGED vars
  <2>1. UNCHANGED <<data, lock, call, log, watchers, stage, stream, seen>>
    BY <1>4 DEF vars, handleVars
  <2>2. Unsent' = Unsent BY <2>1, UnsentSame DEF WatchInv, WatchTyped
  <2> QED BY <2>1, <2>2 DEF WatchInv, WatchTyped, LockIsEmitting, StreamsStartEmpty,
                            EventsFollowCommits
<1> QED BY <1>1, <1>2, <1>3, <1>4, GoneWatch DEF Next

\* A watcher gets the events of the commits made since it registered, each once
\* and in commit order, whoever else watches, leaves or dies
\* (api.rs:87-120, 154-190; core.rs:111-212).
THEOREM EventsAlwaysFollowCommits == Spec => []EventsFollowCommits
<1>1. WatchInv => EventsFollowCommits BY DEF WatchInv
<1> QED BY <1>1, InitWatch, WatchInvariance, PTL DEF Spec

-----------------------------------------------------------------------------
(* Replayed events.                                                        *)

\* A nonempty set of positions has a last one.
LEMMA LastPosition ==
  ASSUME NEW N \in Nat
  PROVE  \A s \in (SUBSET (1..N)) \ {{}} : Max(s) \in s /\ \A i \in s : i <= Max(s)
<1> DEFINE Q == {s \in SUBSET (1..N) : s # {} => \E m \in s : \A i \in s : i <= m}
<1>1. {} \in Q OBVIOUS
<1>2. ASSUME NEW s \in (SUBSET (1..N)) \ {{}}, NEW x \in s, s \ {x} \in Q PROVE s \in Q
  <2>1. CASE s \ {x} = {}
    <3>1. \A i \in s : i <= x BY <2>1
    <3> QED BY <3>1
  <2>2. CASE s \ {x} # {}
    <3>1. PICK m \in s \ {x} : \A i \in s \ {x} : i <= m BY <1>2, <2>2
    <3>2. CASE x <= m
      <4>1. \A i \in s : i <= m BY <3>1, <3>2
      <4> QED BY <4>1
    <3>3. CASE ~(x <= m)
      <4>1. \A i \in s : i <= x BY <3>1, <3>3
      <4> QED BY <4>1
    <3> QED BY <3>2, <3>3
  <2> QED BY <2>1, <2>2
<1>3. SUBSET (1..N) \subseteq Q
  <2> HIDE DEF Q
  <2>1. Inherits(1..N, Q) BY <1>2 DEF Inherits
  <2>2. IsFiniteSet(1..N) BY FS_Interval
  <2> QED BY <1>1, <2>1, <2>2, SubsetInduction
<1>4. ASSUME NEW s \in (SUBSET (1..N)) \ {{}} PROVE Max(s) \in s /\ \A i \in s : i <= Max(s)
  <2>1. \E m \in s : \A i \in s : m >= i BY <1>3
  <2>2. Max(s) \in s /\ \A i \in s : Max(s) >= i BY <2>1 DEF Max
  <2> QED BY <2>2
<1> QED BY <1>4

LEMMA ApplyTyped ==
  ASSUME NEW ks \in SUBSET Keys, NEW e \in Events
  PROVE  Apply(ks, e) \in SUBSET Keys
BY DEF Apply, Events, Event

\* The fold of refreshMetadata, as a function on the positions that are applied.
LEMMA ReplayUnfolds ==
  ASSUME NEW ks \in SUBSET Keys, NEW es \in Seq(Events)
  PROVE  \E f \in [SUBSET (1..Len(es)) -> SUBSET Keys] :
           /\ Replay(ks, es) = f[1..Len(es)]
           /\ \A s \in SUBSET (1..Len(es)) :
                f[s] = IF s = {} THEN ks ELSE Apply(f[s \ {Max(s)}], es[Max(s)])
<1> DEFINE D == 1..Len(es)
           IsReplay(f) == f = [s \in SUBSET D |->
                                 IF s = {} THEN ks ELSE Apply(f[s \ {Max(s)}], es[Max(s)])]
           replay == CHOOSE f : IsReplay(f)
<1>0. Len(es) \in Nat /\ DOMAIN es = D /\ \A s \in (SUBSET D) \ {{}} : Max(s) \in s
  <2>1. Len(es) \in Nat /\ DOMAIN es = D OBVIOUS
  <2> HIDE DEF D
  <2>2. \A s \in (SUBSET (1..Len(es))) \ {{}} : Max(s) \in s BY <2>1, LastPosition
  <2> QED BY <2>1, <2>2 DEF D
<1>1. Replay(ks, es) = replay[D]
  BY <1>0 DEF Replay, FoldLeft, MapThenFoldSet
<1>2. PICK f \in [SUBSET D -> SUBSET Keys] :
        \A s \in SUBSET D : f[s] = IF s = {} THEN ks ELSE Apply(f[s \ {Max(s)}], es[Max(s)])
  <2> DEFINE pick == [s \in (SUBSET D) \ {{}} |-> Max(s)]
             H == [p \in D \X SUBSET Keys |-> Apply(p[2], es[p[1]])]
  <2>1. pick \in Picks(D) BY <1>0 DEF Picks
  <2>2. H \in [D \X SUBSET Keys -> SUBSET Keys]
    <3>1. ASSUME NEW p \in D \X SUBSET Keys PROVE Apply(p[2], es[p[1]]) \in SUBSET Keys
      <4>1. es[p[1]] \in Events /\ p[2] \in SUBSET Keys OBVIOUS
      <4> QED BY <4>1, ApplyTyped
    <3> QED BY <3>1
  <2>3. PICK f \in [SUBSET D -> SUBSET Keys] : IsFold(f, H, ks, pick, D)
    <3>1. IsFiniteSet(D) BY <1>0, FS_Interval
    <3> HIDE DEF H, pick, D
    <3> QED BY <2>1, <2>2, <3>1, FoldExists
  <2>4. ASSUME NEW s \in SUBSET D
        PROVE  f[s] = IF s = {} THEN ks ELSE Apply(f[s \ {Max(s)}], es[Max(s)])
    <3>1. CASE s = {} BY <2>3, <3>1 DEF IsFold
    <3>2. CASE s # {}
      <4>1. pick[s] = Max(s) /\ Max(s) \in D /\ f[s \ {Max(s)}] \in SUBSET Keys BY <1>0, <3>2
      <4>2. f[s] = H[<<pick[s], f[s \ {pick[s]}]>>] BY <2>3, <3>2 DEF IsFold
      <4>3. H[<<Max(s), f[s \ {Max(s)}]>>] = Apply(f[s \ {Max(s)}], es[Max(s)]) BY <4>1
      <4> HIDE DEF H, pick
      <4> QED BY <3>2, <4>1, <4>2, <4>3
    <3> QED BY <3>1, <3>2
  <2> QED BY <2>4
<1>3. IsReplay(f) BY <1>2
<1>4. IsReplay(replay) BY <1>3
<1>5. \A s \in SUBSET D : replay[s] = IF s = {} THEN ks ELSE Apply(replay[s \ {Max(s)}], es[Max(s)])
  BY <1>4
<1>6. replay = [s \in SUBSET D |-> replay[s]] BY <1>4
<1> HIDE DEF replay, IsReplay
<1>7. \A s \in SUBSET D : replay[s] \in SUBSET Keys
  <2> DEFINE Q == {s \in SUBSET D : replay[s] \in SUBSET Keys}
  <2>1. {} \in Q BY <1>5
  <2>2. ASSUME NEW s \in (SUBSET D) \ {{}}, s \ {Max(s)} \in Q PROVE s \in Q
    <3>1. replay[s] = Apply(replay[s \ {Max(s)}], es[Max(s)]) BY <1>5
    <3>2. Max(s) \in 1..Len(es) BY <1>0
    <3>3. es[Max(s)] \in Events BY <3>2, ElementOfSeq
    <3>4. replay[s \ {Max(s)}] \in SUBSET Keys BY <2>2
    <3>5. replay[s] \in SUBSET Keys BY <3>1, <3>3, <3>4, ApplyTyped
    <3> QED BY <3>5
  <2>3. SUBSET D \subseteq Q
    <3>1. IsFiniteSet(D) BY <1>0, FS_Interval
    <3> HIDE DEF Q, D
    <3>2. Inherits(D, Q) BY <1>0, <2>2 DEF Inherits
    <3> QED BY <2>1, <3>1, <3>2, SubsetInduction
  <2> QED BY <2>3
<1>8. replay \in [SUBSET D -> SUBSET Keys] BY <1>6, <1>7
<1> QED BY <1>1, <1>5, <1>8

\* What an event does to a key, and a sequence of n events.
Sets(e, k)    == e.type = "put" /\ e.key = k
Touches(e, k) == e.type = "clear" \/ e.key = k
Untouched(es, k, n) == \A i \in 1..n : ~Touches(es[i], k)
LastSets(es, k, n) ==
  \E i \in 1..n : Sets(es[i], k) /\ \A j \in 1..n : i < j => ~Touches(es[j], k)
After(ks, es, k, n) == LastSets(es, k, n) \/ (k \in ks /\ Untouched(es, k, n))

LEMMA ApplyIs ==
  ASSUME NEW ks \in SUBSET Keys, NEW e \in Events, NEW k \in Keys
  PROVE  k \in Apply(ks, e) <=> Sets(e, k) \/ (k \in ks /\ ~Touches(e, k))
BY WatchAssumption DEF Apply, Events, Event, Sets, Touches

LEMMA OneMore ==
  ASSUME NEW ks, NEW es, NEW k, NEW n \in Nat
  PROVE  After(ks, es, k, n + 1)
           <=> Sets(es[n + 1], k) \/ (After(ks, es, k, n) /\ ~Touches(es[n + 1], k))
<1>1. \A i \in 1..(n + 1) : i = n + 1 \/ i \in 1..n OBVIOUS
<1>2. n + 1 \in 1..(n + 1) /\ \A i \in 1..n : i \in 1..(n + 1) /\ i < n + 1 OBVIOUS
<1>3. \A i \in 1..(n + 1) : ~(n + 1 < i) OBVIOUS
<1>4. Untouched(es, k, n + 1) <=> Untouched(es, k, n) /\ ~Touches(es[n + 1], k)
  BY <1>1, <1>2 DEF Untouched
<1>5. LastSets(es, k, n + 1) <=> Sets(es[n + 1], k) \/ (LastSets(es, k, n) /\ ~Touches(es[n + 1], k))
  <2>1. ASSUME LastSets(es, k, n + 1), ~Sets(es[n + 1], k)
        PROVE  LastSets(es, k, n) /\ ~Touches(es[n + 1], k)
    BY <1>1, <1>2, <2>1, Zenon DEF LastSets
  <2>2. ASSUME LastSets(es, k, n), ~Touches(es[n + 1], k) PROVE LastSets(es, k, n + 1)
    BY <1>1, <1>2, <2>2, Zenon DEF LastSets
  <2>3. ASSUME Sets(es[n + 1], k) PROVE LastSets(es, k, n + 1)
    BY <1>2, <1>3, <2>3, Zenon DEF LastSets
  <2> QED BY <2>1, <2>2, <2>3
<1> QED BY <1>4, <1>5 DEF After

\* A key is there when the last event about it puts it, or there is none and it was.
LEMMA ReplayIs ==
  ASSUME NEW ks \in SUBSET Keys, NEW es \in Seq(Events)
  PROVE  /\ Replay(ks, es) \in SUBSET Keys
         /\ \A k \in Keys : k \in Replay(ks, es) <=> After(ks, es, k, Len(es))
<1> DEFINE D == 1..Len(es)
<1>1. PICK f \in [SUBSET D -> SUBSET Keys] :
           /\ Replay(ks, es) = f[D]
           /\ \A s \in SUBSET D : f[s] = IF s = {} THEN ks ELSE Apply(f[s \ {Max(s)}], es[Max(s)])
  BY ReplayUnfolds
<1> DEFINE P == {n \in Nat : n <= Len(es) => \A k \in Keys : k \in f[1..n] <=> After(ks, es, k, n)}
<1>2. 0 \in P
  <2>1. f[1..0] = ks
    <3>1. 1..0 = {} /\ {} \in SUBSET D OBVIOUS
    <3> HIDE DEF D
    <3> QED BY <1>1, <3>1
  <2>2. \A k : After(ks, es, k, 0) <=> k \in ks BY DEF After, LastSets, Untouched
  <2> QED BY <2>1, <2>2
<1>3. ASSUME NEW n \in Nat, n \in P PROVE n + 1 \in P
  <2> SUFFICES ASSUME n + 1 <= Len(es), NEW k \in Keys
               PROVE  k \in f[1..(n + 1)] <=> After(ks, es, k, n + 1)
    OBVIOUS
  <2> DEFINE s == 1..(n + 1)
  <2>0. Len(es) \in Nat OBVIOUS
  <2>1. s \in SUBSET D /\ s # {} /\ n + 1 \in s BY <2>0
  <2>2. Max(s) = n + 1
    <3>1. Max(s) \in s /\ \A i \in s : i <= Max(s)
      <4> HIDE DEF s, D
      <4> QED BY <2>0, <2>1, LastPosition DEF D
    <3> QED BY <2>1, <3>1
  <2>3. s \ {Max(s)} = 1..n BY <2>2
  <2>4. f[s] = Apply(f[1..n], es[n + 1])
    <3> HIDE DEF s, D
    <3> QED BY <1>1, <2>1, <2>2, <2>3
  <2>5. es[n + 1] \in Events /\ f[1..n] \in SUBSET Keys
    <3>1. 1..n \in SUBSET D /\ n + 1 \in 1..Len(es) BY <2>0
    <3> QED BY <3>1, ElementOfSeq
  <2>6. k \in f[1..n] <=> After(ks, es, k, n) BY <1>3, <2>0
  <2> HIDE DEF P
  <2> QED BY <2>4, <2>5, <2>6, ApplyIs, OneMore
<1>4. Len(es) \in Nat OBVIOUS
<1>5. Nat \subseteq P
  <2> HIDE DEF P
  <2> QED BY <1>2, <1>3, NaturalInduction
<1>6. f[D] \in SUBSET Keys /\ \A k \in Keys : k \in f[D] <=> After(ks, es, k, Len(es))
  BY <1>4, <1>5
<1> QED BY <1>1, <1>6

LEMMA ReplayNone ==
  ASSUME NEW ks \in SUBSET Keys
  PROVE  Replay(ks, <<>>) = ks
<1>1. <<>> \in Seq(Events) /\ Len(<<>>) = 0 BY EmptySeq
<1>2. \A k : After(ks, <<>>, k, 0) <=> k \in ks BY DEF After, LastSets, Untouched
<1> QED BY <1>1, <1>2, ReplayIs

\* Events that have led somewhere lead nowhere else from there.
LEMMA ReplayAgain ==
  ASSUME NEW ks \in SUBSET Keys, NEW es \in Seq(Events)
  PROVE  Replay(Replay(ks, es), es) = Replay(ks, es)
<1> DEFINE R == Replay(ks, es)
           n == Len(es)
<1>1. R \in SUBSET Keys /\ \A k \in Keys : k \in R <=> After(ks, es, k, n)
  BY ReplayIs
<1>2. Replay(R, es) \in SUBSET Keys /\ \A k \in Keys : k \in Replay(R, es) <=> After(R, es, k, n)
  BY <1>1, ReplayIs
<1> HIDE DEF R, n
<1>3. \A k \in Keys : After(R, es, k, n) <=> After(ks, es, k, n)
  BY <1>1 DEF After
<1>4. Replay(R, es) = R BY <1>1, <1>2, <1>3
<1> QED BY <1>4 DEF R

LEMMA ReplayConcat ==
  ASSUME NEW ks \in SUBSET Keys, NEW es \in Seq(Events), NEW t \in Seq(Events)
  PROVE  Replay(ks, es \o t) = Replay(Replay(ks, es), t)
<1>1. /\ es \o t \in Seq(Events) /\ Len(es) \in Nat /\ Len(t) \in Nat
      /\ Len(es \o t) = Len(es) + Len(t)
      /\ \A i \in 1..Len(es) : (es \o t)[i] = es[i]
      /\ \A i \in 1..Len(t) : (es \o t)[Len(es) + i] = t[i]
  BY ConcatProperties, LenProperties
<1> DEFINE R == Replay(ks, es)
<1>2. PICK m, u : m = Len(es) /\ u = es \o t OBVIOUS
<1>3. m \in Nat /\ \A i \in 1..m : u[i] = es[i] BY <1>1, <1>2
<1>4. R \in SUBSET Keys /\ \A k \in Keys : k \in R <=> After(ks, u, k, m)
  <2>1. R \in SUBSET Keys /\ \A k \in Keys : k \in R <=> After(ks, es, k, m)
    BY <1>2, ReplayIs
  <2>2. \A k : After(ks, es, k, m) <=> After(ks, u, k, m)
    BY <1>3 DEF After, LastSets, Untouched
  <2> QED BY <2>1, <2>2
<1> HIDE DEF R
<1> DEFINE P == {n \in Nat : n <= Len(t) =>
                   \A k \in Keys : After(ks, u, k, m + n) <=> After(R, t, k, n)}
<1>5. 0 \in P
  <2>1. \A k : After(R, t, k, 0) <=> k \in R BY DEF After, LastSets, Untouched
  <2>2. m + 0 = m BY <1>3
  <2> QED BY <1>4, <2>1, <2>2
<1>6. ASSUME NEW n \in Nat, n \in P PROVE n + 1 \in P
  <2> SUFFICES ASSUME n + 1 <= Len(t), NEW k \in Keys
               PROVE  After(ks, u, k, m + (n + 1)) <=> After(R, t, k, n + 1)
    OBVIOUS
  <2>1. After(ks, u, k, m + n) <=> After(R, t, k, n) BY <1>1, <1>6
  <2>2. m + n \in Nat /\ m + (n + 1) = (m + n) + 1 BY <1>3
  <2>3. u[(m + n) + 1] = t[n + 1]
    <3>1. n + 1 \in 1..Len(t) BY <1>1
    <3>2. u[m + (n + 1)] = t[n + 1] BY <1>1, <1>2, <3>1
    <3> QED BY <2>2, <3>2
  <2> HIDE DEF P
  <2>4. After(ks, u, k, (m + n) + 1)
          <=> Sets(u[(m + n) + 1], k) \/ (After(ks, u, k, m + n) /\ ~Touches(u[(m + n) + 1], k))
    BY <2>2, OneMore
  <2>5. After(R, t, k, n + 1) <=> Sets(t[n + 1], k) \/ (After(R, t, k, n) /\ ~Touches(t[n + 1], k))
    BY OneMore
  <2> QED BY <2>1, <2>2, <2>3, <2>4, <2>5
<1>7. Nat \subseteq P
  <2> HIDE DEF P
  <2> QED BY <1>5, <1>6, NaturalInduction
<1>8. \A k \in Keys : After(ks, u, k, m + Len(t)) <=> After(R, t, k, Len(t))
  BY <1>1, <1>7
<1>9. Replay(R, t) \in SUBSET Keys /\ \A k \in Keys : k \in Replay(R, t) <=> After(R, t, k, Len(t))
  BY <1>4, ReplayIs
<1>10. Replay(ks, u) \in SUBSET Keys /\ \A k \in Keys : k \in Replay(ks, u) <=> After(ks, u, k, m + Len(t))
  BY <1>1, <1>2, ReplayIs
<1>11. Replay(ks, u) = Replay(R, t) BY <1>8, <1>9, <1>10
<1> QED BY <1>2, <1>11 DEF R

\* The events of a commit lead from the keys before it to the keys after it.
LEMMA ReplayCommit ==
  ASSUME data \in SUBSET Keys, NEW op \in Ops, NEW ks \in SUBSET Keys
  PROVE  Replay(data, Emitted(op, ks)) = Stored(op, ks)
<1>1. ASSUME NEW type \in {"put", "delete"}, NEW S \in SUBSET Keys
      PROVE  Replay(data, EventsOf(type, S)) = IF type = "put" THEN data \cup S ELSE data \ S
  <2>1. PICK es : es = EventsOf(type, S) OBVIOUS
  <2>2. es \in Seq(Events) BY <2>1, EventsListed
  <2>3. PICK n : n = Len(es) OBVIOUS
  <2>4. n \in Nat /\ DOMAIN es = 1..n BY <2>2, <2>3
  <2>5. /\ \A i \in 1..n : es[i].type = type /\ es[i].key \in S
        /\ \A k \in S : \E i \in 1..n : es[i].key = k /\ \A j \in 1..n : es[j].key = k => j = i
    <3>1. IsFiniteSet(S) BY WatchAssumption, FS_Subset
    <3>2. /\ SetToSeq(S) \in Seq(S) /\ \A k \in S : \E i \in DOMAIN SetToSeq(S) : SetToSeq(S)[i] = k
          /\ \A i, j \in DOMAIN SetToSeq(S) : SetToSeq(S)[i] = SetToSeq(S)[j] => i = j
      BY <3>1, ListedOnce
    <3>3. PICK s : s = SetToSeq(S) OBVIOUS
    <3>4. es = [i \in DOMAIN s |-> Event(type, s[i])] BY <2>1, <3>3 DEF EventsOf
    <3>5. DOMAIN s = 1..n BY <2>4, <3>4
    <3>6. \A i \in 1..n : es[i].type = type /\ es[i].key = s[i] BY <3>4, <3>5 DEF Event
    <3>7. s \in Seq(S) BY <3>2, <3>3
    <3>7a. n = Len(s) BY <2>4, <3>5, <3>7
    <3>8. \A i \in 1..n : s[i] \in S BY <3>7, <3>7a, ElementOfSeq
    <3>9. /\ \A k \in S : \E i \in 1..n : s[i] = k
          /\ \A i, j \in 1..n : s[i] = s[j] => i = j
      BY <3>2, <3>3, <3>5
    <3> QED BY <3>6, <3>8, <3>9
  <2>6. ASSUME NEW k \in Keys
        PROVE  /\ Untouched(es, k, n) <=> k \notin S
               /\ LastSets(es, k, n) <=> k \in S /\ type = "put"
    <3>1. \A i \in 1..n : /\ Touches(es[i], k) <=> es[i].key = k
                          /\ Sets(es[i], k) <=> type = "put" /\ es[i].key = k
      BY <2>5 DEF Touches, Sets
    <3>2. Untouched(es, k, n) <=> k \notin S BY <2>5, <3>1 DEF Untouched
    <3>3. LastSets(es, k, n) => k \in S /\ type = "put" BY <2>5, <3>1 DEF LastSets
    <3>4. ASSUME k \in S, type = "put" PROVE LastSets(es, k, n)
      <4>1. PICK i \in 1..n : es[i].key = k /\ \A j \in 1..n : es[j].key = k => j = i
        BY <2>5, <3>4
      <4>2. Sets(es[i], k) BY <3>1, <3>4, <4>1
      <4>3. \A j \in 1..n : i < j => j # i BY <2>4
      <4>4. \A j \in 1..n : i < j => ~Touches(es[j], k) BY <3>1, <4>1, <4>3
      <4> QED BY <4>2, <4>4 DEF LastSets
    <3> QED BY <3>2, <3>3, <3>4
  <2>7. Replay(data, es) \in SUBSET Keys /\ \A k \in Keys : k \in Replay(data, es) <=> After(data, es, k, n)
    BY <2>2, <2>3, ReplayIs
  <2>8. \A k \in Keys : After(data, es, k, n) <=> (k \in S /\ type = "put") \/ (k \in data /\ k \notin S)
    BY <2>6 DEF After
  <2>9. Replay(data, es) = IF type = "put" THEN data \cup S ELSE data \ S
    BY <2>7, <2>8
  <2> QED BY <2>1, <2>9
<1>2. Replay(data, <<Event("clear", None)>>) = {}
  <2>1. PICK es : es = <<Event("clear", None)>> OBVIOUS
  <2>2. es \in Seq(Events) /\ Len(es) = 1 /\ es[1].type = "clear" BY <2>1 DEF Events, Event
  <2>3. ASSUME NEW k \in Keys PROVE ~After(data, es, k, 1)
    <3>1. Touches(es[1], k) /\ ~Sets(es[1], k) BY <2>2 DEF Touches, Sets
    <3>2. 1..1 = {1} OBVIOUS
    <3> QED BY <3>1, <3>2 DEF After, LastSets, Untouched
  <2>4. Replay(data, es) = {} BY <2>2, <2>3, ReplayIs
  <2> QED BY <2>1, <2>4
<1>3. CASE op = "put" BY <1>1, <1>3 DEF Emitted, Stored
<1>4. CASE op = "delete" BY <1>1, <1>4 DEF Emitted, Stored
<1>5. CASE op = "deleteAll"
  <2>1. ks \cap data \in SUBSET Keys /\ data \ (ks \cap data) = data \ ks OBVIOUS
  <2>2. Emitted(op, ks) = EventsOf("delete", ks \cap data) /\ Stored(op, ks) = data \ ks
    BY <1>5 DEF Emitted, Stored
  <2>3. Replay(data, EventsOf("delete", ks \cap data)) = data \ (ks \cap data)
    <3>1. PICK S : S = ks \cap data OBVIOUS
    <3>2. Replay(data, EventsOf("delete", S)) = data \ S BY <1>1, <2>1, <3>1
    <3> QED BY <3>1, <3>2
  <2> QED BY <2>1, <2>2, <2>3
<1>6. CASE op = "clear" BY <1>2, <1>6 DEF Emitted, Stored
<1> QED BY <1>3, <1>4, <1>5, <1>6 DEF Ops

-----------------------------------------------------------------------------
(* A handle that is not hydrated yet catches up.                           *)

\* CatchUpInv for one handle.
Before(h) ==
  /\ stage[h] \in {"closed", "opened"} => pending[h] = <<>>
  /\ stage[h] \in {"closed", "opened", "watching", "reading"} => h \notin hydrated

Leads(h) ==
  /\ stage[h] = "watching" => \E keys \in SUBSET Keys : Replay(keys, Outstanding(h)) = data
  /\ stage[h] = "reading" => Replay(snapshot[h], Outstanding(h)) = data

CatchUpTyped == snapshot \in [Handles -> SUBSET Keys] /\ pending \in [Handles -> Seq(Events)]

LEMMA CatchUpParts ==
  CatchUpInv <=> /\ CatchUpTyped /\ \A h \in Handles : Before(h)
                 /\ \A h \in watchers : Leads(h)
BY DEF CatchUpInv, CatchUpTyped, Before, Leads, SnapshotCatchesUp

LEMMA CatchUpPartsNext ==
  ASSUME CatchUpTyped', \A h \in Handles : Before(h)', \A h \in watchers' : Leads(h)'
  PROVE  CatchUpInv'
BY DEF CatchUpInv, CatchUpTyped, Before, Leads, SnapshotCatchesUp

LEMMA OutstandingTyped ==
  ASSUME WatchInv, CatchUpInv, NEW h \in Handles
  PROVE  /\ Outstanding(h) \in Seq(Events) /\ Unsent \in Seq(Events)
         /\ pending[h] \in Seq(Events) /\ stream[h] \in Seq(Events)
<1>1. pending[h] \in Seq(Events) /\ stream[h] \in Seq(Events)
  BY DEF CatchUpInv, WatchInv, WatchTyped
<1>2. Unsent \in Seq(Events)
  BY UtteredListed, EmptySeq DEF Unsent, WatchInv, WatchTyped
<1> QED BY <1>1, <1>2, ConcatProperties DEF Outstanding

\* What leads to the keys of the box goes on doing so, after one commit or none.
LEMMA LeadsOn ==
  ASSUME WatchInv, CatchUpInv, NEW h \in watchers, NEW es \in Seq(Events),
         Outstanding(h)' = Outstanding(h) \o es, data' = Replay(data, es),
         stage'[h] = stage[h], snapshot'[h] = snapshot[h]
  PROVE  Leads(h)'
<1>0. h \in Handles BY DEF WatchInv, WatchTyped
<1>1. PICK o, d : o = Outstanding(h) /\ d = data OBVIOUS
<1>2. o \in Seq(Events) /\ d \in SUBSET Keys
  BY <1>0, <1>1, OutstandingTyped DEF WatchInv, WatchTyped
<1>3. Outstanding(h)' = o \o es /\ data' = Replay(d, es) BY <1>1
<1>4. \A keys \in SUBSET Keys : Replay(keys, o) = d => Replay(keys, o \o es) = Replay(d, es)
  BY <1>2, ReplayConcat
<1>5. CASE stage[h] = "watching"
  <2>1. PICK keys \in SUBSET Keys : Replay(keys, o) = d BY <1>1, <1>5 DEF CatchUpInv
  <2> QED BY <1>3, <1>4, <1>5, <2>1 DEF Leads
<1>6. CASE stage[h] = "reading"
  <2>1. snapshot[h] \in SUBSET Keys BY <1>0 DEF CatchUpInv
  <2>2. Replay(snapshot[h], o) = d BY <1>1, <1>6 DEF CatchUpInv, SnapshotCatchesUp
  <2>3. Replay(snapshot'[h], Outstanding(h)') = data' BY <1>3, <1>4, <2>1, <2>2
  <2> QED BY <1>6, <2>3 DEF Leads
<1>7. CASE stage[h] \notin {"watching", "reading"} BY <1>7 DEF Leads
<1> QED BY <1>5, <1>6, <1>7

\* Nothing changes for a handle that keeps all that Leads is about.
LEMMA LeadsStill ==
  ASSUME WatchInv, CatchUpInv, NEW h \in watchers, Outstanding(h)' = Outstanding(h), data' = data,
         stage'[h] = stage[h], snapshot'[h] = snapshot[h]
  PROVE  Leads(h)'
<1>0. h \in Handles BY DEF WatchInv, WatchTyped
<1>1. <<>> \in Seq(Events) BY EmptySeq
<1>2. Outstanding(h) \o <<>> = Outstanding(h)
  <2>1. PICK o : o = Outstanding(h) OBVIOUS
  <2>2. o \in Seq(Events) BY <1>0, <2>1, OutstandingTyped
  <2>3. o \o <<>> = o BY <2>2, ConcatEmptySeq
  <2> QED BY <2>1, <2>3
<1>3. Replay(data, <<>>) = data BY ReplayNone DEF WatchInv, WatchTyped
<1> QED BY <1>1, <1>2, <1>3, LeadsOn

\* Steps that are nothing to the handles.
LEMMA AsideCatchUp ==
  ASSUME WatchInv, CatchUpInv, Unsent' = Unsent,
         UNCHANGED <<data, watchers, stage, stream, pending, snapshot, hydrated>>
  PROVE  CatchUpInv'
<1>1. CatchUpTyped' BY CatchUpParts DEF CatchUpTyped
<1>2. ASSUME NEW h \in Handles PROVE Before(h)' BY CatchUpParts DEF Before
<1>3. ASSUME NEW h \in watchers' PROVE Leads(h)'
  <2>1. Outstanding(h)' = Outstanding(h) BY DEF Outstanding
  <2> QED BY <2>1, LeadsStill
<1> QED BY <1>1, <1>2, <1>3, CatchUpPartsNext

LEMMA CallCatchUp ==
  ASSUME WatchInv, CatchUpInv, NEW c \in Calls,
         Fail(c) \/ Reply(c) \/ \E op \in Ops, ks \in SUBSET Keys : Send(c, op, ks)
  PROVE  CatchUpInv'
<1>1. /\ call[c].pc # "emit" /\ \A d \in Calls \ {c} : call'[d] = call[d]
      /\ UNCHANGED <<data, lock, watchers, stage, stream, pending, snapshot, hydrated>>
  BY DEF Fail, Reply, Send, handleVars, WatchInv, WatchTyped
<1>2. lock # c BY <1>1 DEF WatchInv, LockIsEmitting
<1>3. Unsent' = Unsent BY <1>1, <1>2, UnsentSame DEF WatchInv, WatchTyped
<1> QED BY <1>1, <1>3, AsideCatchUp

LEMMA CommitCatchUp ==
  ASSUME WatchInv, CatchUpInv, NEW c \in Calls, Commit(c)
  PROVE  CatchUpInv'
<1> DEFINE op == call[c].op
           ks == call[c].keys
           es == Emitted(op, ks)
<1>1. /\ lock = None /\ lock' = c /\ data' = Stored(op, ks)
      /\ call' = [call EXCEPT ![c].pc = "emit",
                              ![c].deleted = IF op = "deleteAll" THEN ks \cap data ELSE ks]
      /\ UNCHANGED <<watchers, stage, stream, pending, snapshot, hydrated>>
  BY DEF Commit, handleVars
<1>2. op \in Ops /\ ks \in SUBSET Keys /\ es \in Seq(Events) /\ c # None
  BY UtteredListed, WatchAssumption DEF WatchInv, WatchTyped
<1>3. Unsent = <<>> BY <1>1 DEF Unsent
<1>4. Unsent' = es
  <2>1. /\ call'[c].op = op /\ call'[c].keys = ks
        /\ call'[c].deleted = IF op = "deleteAll" THEN ks \cap data ELSE ks
    BY <1>1 DEF WatchInv, WatchTyped
  <2>2. Unsent' = Uttered(c)' BY <1>1, <1>2 DEF Unsent, Uttered
  <2> QED BY <1>2, <2>1, <2>2 DEF Uttered, Emitted, Ops
<1>5. data' = Replay(data, es)
  <2>1. data \in SUBSET Keys BY DEF WatchInv, WatchTyped
  <2> QED BY <1>1, <1>2, <2>1, ReplayCommit
<1> HIDE DEF op, ks, es
<1>6. CatchUpTyped' BY <1>1, CatchUpParts DEF CatchUpTyped
<1>7. ASSUME NEW h \in Handles PROVE Before(h)' BY <1>1, CatchUpParts DEF Before
<1>8. ASSUME NEW h \in watchers' PROVE Leads(h)'
  <2>1. h \in watchers /\ h \in Handles BY <1>1 DEF WatchInv, WatchTyped
  <2>2. PICK p : p = pending[h] \o stream[h] OBVIOUS
  <2>3. p \in Seq(Events) BY <2>1, <2>2, OutstandingTyped, ConcatProperties
  <2>4. Outstanding(h) = p
    <3>1. p \o <<>> = p BY <2>3, ConcatEmptySeq
    <3> QED BY <1>3, <2>2, <3>1 DEF Outstanding
  <2>5. Outstanding(h)' = p \o es BY <1>1, <1>4, <2>2 DEF Outstanding
  <2>6. stage'[h] = stage[h] /\ snapshot'[h] = snapshot[h] BY <1>1
  <2> QED BY <1>2, <1>5, <2>1, <2>4, <2>5, <2>6, LeadsOn
<1> QED BY <1>6, <1>7, <1>8, CatchUpPartsNext

LEMMA EmitCatchUp ==
  ASSUME WatchInv, CatchUpInv, NEW c \in Calls, Emit(c)
  PROVE  CatchUpInv'
<1>1. /\ call[c].pc = "emit" /\ lock' = None
      /\ stream' = [h \in Handles |-> IF h \in watchers THEN stream[h] \o Uttered(c)
                                      ELSE stream[h]]
      /\ UNCHANGED <<data, watchers, stage, pending, snapshot, hydrated>>
  BY DEF Emit, EmitTo
<1>2. lock = c /\ c # None BY <1>1, WatchAssumption DEF WatchInv, LockIsEmitting
<1>3. Unsent = Uttered(c) /\ Unsent' = <<>> BY <1>1, <1>2 DEF Unsent
<1>4. CatchUpTyped' BY <1>1, CatchUpParts DEF CatchUpTyped
<1>5. ASSUME NEW h \in Handles PROVE Before(h)' BY <1>1, CatchUpParts DEF Before
<1>6. ASSUME NEW h \in watchers' PROVE Leads(h)'
  <2>1. h \in watchers /\ h \in Handles BY <1>1 DEF WatchInv, WatchTyped
  <2>2. PICK p, s, u : p = pending[h] /\ s = stream[h] /\ u = Unsent OBVIOUS
  <2>3. p \in Seq(Events) /\ s \in Seq(Events) /\ u \in Seq(Events)
    BY <2>1, <2>2, OutstandingTyped
  <2>4. Outstanding(h) = (p \o s) \o u BY <2>2 DEF Outstanding
  <2>5. stream'[h] = s \o u BY <1>1, <1>3, <2>1, <2>2
  <2>6. Outstanding(h)' = (p \o (s \o u)) \o <<>> BY <1>1, <1>3, <2>2, <2>5 DEF Outstanding
  <2>7. (p \o s) \o u = p \o (s \o u) BY <2>3, ConcatAssociative
  <2>8. (p \o (s \o u)) \o <<>> = p \o (s \o u)
    <3>1. s \o u \in Seq(Events) BY <2>3, ConcatProperties
    <3>2. p \o (s \o u) \in Seq(Events) BY <2>3, <3>1, ConcatProperties
    <3> QED BY <3>2, ConcatEmptySeq
  <2>9. Outstanding(h)' = Outstanding(h) BY <2>4, <2>6, <2>7, <2>8
  <2> QED BY <1>1, <2>1, <2>9, LeadsStill
<1> QED BY <1>4, <1>5, <1>6, CatchUpPartsNext

\* One handle moves; the others have what they had.
LEMMA MoveCatchUp ==
  ASSUME WatchInv, CatchUpInv, NEW h \in Handles,
         Unsent' = Unsent, data' = data, watchers' \subseteq watchers \cup {h},
         stage' \in [Handles -> Stages], CatchUpTyped', Before(h)',
         h \in watchers' => Leads(h)',
         \A u \in Handles \ {h} :
           /\ stage'[u] = stage[u] /\ stream'[u] = stream[u] /\ pending'[u] = pending[u]
           /\ snapshot'[u] = snapshot[u] /\ (u \in hydrated' <=> u \in hydrated)
  PROVE  CatchUpInv'
<1>1. ASSUME NEW u \in Handles PROVE Before(u)'
  <2>1. CASE u = h BY <2>1
  <2>2. CASE u # h BY <2>2, CatchUpParts DEF Before
  <2> QED BY <2>1, <2>2
<1>2. ASSUME NEW u \in watchers' PROVE Leads(u)'
  <2>1. CASE u = h BY <1>2, <2>1
  <2>2. CASE u # h
    <3>1. u \in watchers /\ u \in Handles \ {h} BY <2>2 DEF WatchInv, WatchTyped
    <3>2. Outstanding(u)' = Outstanding(u) BY <3>1 DEF Outstanding
    <3> QED BY <3>1, <3>2, LeadsStill
  <2> QED BY <2>1, <2>2
<1> QED BY <1>1, <1>2, CatchUpPartsNext

\* Steps after which the handle has nothing to catch up with.
LEMMA ApartCatchUp ==
  ASSUME WatchInv, CatchUpInv, NEW h \in Handles,
         OpenBox(h) \/ Hydrate(h) \/ StartClose(h) \/ Unwatch(h) \/ CloseBox(h)
  PROVE  CatchUpInv'
<1> DEFINE s == stage'[h]
<1>1. /\ lock' = lock /\ call' = call /\ data' = data /\ watchers' \subseteq watchers
      /\ CatchUpTyped /\ Before(h)
  BY CatchUpParts DEF OpenBox, Hydrate, StartClose, Unwatch, CloseBox
<1>2. Unsent' = Unsent BY <1>1, UnsentSame DEF WatchInv, WatchTyped
<1>3. stage \in [Handles -> Stages] BY DEF WatchInv, WatchTyped
<1>4. \A u \in Handles \ {h} :
        /\ stage'[u] = stage[u] /\ stream'[u] = stream[u] /\ pending'[u] = pending[u]
        /\ snapshot'[u] = snapshot[u] /\ (u \in hydrated' <=> u \in hydrated)
  <2>1. CASE OpenBox(h) BY <2>1 DEF OpenBox, Reach, WatchInv, WatchTyped
  <2>2. CASE Hydrate(h) BY <1>1, <2>2 DEF Hydrate, Reach, WatchInv, WatchTyped, CatchUpTyped
  <2>3. CASE StartClose(h) BY <1>1, <2>3 DEF StartClose, Reach, WatchInv, WatchTyped, CatchUpTyped
  <2>4. CASE Unwatch(h) BY <2>4 DEF Unwatch, Reach, WatchInv, WatchTyped
  <2>5. CASE CloseBox(h) BY <1>1, <2>5 DEF CloseBox, Reach, WatchInv, WatchTyped, CatchUpTyped
  <2> QED BY <2>1, <2>2, <2>3, <2>4, <2>5
<1>5. stage' \in [Handles -> Stages] /\ s \in Stages \ {"watching", "reading"}
  <2>1. \E x \in Stages \ {"watching", "reading"} : stage' = [stage EXCEPT ![h] = x]
    BY DEF OpenBox, Hydrate, StartClose, Unwatch, CloseBox, Reach, Stages
  <2> QED BY <1>3, <2>1
<1>6. CatchUpTyped'
  BY <1>1, EmptySeq DEF OpenBox, Hydrate, StartClose, Unwatch, CloseBox, CatchUpTyped
<1>7. Before(h)'
  <2>1. CASE OpenBox(h)
    BY <1>1, <2>1 DEF OpenBox, Before
  <2>2. CASE Hydrate(h)
    <3>1. s = "open" BY <1>3, <2>2 DEF Hydrate, Reach
    <3> QED BY <3>1 DEF Before
  <2>3. CASE StartClose(h) \/ Unwatch(h)
    <3>1. s \in {"unwatched", "closing"} BY <1>3, <2>3 DEF StartClose, Unwatch, Reach
    <3> QED BY <3>1 DEF Before
  <2>4. CASE CloseBox(h)
    BY <1>1, <2>4 DEF CloseBox, Before, CatchUpTyped
  <2> QED BY <2>1, <2>2, <2>3, <2>4
<1>8. Leads(h)' BY <1>5 DEF Leads
<1> QED BY <1>1, <1>2, <1>4, <1>5, <1>6, <1>7, <1>8, MoveCatchUp

\* The keys at the watch lead to the keys of the box: nothing has come since.
LEMMA RegisterCatchUp ==
  ASSUME WatchInv, CatchUpInv, NEW h \in Handles, Watch(h)
  PROVE  CatchUpInv'
<1>1. /\ stage[h] = "opened" /\ lock = None /\ watchers' = watchers \cup {h}
      /\ stage' = [stage EXCEPT ![h] = "watching"]
      /\ UNCHANGED <<data, lock, call, stream, hydrated, pending, snapshot>>
  BY DEF Watch, Reach
<1>2. /\ CatchUpTyped /\ Before(h) /\ data \in SUBSET Keys /\ stage \in [Handles -> Stages]
  BY CatchUpParts DEF WatchInv, WatchTyped
<1>3. Unsent = <<>> /\ Unsent' = <<>> BY <1>1 DEF Unsent
<1>4. pending'[h] = <<>> /\ stream'[h] = <<>>
  BY <1>1, <1>2 DEF Before, WatchInv, StreamsStartEmpty
<1>5. Outstanding(h)' = <<>>
  <2>1. <<>> \o <<>> = <<>> BY ConcatEmptySeq, EmptySeq
  <2>2. Outstanding(h)' = (<<>> \o <<>>) \o <<>> BY <1>3, <1>4 DEF Outstanding
  <2> QED BY <2>1, <2>2
<1>6. Replay(data', Outstanding(h)') = data' BY <1>1, <1>2, <1>5, ReplayNone
<1>7. stage'[h] = "watching" /\ stage' \in [Handles -> Stages] BY <1>1, <1>2 DEF Stages
<1>8. Leads(h)'
  <2>1. \E keys \in SUBSET Keys : Replay(keys, Outstanding(h)') = data' BY <1>1, <1>2, <1>6
  <2> QED BY <1>7, <2>1 DEF Leads
<1>9. CatchUpTyped' /\ Before(h)' BY <1>1, <1>2, <1>7 DEF CatchUpTyped, Before
<1> QED BY <1>1, <1>3, <1>7, <1>8, <1>9, MoveCatchUp

\* The keys of now stay what they are when the events that led to them come again.
LEMMA ReadCatchUp ==
  ASSUME WatchInv, CatchUpInv, NEW h \in Handles, ReadKeys(h)
  PROVE  CatchUpInv'
<1>1. /\ stage[h] = "watching" /\ snapshot' = [snapshot EXCEPT ![h] = data]
      /\ stage' = [stage EXCEPT ![h] = "reading"]
      /\ UNCHANGED <<data, lock, call, watchers, stream, hydrated, pending>>
  BY DEF ReadKeys, Reach
<1>2. /\ CatchUpTyped /\ Before(h) /\ data \in SUBSET Keys /\ stage \in [Handles -> Stages]
  BY CatchUpParts DEF WatchInv, WatchTyped
<1>3. Unsent' = Unsent BY <1>1, UnsentSame DEF WatchInv, WatchTyped
<1>4. stage'[h] = "reading" /\ stage' \in [Handles -> Stages] BY <1>1, <1>2 DEF Stages
<1>5. ASSUME h \in watchers PROVE Leads(h)'
  <2>1. PICK o, d : o = Outstanding(h) /\ d = data OBVIOUS
  <2>2. o \in Seq(Events) BY <2>1, OutstandingTyped
  <2>3. PICK keys \in SUBSET Keys : Replay(keys, o) = d BY <1>1, <1>5, <2>1 DEF CatchUpInv
  <2>4. Replay(d, o) = d BY <2>2, <2>3, ReplayAgain
  <2>5. Outstanding(h)' = o BY <1>1, <1>3, <2>1 DEF Outstanding
  <2>6. snapshot'[h] = d /\ data' = d BY <1>1, <1>2, <2>1 DEF CatchUpTyped
  <2>7. Replay(snapshot'[h], Outstanding(h)') = data' BY <2>4, <2>5, <2>6
  <2> QED BY <1>4, <2>7 DEF Leads
<1>6. CatchUpTyped' /\ Before(h)' BY <1>1, <1>2, <1>4 DEF CatchUpTyped, Before
<1>7. \A u \in Handles \ {h} :
        /\ stage'[u] = stage[u] /\ stream'[u] = stream[u] /\ pending'[u] = pending[u]
        /\ snapshot'[u] = snapshot[u] /\ (u \in hydrated' <=> u \in hydrated)
  BY <1>1, <1>2 DEF CatchUpTyped
<1> QED BY <1>1, <1>3, <1>4, <1>5, <1>6, <1>7, MoveCatchUp

\* An event goes from the stream to the buffer, in its order.
LEMMA EventMoves ==
  ASSUME NEW S, NEW p \in Seq(S), NEW s \in Seq(S), s # <<>>
  PROVE  Append(p, Head(s)) \o Tail(s) = p \o s
<1>1. /\ Head(s) \in S /\ Tail(s) \in Seq(S) /\ s = <<Head(s)>> \o Tail(s)
  BY HeadTailProperties, ConcatProperties, HeadTailAppend
<1> QED BY <1>1

LEMMA DeliverCatchUp ==
  ASSUME WatchInv, CatchUpInv, NEW h \in Handles, Deliver(h)
  PROVE  CatchUpInv'
<1>1. /\ stream[h] # <<>> /\ stage[h] \notin {"closed", "opened"}
      /\ stream' = [stream EXCEPT ![h] = Tail(stream[h])]
      /\ IF h \in hydrated THEN UNCHANGED pending
         ELSE pending' = [pending EXCEPT ![h] = Append(pending[h], Head(stream[h]))]
      /\ UNCHANGED <<data, lock, call, watchers, stage, hydrated, snapshot>>
  BY DEF Deliver
<1>2. /\ CatchUpTyped /\ Before(h) /\ stage \in [Handles -> Stages]
      /\ stream \in [Handles -> Seq(Events)]
  BY CatchUpParts DEF WatchInv, WatchTyped
<1>3. Unsent' = Unsent BY <1>1, UnsentSame DEF WatchInv, WatchTyped
<1>4. pending[h] \in Seq(Events) /\ stream[h] \in Seq(Events)
      /\ Head(stream[h]) \in Events /\ Append(pending[h], Head(stream[h])) \in Seq(Events)
  BY <1>1, <1>2, HeadTailProperties, AppendProperties DEF CatchUpTyped
<1>5. CatchUpTyped' BY <1>1, <1>2, <1>4 DEF CatchUpTyped
<1>6. Before(h)' BY <1>1, <1>2 DEF Before
<1>7. ASSUME h \in watchers PROVE Leads(h)'
  <2>1. CASE h \in hydrated
    <3>1. stage'[h] \notin {"watching", "reading"} BY <1>1, <1>2, <2>1 DEF Before
    <3> QED BY <3>1 DEF Leads
  <2>2. CASE h \notin hydrated
    <3>1. PICK p, s : p = pending[h] /\ s = stream[h] OBVIOUS
    <3>2. pending'[h] = Append(p, Head(s)) /\ stream'[h] = Tail(s)
      BY <1>1, <1>2, <2>2, <3>1 DEF CatchUpTyped
    <3>3. Append(p, Head(s)) \o Tail(s) = p \o s BY <1>1, <1>4, <3>1, EventMoves
    <3>4. Outstanding(h)' = Outstanding(h) BY <1>3, <3>1, <3>2, <3>3 DEF Outstanding
    <3> QED BY <1>1, <1>7, <3>4, LeadsStill
  <2> QED BY <2>1, <2>2
<1>8. \A u \in Handles \ {h} :
        /\ stage'[u] = stage[u] /\ stream'[u] = stream[u] /\ pending'[u] = pending[u]
        /\ snapshot'[u] = snapshot[u] /\ (u \in hydrated' <=> u \in hydrated)
  BY <1>1, <1>2 DEF CatchUpTyped
<1> QED BY <1>1, <1>2, <1>3, <1>5, <1>6, <1>7, <1>8, MoveCatchUp

LEMMA GoneCatchUp ==
  ASSUME WatchInv, CatchUpInv, DeleteBox \/ IsolateDies
  PROVE  CatchUpInv'
<1>1. watchers' = {} BY DEF DeleteBox, IsolateDies
<1>2. CatchUpTyped /\ \A h \in Handles : Before(h) BY CatchUpParts
<1>3. CatchUpTyped'
  <2>1. CASE DeleteBox BY <1>2, <2>1 DEF DeleteBox, CatchUpTyped
  <2>2. CASE IsolateDies
    <3>1. /\ snapshot' = [h \in Handles |-> {}] /\ pending' = [h \in Handles |-> <<>>]
      BY <2>2 DEF IsolateDies
    <3> QED BY <3>1, EmptySeq DEF CatchUpTyped
  <2> QED BY <2>1, <2>2
<1>4. ASSUME NEW h \in Handles PROVE Before(h)'
  <2>1. CASE DeleteBox BY <1>2, <2>1 DEF DeleteBox, Before
  <2>2. CASE IsolateDies
    <3>1. pending'[h] = <<>> /\ hydrated' = {} BY <2>2 DEF IsolateDies
    <3> QED BY <3>1 DEF Before
  <2> QED BY <2>1, <2>2
<1> QED BY <1>1, <1>3, <1>4, CatchUpPartsNext

LEMMA InitCatchUp == Init => CatchUpInv
<1> SUFFICES ASSUME Init PROVE CatchUpInv OBVIOUS
<1>1. CatchUpTyped BY EmptySeq DEF Init, CatchUpTyped
<1>2. ASSUME NEW h \in Handles PROVE Before(h) BY DEF Init, Before
<1>3. watchers = {} BY DEF Init
<1> QED BY <1>1, <1>2, <1>3, CatchUpParts

LEMMA CatchUpInvariance == WatchInv /\ CatchUpInv /\ [Next]_vars => CatchUpInv'
<1> SUFFICES ASSUME WatchInv, CatchUpInv, [Next]_vars PROVE CatchUpInv' OBVIOUS
<1>1. ASSUME NEW c \in Calls, NEW op \in Ops, NEW ks \in SUBSET Keys, Send(c, op, ks)
      PROVE  CatchUpInv'
  BY <1>1, CallCatchUp
<1>2. ASSUME NEW c \in Calls, CallStep(c) PROVE CatchUpInv'
  BY <1>2, CommitCatchUp, EmitCatchUp, CallCatchUp DEF CallStep
<1>3. ASSUME NEW h \in Handles, HandleStep(h) PROVE CatchUpInv'
  BY <1>3, ApartCatchUp, RegisterCatchUp, ReadCatchUp, DeliverCatchUp DEF HandleStep
<1>4. CASE UNCHANGED vars
  <2>1. UNCHANGED <<data, lock, call, watchers, stage, stream, pending, snapshot, hydrated>>
    BY <1>4 DEF vars, handleVars
  <2>2. Unsent' = Unsent BY <2>1, UnsentSame DEF WatchInv, WatchTyped
  <2> QED BY <2>1, <2>2, AsideCatchUp
<1> QED BY <1>1, <1>2, <1>3, <1>4, GoneCatchUp DEF Next

\* The keys a handle hydrates from are brought to those of the box by the events
\* it has buffered and those still to come, however old the answer of getAllKeys
\* is and whatever is committed meanwhile (box.dart:82-93, 313-363).
THEOREM SnapshotAlwaysCatchesUp == Spec => []SnapshotCatchesUp
<1>1. CatchUpInv => SnapshotCatchesUp BY DEF CatchUpInv
<1> QED BY <1>1, InitWatch, WatchInvariance, InitCatchUp, CatchUpInvariance, PTL DEF Spec

-----------------------------------------------------------------------------
(* The metadata of calls made one after another.                           *)

\* The metadata still leads to the keys of the box.
Follows(h) == stage[h] = "open" => Replay(metadata, stream[h] \o Unsent) = data

LEMMA SequentialNext ==
  ASSUME ~Overlap', \A c \in Calls : (call[c].pc \in {"emit", "reply"} => Replied(c, data) = data)',
         \A h \in Handles : Follows(h)'
  PROVE  SequentialInv'
BY DEF SequentialInv, Follows, Replied

\* A reply takes nothing from what the events lead to, when it leaves that alone.
LEMMA ReplyHarmless ==
  ASSUME WatchTyped, NEW c \in Calls, NEW ks \in SUBSET Keys, NEW es \in Seq(Events),
         Replied(c, Replay(ks, es)) = Replay(ks, es)
  PROVE  Replay(Replied(c, ks), es) = Replay(ks, es)
<1> DEFINE R == Replied(c, ks)
           d == Replay(ks, es)
           n == Len(es)
<1>1. /\ call[c].keys \in SUBSET Keys /\ call[c].op \in Ops
  BY DEF WatchTyped
<1>2. R \in SUBSET Keys BY <1>1 DEF Replied, Ops
<1>3. d \in SUBSET Keys /\ \A k \in Keys : k \in d <=> After(ks, es, k, n) BY ReplayIs
<1>4. Replay(R, es) \in SUBSET Keys /\ \A k \in Keys : k \in Replay(R, es) <=> After(R, es, k, n)
  BY <1>2, ReplayIs
<1>5. ASSUME NEW k \in Keys PROVE (k \in Replied(c, d) /\ k \notin d) \/ (k \notin Replied(c, d) /\ k \in d)
                                    \/ (k \in R <=> k \in ks) \/ (k \in R <=> k \in d)
  BY <1>1 DEF Replied, Ops
<1> HIDE DEF R, d
<1>6. Replied(c, d) = d BY DEF d
<1>7. ASSUME NEW k \in Keys PROVE k \in Replay(R, es) <=> k \in d
  <2>1. (k \in R <=> k \in ks) \/ (k \in R <=> k \in d) BY <1>5, <1>6
  <2>2. k \in d <=> LastSets(es, k, n) \/ (k \in ks /\ Untouched(es, k, n)) BY <1>3 DEF After
  <2>3. k \in Replay(R, es) <=> LastSets(es, k, n) \/ (k \in R /\ Untouched(es, k, n))
    BY <1>4 DEF After
  <2>4. ~(LastSets(es, k, n) /\ Untouched(es, k, n))
    <3>1. \A i \in 1..n : Sets(es[i], k) => Touches(es[i], k) BY DEF Sets, Touches
    <3> QED BY <3>1 DEF LastSets, Untouched
  <2> QED BY <2>1, <2>2, <2>3, <2>4
<1>8. Replay(R, es) = d BY <1>3, <1>4, <1>7
<1> QED BY <1>8 DEF R, d

\* One event.
LEMMA ReplayFirst ==
  ASSUME NEW ks \in SUBSET Keys, NEW s \in Seq(Events), s # <<>>, NEW t \in Seq(Events)
  PROVE  Replay(ks, s \o t) = Replay(Apply(ks, Head(s)), Tail(s) \o t)
<1>1. /\ Head(s) \in Events /\ Tail(s) \in Seq(Events) /\ Append(<<>>, Head(s)) \o Tail(s) = <<>> \o s
  BY HeadTailProperties, EmptySeq, EventMoves
<1> DEFINE e == Head(s)
           u == Append(<<>>, e)
<1>2. u \in Seq(Events) /\ Len(u) = 1 /\ u[1] = e BY <1>1, EmptySeq, AppendProperties
<1>3. s = u \o Tail(s) BY <1>1, ConcatEmptySeq
<1>4. Replay(ks, u) = Apply(ks, e)
  <2>1. Apply(ks, e) \in SUBSET Keys BY <1>1, ApplyTyped
  <2>2. ASSUME NEW k \in Keys PROVE k \in Replay(ks, u) <=> k \in Apply(ks, e)
    <3>1. k \in Replay(ks, u) <=> After(ks, u, k, 0 + 1)
      <4>1. k \in Replay(ks, u) <=> After(ks, u, k, Len(u)) BY <1>2, ReplayIs
      <4>2. Len(u) = 0 + 1 BY <1>2
      <4> QED BY <4>1, <4>2
    <3>2. After(ks, u, k, 0 + 1) <=> Sets(u[0 + 1], k) \/ (After(ks, u, k, 0) /\ ~Touches(u[0 + 1], k))
      BY OneMore
    <3>3. After(ks, u, k, 0) <=> k \in ks BY DEF After, LastSets, Untouched
    <3>4. u[0 + 1] = e BY <1>2
    <3> QED BY <1>1, <3>1, <3>2, <3>3, <3>4, ApplyIs
  <2>3. Replay(ks, u) \in SUBSET Keys BY <1>2, ReplayIs
  <2> QED BY <2>1, <2>2, <2>3
<1> HIDE DEF u
<1>5. Tail(s) \o t \in Seq(Events) BY <1>1, ConcatProperties
<1>6. s \o t = u \o (Tail(s) \o t)
  <2>1. PICK q : q = Tail(s) OBVIOUS
  <2>2. (u \o q) \o t = u \o (q \o t) BY <1>1, <1>2, <2>1, ConcatAssociative
  <2> QED BY <1>3, <2>1, <2>2
<1>7. Replay(ks, u \o (Tail(s) \o t)) = Replay(Replay(ks, u), Tail(s) \o t)
  BY <1>2, <1>5, ReplayConcat
<1> QED BY <1>4, <1>6, <1>7

-----------------------------------------------------------------------------
(* Every step.                                                             *)

LEMMA WatchedStep ==
  ASSUME WatchInv, WatchedInv, [Next]_vars
  PROVE  WatchedInv'
<1> USE DEF WatchedInv
<1>0. stage \in [Handles -> Stages] BY DEF WatchInv, WatchTyped
<1>1. CASE \E c \in Calls : CallStep(c) \/ \E op \in Ops, ks \in SUBSET Keys : Send(c, op, ks)
  <2>1. UNCHANGED <<stage, watchers, hydrated>>
    BY <1>1 DEF CallStep, Send, Commit, Emit, EmitTo, Fail, Reply, handleVars
  <2> QED BY <2>1
<1>2. ASSUME NEW h \in Handles, HandleStep(h) PROVE WatchedInv'
  <2>1. CASE OpenBox(h) BY <1>0, <2>1 DEF OpenBox, Reach
  <2>2. CASE Watch(h) BY <1>0, <2>2 DEF Watch, Reach
  <2>3. CASE ReadKeys(h) BY <1>0, <2>3 DEF ReadKeys, Reach
  <2>4. CASE Hydrate(h) BY <1>0, <2>4 DEF Hydrate, Reach
  <2>5. CASE Deliver(h) BY <2>5 DEF Deliver
  <2>6. CASE StartClose(h) BY <1>0, <2>6 DEF StartClose, Reach
  <2>7. CASE Unwatch(h) BY <1>0, <2>7 DEF Unwatch, Reach
  <2>8. CASE CloseBox(h) BY <1>0, <2>8 DEF CloseBox, Reach
  <2> QED BY <1>2, <2>1, <2>2, <2>3, <2>4, <2>5, <2>6, <2>7, <2>8 DEF HandleStep
<1>3. CASE DeleteBox
  <2>1. \A h \in Handles : stage'[h] = "closed" BY <1>3 DEF DeleteBox, NativeOpen
  <2> QED BY <2>1
<1>4. CASE IsolateDies
  <2>1. \A h \in Handles : stage'[h] = "closed" BY <1>4 DEF IsolateDies
  <2> QED BY <2>1
<1>5. CASE UNCHANGED vars BY <1>5 DEF vars, handleVars
<1> QED BY <1>1, <1>2, <1>3, <1>4, <1>5 DEF Next

LEMMA MetadataTyped ==
  ASSUME WatchInv, CatchUpInv, metadata \subseteq Keys, [Next]_vars
  PROVE  metadata' \subseteq Keys
<1>1. \A c \in Calls : Reply(c) => metadata' \subseteq Keys
  BY DEF Reply, Replied, WatchInv, WatchTyped
<1>2. ASSUME NEW h \in Handles, Hydrate(h) PROVE metadata' \subseteq Keys
  <2>1. snapshot[h] \in SUBSET Keys /\ pending[h] \in Seq(Events) BY DEF CatchUpInv
  <2> QED BY <1>2, <2>1, ReplayIs DEF Hydrate, Hydrated
<1>3. ASSUME NEW h \in Handles, Deliver(h) PROVE metadata' \subseteq Keys
  <2>1. stream[h] \in Seq(Events) /\ stream[h] # <<>> BY <1>3 DEF Deliver, WatchInv, WatchTyped
  <2>2. Head(stream[h]) \in Events BY <2>1, HeadTailProperties
  <2>3. Apply(metadata, Head(stream[h])) \in SUBSET Keys BY <2>2, ApplyTyped
  <2> QED BY <1>3, <2>3 DEF Deliver
<1>4. CASE DeleteBox \/ IsolateDies BY <1>4 DEF DeleteBox, IsolateDies
<1>5. CASE UNCHANGED metadata BY <1>5
<1>6. \/ DeleteBox \/ IsolateDies \/ UNCHANGED metadata \/ \E c \in Calls : Reply(c)
      \/ \E h \in Handles : Hydrate(h) \/ Deliver(h)
  <2>1. ASSUME NEW c \in Calls, CallStep(c) PROVE UNCHANGED metadata \/ Reply(c)
    BY <2>1 DEF CallStep, Commit, Emit, EmitTo, Fail
  <2>2. ASSUME NEW h \in Handles, HandleStep(h) PROVE UNCHANGED metadata \/ Hydrate(h) \/ Deliver(h)
    BY <2>2 DEF HandleStep, OpenBox, Watch, ReadKeys, StartClose, Unwatch, CloseBox
  <2>3. ASSUME NEW c \in Calls, NEW op \in Ops, NEW ks \in SUBSET Keys, Send(c, op, ks)
        PROVE  UNCHANGED metadata
    BY <2>3 DEF Send
  <2>4. CASE UNCHANGED vars BY <2>4 DEF vars
  <2> QED BY <2>1, <2>2, <2>3, <2>4 DEF Next
<1> QED BY <1>1, <1>2, <1>3, <1>4, <1>5, <1>6

\* The records of calls a reply is computed from.
LEMMA RepliedSame ==
  ASSUME NEW c \in Calls, call'[c].op = call[c].op, call'[c].keys = call[c].keys,
         call'[c].deleted = call[c].deleted, data' = data
  PROVE  Replied(c, data)' = Replied(c, data)
BY DEF Replied

\* A commit leads to keys its own reply leaves alone, and nobody else has one.
LEMMA SettledStep ==
  ASSUME WatchInv, SequentialInv, ~Overlap', [Next]_vars, NEW c \in Calls
  PROVE  (call[c].pc \in {"emit", "reply"} => Replied(c, data) = data)'
<1> SUFFICES ASSUME call'[c].pc \in {"emit", "reply"} PROVE (Replied(c, data) = data)'
  OBVIOUS
<1>0. call \in [Calls -> [pc : {"idle", "sent", "emit", "reply"}, op : Ops,
                         keys : SUBSET Keys, deleted : SUBSET Keys]]
  BY DEF WatchInv, WatchTyped
<1>1. ASSUME call[c].pc \in {"emit", "reply"}, data' = data, call'[c].op = call[c].op,
             call'[c].keys = call[c].keys, call'[c].deleted = call[c].deleted
      PROVE  (Replied(c, data) = data)'
  BY <1>1, RepliedSame DEF SequentialInv
<1>2. ASSUME NEW d \in Calls, Commit(d) PROVE (Replied(c, data) = data)'
  <2>1. /\ lock = None /\ data' = Stored(call[d].op, call[d].keys)
        /\ call' = [call EXCEPT ![d].pc = "emit",
              ![d].deleted = IF call[d].op = "deleteAll" THEN call[d].keys \cap data ELSE call[d].keys]
    BY <1>2 DEF Commit
  <2>2. c = d
    <3>1. call'[d].pc # "idle" /\ call'[c].pc # "idle" BY <1>0, <2>1
    <3> QED BY <3>1 DEF Overlap
  <2>3. /\ call'[c].op = call[c].op /\ call'[c].keys = call[c].keys
        /\ call'[c].deleted = IF call[c].op = "deleteAll" THEN call[c].keys \cap data ELSE call[c].keys
    BY <1>0, <2>1, <2>2
  <2>4. call[c].op \in Ops BY <1>0
  <2>5. Replied(c, data)' = CASE call[c].op = "put" -> data' \cup call[c].keys
                              [] call[c].op = "clear" -> {}
                              [] OTHER -> data' \ call'[c].deleted
    BY <2>3 DEF Replied
  <2>6. data' = Stored(call[c].op, call[c].keys) BY <2>1, <2>2
  <2>7. PICK op, ks, old : op = call[c].op /\ ks = call[c].keys /\ old = data OBVIOUS
  <2>8. CASE op = "put" BY <2>5, <2>6, <2>7, <2>8 DEF Stored
  <2>9. CASE op = "clear" BY <2>5, <2>6, <2>7, <2>9 DEF Stored
  <2>10. CASE op \in {"delete", "deleteAll"}
    <3>1. data' = old \ ks BY <2>6, <2>7, <2>10 DEF Stored
    <3>2. Replied(c, data)' = data' \ call'[c].deleted BY <2>5, <2>7, <2>10
    <3>3. call'[c].deleted \subseteq ks BY <2>3, <2>7
    <3> QED BY <3>1, <3>2, <3>3
  <2> QED BY <2>4, <2>7, <2>8, <2>9, <2>10 DEF Ops
<1>3. ASSUME NEW d \in Calls, Emit(d) PROVE (Replied(c, data) = data)'
  <2>1. call[d].pc = "emit" /\ call' = Answered(d) /\ data' = data BY <1>3 DEF Emit, EmitTo
  <2>2. /\ call[c].pc \in {"emit", "reply"} /\ call'[c].op = call[c].op
        /\ call'[c].keys = call[c].keys /\ call'[c].deleted = call[c].deleted
    BY <1>0, <2>1 DEF Answered, NoCall
  <2> QED BY <1>1, <2>1, <2>2
<1>4. ASSUME NEW d \in Calls, Fail(d) \/ Reply(d) PROVE (Replied(c, data) = data)'
  <2>1. call' = [call EXCEPT ![d] = NoCall] /\ data' = data BY <1>4 DEF Fail, Reply
  <2>2. c # d /\ call'[c] = call[c] BY <1>0, <2>1 DEF NoCall
  <2> QED BY <1>1, <2>1, <2>2
<1>5. ASSUME NEW d \in Calls, NEW op \in Ops, NEW ks \in SUBSET Keys, Send(d, op, ks)
      PROVE  (Replied(c, data) = data)'
  <2>1. call' = [call EXCEPT ![d] = [pc |-> "sent", op |-> op, keys |-> ks, deleted |-> {}]] /\ data' = data
    BY <1>5 DEF Send
  <2>2. c # d /\ call'[c] = call[c] BY <1>0, <2>1
  <2> QED BY <1>1, <2>1, <2>2
<1>6. ASSUME NEW h \in Handles, HandleStep(h) PROVE (Replied(c, data) = data)'
  <2>1. call' = call /\ data' = data
    BY <1>6 DEF HandleStep, OpenBox, Watch, ReadKeys, Hydrate, Deliver, StartClose, Unwatch, CloseBox
  <2> QED BY <1>1, <2>1
<1>7. CASE DeleteBox
  <2>1. lock = None /\ call'[c] = IF call[c].pc = "reply" THEN NoCall ELSE call[c]
    BY <1>7 DEF DeleteBox
  <2>2. lock = c BY <2>1 DEF NoCall, WatchInv, LockIsEmitting
  <2> QED BY <2>1, <2>2, WatchAssumption
<1>8. CASE IsolateDies
  <2>1. call'[c] \in {call[c], NoCall} /\ data' = data BY <1>8 DEF IsolateDies
  <2>2. call'[c] = call[c] BY <2>1 DEF NoCall
  <2> QED BY <1>1, <2>1, <2>2
<1>9. CASE UNCHANGED vars
  <2>1. call' = call /\ data' = data BY <1>9 DEF vars
  <2> QED BY <1>1, <2>1
<1> QED BY <1>2, <1>3, <1>4, <1>5, <1>6, <1>7, <1>8, <1>9 DEF Next, CallStep

\* What an open handle has: its sink, and events that lead to the keys of the box.
LEMMA OpenFacts ==
  ASSUME WatchInv, CatchUpInv, WatchedInv, SequentialInv, metadata \subseteq Keys,
         NEW h \in Handles, stage[h] = "open"
  PROVE  /\ h \in watchers /\ h \in hydrated /\ metadata \in SUBSET Keys /\ data \in SUBSET Keys
         /\ stream[h] \in Seq(Events) /\ Unsent \in Seq(Events) /\ stream[h] \o Unsent \in Seq(Events)
         /\ Replay(metadata, stream[h] \o Unsent) = data
<1>1. stream[h] \in Seq(Events) /\ Unsent \in Seq(Events) BY OutstandingTyped
<1>2. stream[h] \o Unsent \in Seq(Events) BY <1>1, ConcatProperties
<1> QED BY <1>1, <1>2 DEF WatchedInv, SequentialInv, WatchInv, WatchTyped

LEMMA CallFollows ==
  ASSUME WatchInv, CatchUpInv, WatchedInv, SequentialInv, metadata \subseteq Keys,
         NEW c \in Calls, CallStep(c) \/ \E op \in Ops, ks \in SUBSET Keys : Send(c, op, ks),
         NEW h \in Handles, stage'[h] = "open"
  PROVE  Replay(metadata', stream'[h] \o Unsent') = data'
<1>0. call \in [Calls -> [pc : {"idle", "sent", "emit", "reply"}, op : Ops,
                         keys : SUBSET Keys, deleted : SUBSET Keys]]
  BY DEF WatchInv, WatchTyped
<1>1. stage[h] = "open"
  BY DEF CallStep, Send, Commit, Emit, EmitTo, Fail, Reply, handleVars
<1>2. PICK M, s, u, d : M = metadata /\ s = stream[h] /\ u = Unsent /\ d = data OBVIOUS
<1>3. /\ h \in watchers /\ M \in SUBSET Keys /\ s \in Seq(Events) /\ u \in Seq(Events)
      /\ s \o u \in Seq(Events) /\ Replay(M, s \o u) = d /\ d \in SUBSET Keys
  BY <1>1, <1>2, OpenFacts
<1>4. CASE Commit(c)
  <2> DEFINE op == call[c].op
             ks == call[c].keys
             es == Emitted(op, ks)
  <2>1. /\ lock = None /\ lock' = c /\ data' = Stored(op, ks)
        /\ call' = [call EXCEPT ![c].pc = "emit",
                                ![c].deleted = IF op = "deleteAll" THEN ks \cap data ELSE ks]
        /\ UNCHANGED <<metadata, stream>>
    BY <1>4 DEF Commit, handleVars
  <2>2. op \in Ops /\ ks \in SUBSET Keys /\ es \in Seq(Events) /\ c # None
    BY UtteredListed, WatchAssumption DEF WatchInv, WatchTyped
  <2>3. Unsent' = es
    <3>1. /\ call'[c].op = op /\ call'[c].keys = ks
          /\ call'[c].deleted = IF op = "deleteAll" THEN ks \cap data ELSE ks
      BY <1>0, <2>1
    <3>2. Unsent' = Uttered(c)' BY <2>1, <2>2 DEF Unsent, Uttered
    <3> QED BY <2>2, <3>1, <3>2 DEF Uttered, Emitted, Ops
  <2>4. Replay(d, es) = data' BY <1>2, <1>3, <2>1, <2>2, ReplayCommit
  <2>5. u = <<>> BY <1>2, <2>1 DEF Unsent
  <2>6. s \o u = s BY <1>3, <2>5, ConcatEmptySeq
  <2> HIDE DEF es
  <2>7. Replay(M, s \o es) = Replay(Replay(M, s), es) BY <1>3, <2>2, ReplayConcat
  <2> QED BY <1>2, <1>3, <2>1, <2>3, <2>4, <2>6, <2>7
<1>5. CASE Emit(c)
  <2>1. /\ call[c].pc = "emit" /\ lock' = None /\ stream'[h] = s \o Uttered(c)
        /\ UNCHANGED <<data, metadata>>
    BY <1>2, <1>3, <1>5 DEF Emit, EmitTo
  <2>2. lock = c /\ c # None BY <2>1, WatchAssumption DEF WatchInv, LockIsEmitting
  <2>3. u = Uttered(c) /\ Unsent' = <<>> BY <1>2, <2>1, <2>2 DEF Unsent
  <2>4. (s \o u) \o <<>> = s \o u BY <1>3, ConcatEmptySeq
  <2> QED BY <1>2, <1>3, <2>1, <2>3, <2>4
<1>6. ASSUME call[c].pc # "emit", \A b \in Calls \ {c} : call'[b] = call[b],
             UNCHANGED <<data, lock, stream>>
      PROVE  Unsent' = u /\ stream'[h] = s /\ data' = d
  <2>1. lock # c BY <1>6 DEF WatchInv, LockIsEmitting
  <2>2. Unsent' = Unsent BY <1>6, <2>1, UnsentSame DEF WatchInv, WatchTyped
  <2> QED BY <1>2, <1>6, <2>2
<1>7. CASE Fail(c) \/ \E op \in Ops, ks \in SUBSET Keys : Send(c, op, ks)
  <2>1. /\ call[c].pc # "emit" /\ \A b \in Calls \ {c} : call'[b] = call[b]
        /\ UNCHANGED <<data, lock, stream, metadata>>
    BY <1>0, <1>7 DEF Fail, Send, handleVars
  <2> QED BY <1>2, <1>3, <1>6, <2>1
<1>8. CASE Reply(c)
  <2>1. /\ call[c].pc = "reply" /\ \A b \in Calls \ {c} : call'[b] = call[b]
        /\ UNCHANGED <<data, lock, stream>> /\ metadata' = Replied(c, M)
    BY <1>0, <1>2, <1>8 DEF Reply, handleVars
  <2>2. Unsent' = u /\ stream'[h] = s /\ data' = d BY <1>6, <2>1
  <2>3. Replied(c, d) = d BY <1>2, <2>1 DEF SequentialInv
  <2>4. Replay(Replied(c, M), s \o u) = Replay(M, s \o u)
    <3>1. PICK es : es = s \o u OBVIOUS
    <3>2. Replied(c, Replay(M, es)) = Replay(M, es) BY <1>3, <2>3, <3>1
    <3>3. WatchTyped BY DEF WatchInv
    <3> QED BY <1>3, <3>1, <3>2, <3>3, ReplyHarmless
  <2> QED BY <1>3, <2>1, <2>2, <2>4
<1> QED BY <1>4, <1>5, <1>7, <1>8 DEF CallStep

LEMMA HandleFollows ==
  ASSUME WatchInv, CatchUpInv, WatchedInv, SequentialInv, metadata \subseteq Keys, ~Overlap',
         NEW g \in Handles, HandleStep(g), NEW h \in Handles, stage'[h] = "open"
  PROVE  Replay(metadata', stream'[h] \o Unsent') = data'
<1>0. stage \in [Handles -> Stages] BY DEF WatchInv, WatchTyped
<1>1. lock' = lock /\ call' = call /\ data' = data
  BY DEF HandleStep, OpenBox, Watch, ReadKeys, Hydrate, Deliver, StartClose, Unwatch, CloseBox
<1>2. Unsent' = Unsent BY <1>1, UnsentSame DEF WatchInv, WatchTyped
<1>3. \A k \in Handles \ {h} : stage'[k] = "closed" BY DEF Overlap
<1>4. ASSUME stage[h] = "open", metadata' = metadata, stream'[h] = stream[h]
      PROVE  Replay(metadata', stream'[h] \o Unsent') = data'
  BY <1>1, <1>2, <1>4, OpenFacts
<1>5. CASE OpenBox(g) \/ Watch(g) \/ ReadKeys(g) \/ StartClose(g) \/ Unwatch(g)
  <2>1. stage'[g] # "open" /\ metadata' = metadata /\ stream' = stream
        /\ \A k \in Handles \ {g} : stage'[k] = stage[k]
    BY <1>0, <1>5 DEF OpenBox, Watch, ReadKeys, StartClose, Unwatch, Reach
  <2> QED BY <1>4, <2>1
<1>6. CASE CloseBox(g)
  <2>1. stage'[g] # "open" /\ metadata' = metadata
        /\ \A k \in Handles \ {g} : stage'[k] = stage[k] /\ stream'[k] = stream[k]
    BY <1>0, <1>6 DEF CloseBox, Reach, WatchInv, WatchTyped
  <2> QED BY <1>4, <2>1
<1>7. CASE Hydrate(g)
  <2>1. /\ stage[g] = "reading" /\ stage'[g] = "open" /\ stream' = stream
        /\ metadata' = Replay(snapshot[g], pending[g])
    BY <1>0, <1>7 DEF Hydrate, Hydrated, Reach
  <2>2. h = g BY <1>3, <2>1
  <2>3. PICK S, p, s, u : S = snapshot[g] /\ p = pending[g] /\ s = stream[g] /\ u = Unsent OBVIOUS
  <2>4. S \in SUBSET Keys /\ p \in Seq(Events) /\ s \in Seq(Events) /\ u \in Seq(Events)
    BY <2>3, OutstandingTyped DEF CatchUpInv
  <2>5. Replay(S, (p \o s) \o u) = data
    BY <2>1, <2>3 DEF WatchedInv, CatchUpInv, SnapshotCatchesUp, Outstanding
  <2>6. (p \o s) \o u = p \o (s \o u) BY <2>4, ConcatAssociative
  <2>7. Replay(S, p \o (s \o u)) = Replay(Replay(S, p), s \o u)
    <3>1. s \o u \in Seq(Events) BY <2>4, ConcatProperties
    <3> QED BY <2>4, <3>1, ReplayConcat
  <2> QED BY <1>1, <1>2, <2>1, <2>2, <2>3, <2>5, <2>6, <2>7
<1>8. CASE Deliver(g)
  <2>1. /\ stage[g] # "closed" /\ stage' = stage /\ stream[g] # <<>>
        /\ IF g \in hydrated THEN metadata' = Apply(metadata, Head(stream[g])) ELSE UNCHANGED metadata
        /\ stream'[g] = Tail(stream[g])
    BY <1>8 DEF Deliver, WatchInv, WatchTyped
  <2>2. h = g BY <1>3, <2>1
  <2>3. PICK M, s, u : M = metadata /\ s = stream[g] /\ u = Unsent OBVIOUS
  <2>4. /\ g \in hydrated /\ M \in SUBSET Keys /\ s \in Seq(Events) /\ u \in Seq(Events)
        /\ Replay(M, s \o u) = data
    BY <2>1, <2>2, <2>3, OpenFacts
  <2>5. Replay(M, s \o u) = Replay(Apply(M, Head(s)), Tail(s) \o u)
    BY <2>1, <2>3, <2>4, ReplayFirst
  <2> QED BY <1>1, <1>2, <2>1, <2>2, <2>3, <2>4, <2>5
<1> QED BY <1>5, <1>6, <1>7, <1>8 DEF HandleStep

LEMMA SequentialStep ==
  ASSUME WatchInv, CatchUpInv, WatchedInv, SequentialInv, metadata \subseteq Keys, ~Overlap', [Next]_vars
  PROVE  SequentialInv'
<1>1. ASSUME NEW h \in Handles PROVE Follows(h)'
  <2> SUFFICES ASSUME stage'[h] = "open" PROVE Replay(metadata', stream'[h] \o Unsent') = data'
    BY DEF Follows
  <2>1. CASE \E c \in Calls : CallStep(c) \/ \E op \in Ops, ks \in SUBSET Keys : Send(c, op, ks)
    BY <2>1, CallFollows
  <2>2. CASE \E g \in Handles : HandleStep(g) BY <2>2, HandleFollows
  <2>3. ~DeleteBox /\ ~IsolateDies BY DEF DeleteBox, IsolateDies, NativeOpen
  <2>4. CASE UNCHANGED vars
    <3>1. stage' = stage /\ metadata' = metadata /\ stream' = stream /\ data' = data
          /\ lock' = lock /\ call' = call
      BY <2>4 DEF vars, handleVars
    <3>2. Unsent' = Unsent BY <3>1, UnsentSame DEF WatchInv, WatchTyped
    <3> QED BY <3>1, <3>2, OpenFacts
  <2> QED BY <2>1, <2>2, <2>3, <2>4 DEF Next
<1>2. \A c \in Calls : (call[c].pc \in {"emit", "reply"} => Replied(c, data) = data)'
  BY SettledStep
<1> QED BY <1>1, <1>2, SequentialNext

LEMMA InitCalls == CallsInit => CallsInv
<1> SUFFICES ASSUME CallsInit PROVE CallsInv OBVIOUS
<1>1. Init /\ together = FALSE BY DEF CallsInit
<1>2. /\ \A h \in Handles : stage[h] = "closed"
      /\ \A c \in Calls : call[c].pc = "idle"
      /\ metadata = {}
  BY <1>1 DEF Init, NoCall
<1>3. WatchedInv BY <1>2 DEF WatchedInv
<1>4. SequentialInv BY <1>2 DEF SequentialInv, Overlap
<1> QED BY <1>1, <1>2, <1>3, <1>4 DEF CallsInv

LEMMA CallsInvariance ==
  WatchInv /\ CatchUpInv /\ CallsInv /\ [CallsNext]_<<vars, together>> => CallsInv'
<1> SUFFICES ASSUME WatchInv, CatchUpInv, CallsInv, [CallsNext]_<<vars, together>> PROVE CallsInv'
  OBVIOUS
<1>1. [Next]_vars BY DEF CallsNext
<1>2. metadata' \subseteq Keys /\ WatchedInv' BY <1>1, MetadataTyped, WatchedStep DEF CallsInv
<1>3. CASE CallsNext
  <2>1. together' = (together \/ Overlap') BY <1>3 DEF CallsNext
  <2>2. together \in BOOLEAN BY DEF CallsInv
  <2>3. together' \in BOOLEAN BY <2>1, <2>2
  <2>4. ASSUME ~together' PROVE SequentialInv'
    <3>1. ~together /\ ~Overlap' BY <2>1, <2>4
    <3> QED BY <1>1, <3>1, SequentialStep DEF CallsInv
  <2> QED BY <1>2, <2>3, <2>4 DEF CallsInv
<1>4. CASE UNCHANGED <<vars, together>>
  <2>1. UNCHANGED vars /\ together' = together BY <1>4
  <2>2. ASSUME ~together PROVE SequentialInv'
    <3>1. ~Overlap' BY <2>1, <2>2 DEF CallsInv, SequentialInv, Overlap, vars, handleVars
    <3> QED BY <1>1, <2>2, <3>1, SequentialStep DEF CallsInv
  <2> QED BY <1>2, <2>1, <2>2 DEF CallsInv
<1> QED BY <1>3, <1>4

\* Made one after another, on one handle at a time, the calls of an isolate leave
\* it with the keys of the box once everything has been delivered, whatever was
\* opened, closed, deleted or restarted before (box.dart:95-105, 166-197).
THEOREM SequentialCallsAlwaysConverge == CallsSpec => []SequentialCallsConverge
<1>1. CallsInit => WatchInv /\ CatchUpInv /\ CallsInv
  BY InitWatch, InitCatchUp, InitCalls DEF CallsInit
<1>2. [CallsNext]_<<vars, together>> => [Next]_vars BY DEF CallsNext
<1>3. WatchInv /\ CatchUpInv /\ CallsInv => SequentialCallsConverge
  <2> SUFFICES ASSUME WatchInv, CatchUpInv, CallsInv, ~together, Quiet PROVE metadata = data
    BY DEF SequentialCallsConverge, MetadataConverges
  <2>1. PICK h \in Handles : stage[h] = "open" BY DEF Quiet
  <2>2. stream[h] = <<>> /\ \A c \in Calls : call[c].pc = "idle" BY DEF Quiet
  <2>3. lock = None BY <2>2 DEF WatchInv, WatchTyped, LockIsEmitting
  <2>4. Unsent = <<>> BY <2>3 DEF Unsent
  <2>5. metadata \in SUBSET Keys /\ Replay(metadata, stream[h] \o Unsent) = data
    BY <2>1, OpenFacts DEF CallsInv
  <2>6. <<>> \o <<>> = <<>> BY ConcatEmptySeq, EmptySeq
  <2> QED BY <2>2, <2>4, <2>5, <2>6, ReplayNone
<1> QED BY <1>1, <1>2, <1>3, WatchInvariance, CatchUpInvariance, CallsInvariance, PTL DEF CallsSpec
=============================================================================
